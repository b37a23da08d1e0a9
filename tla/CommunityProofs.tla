-------------------------- MODULE CommunityProofs --------------------------
(***************************************************************************)
(* The community's threads, posts, votes and addons: rows are whole, the   *)
(* counters are what they count, and what is kept twice agrees.            *)
(*                                                                         *)
(* A request plans its writes from what it has read, and other requests    *)
(* run between any two of them.  So the invariant, CommunityInv, says      *)
(* - of every request, in each of its phases, what it may have planned     *)
(*   (Facts): the last row of a reply, say, is planned only while the row  *)
(*   before it is there;                                                   *)
(* - of every subject that is settled (no request is about it, and the     *)
(*   last one to derive its values had it to itself) that the rows agree;  *)
(* - of a subject that one request has to itself, that the rows will agree *)
(*   when the plan is made;                                                *)
(* - and, whatever overlaps, which posts and views the counters stand for. *)
(* A step is reduced to what it moves and to the one item it writes.       *)
(***************************************************************************)
EXTENDS Community, TableProofs, FiniteSetTheorems

-----------------------------------------------------------------------------
(* The ids that were given.                                                *)

Known == 0..requests
KnownOrNothing == Known \cup {Nothing}

\* The subjects whose values are derived.
Derived(s) == s[1] \in {"thread", "post", "text", "addon"}

SetPost(p, attributes) == Update(Post(p), attributes, <<>>)
SetCopy(t, p, attributes) == Update(PostIn(t, p), attributes, <<>>)
SetVotes(t, c) == UpdateOld(Thread(t), c, <<>>)

Counts(c) ==
    /\ c = [up |-> c.up, down |-> c.down]
    /\ c.up \in 0..Cardinality(User) /\ c.down \in 0..Cardinality(User)

-----------------------------------------------------------------------------
(* What a request is about and has planned.                                *)

TagCall(k) ==
    /\ k.on = {}
    /\ k.at \in {"put", "done"} /\ (k.at = "put" => k.todo = <<>>)
    /\ k.at = "done" => k.todo = <<{Put(TagRow(k.arg[1]), TRUE)}>>

\* The rows of the tags and of the links of a thread.
LinkKeys(t) ==
    {TagOf(t, g) : g \in Tag} \cup {Tagged(g, t) : g \in Tag}
    \cup {Link(t, c) : c \in Content} \cup {Linked(c, t) : c \in Content}

ThreadCall(k) ==
    /\ k.on = {Replies(k.id)}
    /\ k.arg[1] \subseteq Tag /\ k.arg[2] \subseteq Content
    /\ k.at \in {"put", "tags", "done"} /\ (k.at = "put" => k.todo = <<>>)
    /\ k.at = "tags" => k.todo = <<>> \/ k.todo = <<{Put(Thread(k.id), NewThread)}>>
    /\ k.at = "done" => \A x \in Planned(k.todo) : x.do = "put" /\ x.key \in LinkKeys(k.id)

ViewCall(k) ==
    /\ k.on = {}
    /\ k.at \in {"read", "done"} /\ (k.at = "read" => k.todo = <<>>)
    /\ k.at = "done" => k.todo = <<{UpdateOld(Thread(k.arg[1]), <<>>, [views |-> 1])}>>

EditCall(k) ==
    /\ k.on = {}
    /\ k.at \in {"read", "done"} /\ (k.at = "read" => k.todo = <<>>)
    /\ k.at = "done" => k.todo = <<{Update(Thread(k.arg[1]), [text |-> "edited"], <<>>)}>>

PutCopy(k) == Put(PostIn(k.arg[1], k.id), NewPost(k.arg[1], k.id))
PutOwn(k) == Put(Post(k.id), NewPost(k.arg[1], k.id))

ReplyPlan(k, S) == <<S, {CountReply(k.arg[1])}>>
ReplyEnd(k) == <<{CountReply(k.arg[1])}>>

ReplyCall(k) ==
    /\ k.on = {Replies(k.arg[1]), PostText(k.id), PostVotes(k.id)}
    /\ k.arg[1] \in KnownOrNothing
    /\ k.at \in {"thread", "done"} /\ (k.at = "thread" => k.todo = <<>>)
    /\ k.at = "done" => \/ k.todo = ReplyPlan(k, {PutCopy(k), PutOwn(k)})
                        \/ k.todo = ReplyPlan(k, {PutCopy(k)})
                        \/ k.todo = ReplyPlan(k, {PutOwn(k)})
                        \/ k.todo = ReplyEnd(k)

RewriteCall(k) ==
    /\ k.on = {PostText(k.arg[1])}
    /\ k.arg[1] \in Known
    /\ k.at \in {"read", "done"} /\ (k.at = "read" => k.todo = <<>>)

VoteCall(k) ==
    /\ k.on = {k.arg[1]}
    /\ \/ \E t \in KnownOrNothing : k.arg[1] = ThreadVotes(t)
       \/ \E p \in Known : k.arg[1] = PostVotes(p)
    /\ k.arg[2] \in User
    /\ k.at \in {"put", "count", "post", "done"} /\ (k.at \in {"put", "post"} => k.todo = <<>>)
    /\ k.at \in {"put", "count"} => k.arg = <<k.arg[1], k.arg[2], k.arg[3]>>
    /\ k.at = "count" => \/ k.todo = <<>>
                         \/ k.todo = <<{Delete(Vote(k.arg[1], k.arg[2]))}>>
                         \/ k.todo = <<{Put(Vote(k.arg[1], k.arg[2]), k.arg[3])}>>
    /\ k.at = "post" => k.arg[1][1] = "post" /\ Counts(k.arg[4])
    /\ k.at = "done" =>
          \/ /\ k.arg[1][1] = "thread"
             /\ \E c : Counts(c) /\ k.todo = <<{SetVotes(k.arg[1][2], c)}>>
          \/ k.arg[1][1] = "post" /\ Counts(k.arg[4])

Kinds == {"flashcard_pack", "course"}

AddonCall(k) ==
    /\ k.on = {} /\ k.arg[1] \in User /\ k.arg[2] \in Kinds
    /\ k.at \in {"put", "done"} /\ (k.at = "put" => k.todo = <<>>)
    /\ k.at = "done" => k.todo = <<{Put(Addon(k.id), NewAddon(k.arg[1], k.arg[2]))}>>

ByHandOps == {"patch", "store", "erase"}

HandCall(k) ==
    /\ k.on = {AddonDeck(k.arg[1])} /\ k.arg[1] \in KnownOrNothing
    /\ k.at \in {"go", "done"} /\ (k.at = "go" => k.todo = <<>>)
    /\ k.op = "patch" => k.arg[3] \in 0..MaxCards
    /\ k.at = "done" =>
          \/ k.op = "patch" /\ k.todo = <<{SetCount(k.arg[1], k.arg[3])}>>
          \/ k.op = "store" /\ k.todo = <<{Put(Markdown(k.arg[1]), k.arg[2])}>>
          \/ k.op = "erase" /\ k.todo = <<{Delete(Markdown(k.arg[1]))}>>

CountLeft(k) == <<{SetCount(k.arg[1], k.arg[3])}>>

DeckCall(k) ==
    /\ k.on = {AddonDeck(k.arg[1])} /\ k.arg[1] \in KnownOrNothing
    /\ k.arg[3] \in 0..MaxCards
    /\ k.at \in {"addon", "done"} /\ (k.at = "addon" => k.todo = <<>>)
    /\ k.at = "done" => k.todo = StoreAndCount(k.arg[1], k.arg[3]) \/ k.todo = CountLeft(k)

Ops == {"tag", "thread", "view", "edit", "reply", "rewrite", "vote", "addon", "patch", "store",
        "erase", "deck"}

Request(k) ==
    k.op # "idle" =>
        /\ k.op \in Ops
        /\ k.id \in 1..requests
        /\ k.op = "tag" => TagCall(k)
        /\ k.op = "thread" => ThreadCall(k)
        /\ k.op = "view" => ViewCall(k)
        /\ k.op = "edit" => EditCall(k)
        /\ k.op = "reply" => ReplyCall(k)
        /\ k.op = "rewrite" => RewriteCall(k)
        /\ k.op = "vote" => VoteCall(k)
        /\ k.op = "addon" => AddonCall(k)
        /\ k.op \in ByHandOps => HandCall(k)
        /\ k.op = "deck" => DeckCall(k)

CallsInv ==
    /\ CallsOK
    /\ requests \in Nat /\ requests <= MaxRequests
    /\ \A w \in Worker : Request(call[w])
    /\ \A v, w \in Worker : Busy(v) /\ Busy(w) /\ call[v].id = call[w].id => v = w

\* A subject that is not spoiled has one request at most.
Alone ==
    \A v, w \in Worker : \A s \in call[v].on \cap call[w].on :
        Derived(s) /\ s \notin spoiled => v = w

-----------------------------------------------------------------------------
(* Threads.                                                                *)

ThreadRow(row) ==
    /\ row = [text |-> row.text, replies |-> row.replies, views |-> row.views, up |-> row.up,
              down |-> row.down]
    /\ row.text \in {"new", "edited"} /\ row.replies \in Nat /\ row.views \in Nat
    /\ row.up \in 0..Cardinality(User) /\ row.down \in 0..Cardinality(User)

ThreadRows == \A t : Has(Thread(t)) => t \in Known /\ ThreadRow(items[Thread(t)])

\* The requests that are not about to count a view of the thread.
Viewing(t) == {call[w].id : w \in {v \in Worker : call[v].op = "view" /\ call[v].arg[1] = t}}
Viewed(t) == (1..requests) \ Viewing(t)

Views == \A t : Has(Thread(t)) => items[Thread(t)].views <= Cardinality(Viewed(t))

\* A thread that has yet to be put.
Unborn(k) == k.at = "put" \/ (k.at = "tags" /\ k.todo # <<>>)

ThreadFacts(k) ==
    /\ k.op = "thread" => (Has(Thread(k.id)) <=> ~Unborn(k))
    /\ k.op \in {"view", "edit", "reply"} /\ k.at = "done" => Has(Thread(k.arg[1]))

Threads == ThreadRows /\ Views /\ \A w \in Worker : ThreadFacts(call[w])

-----------------------------------------------------------------------------
(* Posts.                                                                  *)

PostRow(row) ==
    /\ row = [thread |-> row.thread, text |-> row.text, up |-> row.up, down |-> row.down]
    /\ row.thread \in Known /\ row.text \in Known
    /\ row.up \in 0..Cardinality(User) /\ row.down \in 0..Cardinality(User)

ThreadOf(p) == items[Post(p)].thread

OwnRows == \A p : Has(Post(p)) => p \in Known /\ PostRow(items[Post(p)]) /\ Has(Thread(ThreadOf(p)))

CopyRows ==
    \A t, p : Has(PostIn(t, p)) =>
        /\ p \in Known /\ Has(Thread(t)) /\ PostRow(items[PostIn(t, p)])
        /\ Has(Post(p)) => ThreadOf(p) = t

\* A reply that has not put the post, or its copy.
OwnLeft(k) == k.at = "thread" \/ PutOwn(k) \in Planned(k.todo)
CopyLeft(k) == k.at = "thread" \/ PutCopy(k) \in Planned(k.todo)

ReplyOf(k) ==
    /\ Has(Post(k.id)) <=> ~OwnLeft(k)
    /\ Has(Post(k.id)) => ThreadOf(k.id) = k.arg[1]
    /\ \A t : Has(PostIn(t, k.id)) => t = k.arg[1] /\ ~CopyLeft(k)

\* What is updated is there: both rows of the post, of which the first may be done.
BothRows(p, attributes) ==
    <<{SetPost(p, attributes)}, {SetCopy(ThreadOf(p), p, attributes)}>>
LastRow(p, attributes) == <<{SetCopy(ThreadOf(p), p, attributes)}>>

SetsRows(k, p, attributes) ==
    /\ \E t : Has(PostIn(t, p))
    /\ k.at = "done" => /\ Has(Post(p))
                        /\ k.todo = BothRows(p, attributes) \/ k.todo = LastRow(p, attributes)

PostFacts(k) ==
    /\ k.op = "reply" => ReplyOf(k)
    /\ k.op = "rewrite" => SetsRows(k, k.arg[1], [text |-> k.id])
    /\ k.op = "vote" /\ k.arg[1][1] = "post" => SetsRows(k, k.arg[1][2], k.arg[4])

Posts == OwnRows /\ CopyRows /\ \A w \in Worker : PostFacts(call[w])

-----------------------------------------------------------------------------
(* Replies.                                                                *)

InReply(p) == \E w \in Worker : call[w].op = "reply" /\ call[w].id = p

CountedIn(t) == {p \in Known : Has(Post(p)) /\ ThreadOf(p) = t /\ ~InReply(p)}

RepliesCounted ==
    \A t : Has(Thread(t)) =>
        /\ items[Thread(t)].replies <= Cardinality(CountedIn(t))
        /\ Replies(t) \notin torn => items[Thread(t)].replies = Cardinality(CountedIn(t))

CopyHasPost ==
    \A t, p : Has(PostIn(t, p)) /\ Replies(t) \notin torn => Has(Post(p)) \/ InReply(p)

-----------------------------------------------------------------------------
(* Texts.                                                                  *)

TextAgrees(p) ==
    Has(PostIn(ThreadOf(p), p)) => items[PostIn(ThreadOf(p), p)].text = items[Post(p)].text

TextsAgree == \A p : Has(Post(p)) /\ Settled(PostText(p)) => TextAgrees(p)

TextFacts(k) ==
    /\ k.op = "reply" /\ PostText(k.id) \notin spoiled =>
          /\ Has(Post(k.id)) => items[Post(k.id)].text = k.id
          /\ \A t : Has(PostIn(t, k.id)) => items[PostIn(t, k.id)].text = k.id
    /\ k.op = "rewrite" /\ PostText(k.arg[1]) \notin spoiled =>
          (k.at = "done" /\ Has(Post(k.arg[1])) /\ k.todo = LastRow(k.arg[1], [text |-> k.id])
              => items[Post(k.arg[1])].text = k.id)

Texts == TextsAgree /\ \A w \in Worker : TextFacts(call[w])

-----------------------------------------------------------------------------
(* Votes.                                                                  *)

VotedThreads == \A t, u : Has(Vote(ThreadVotes(t), u)) => Has(Thread(t)) \/ t = Nothing
VotedPosts == \A p, u : Has(Vote(PostVotes(p), u)) => \E t : Has(PostIn(t, p))

NoVotes(row) == row.up = 0 /\ row.down = 0

BothCounted(p) ==
    /\ VotesCounted(items[Post(p)], PostVotes(p))
    /\ Has(PostIn(ThreadOf(p), p)) => VotesCounted(items[PostIn(ThreadOf(p), p)], PostVotes(p))

ThreadsCounted ==
    \A t : Has(Thread(t)) /\ Settled(ThreadVotes(t)) => VotesCounted(items[Thread(t)], ThreadVotes(t))

PostsCounted == \A p : Has(Post(p)) /\ Settled(PostVotes(p)) => BothCounted(p)

\* What a vote has counted is right, and so is the post when its copy is left.
Counting(k) ==
    /\ k.arg[1][1] = "thread" /\ k.at = "done" =>
          k.todo = <<{SetVotes(k.arg[1][2], Counted(k.arg[1]))}>>
    /\ k.arg[1][1] = "post" /\ k.at \in {"post", "done"} => k.arg[4] = Counted(k.arg[1])
    /\ /\ k.arg[1][1] = "post" /\ k.at = "done"
       /\ Has(Post(k.arg[1][2])) /\ k.todo = LastRow(k.arg[1][2], k.arg[4])
       => VotesCounted(items[Post(k.arg[1][2])], k.arg[1])

Unvoted(p) ==
    /\ \A u : ~Has(Vote(PostVotes(p), u))
    /\ Has(Post(p)) => NoVotes(items[Post(p)])
    /\ \A t : Has(PostIn(t, p)) => NoVotes(items[PostIn(t, p)])

VoteFacts(k) ==
    /\ k.op = "reply" /\ PostVotes(k.id) \notin spoiled => Unvoted(k.id)
    /\ k.op = "vote" /\ k.arg[1] \notin spoiled => Counting(k)
    /\ k.op = "vote" /\ k.arg[1][1] = "thread" => Has(Thread(k.arg[1][2])) \/ k.arg[1][2] = Nothing

VotesInv ==
    /\ VotedThreads /\ VotedPosts /\ ThreadsCounted /\ PostsCounted
    /\ \A w \in Worker : VoteFacts(call[w])

-----------------------------------------------------------------------------
(* Addons.                                                                 *)

AddonRow(row) ==
    /\ row = [author |-> row.author, kind |-> row.kind, count |-> row.count]
    /\ row.author \in User /\ row.kind \in Kinds /\ row.count \in 0..MaxCards

AddonRows == \A a : Has(Addon(a)) => a \in Known /\ AddonRow(items[Addon(a)])
MarkdownOf == \A a : Has(Markdown(a)) => Has(Addon(a)) \/ a = Nothing

CardsCounted(a) == Has(Addon(a)) /\ Has(Markdown(a)) => items[Addon(a)].count = items[Markdown(a)]

DecksCounted == \A a : Settled(AddonDeck(a)) => CardsCounted(a)

DeckFacts(k) ==
    /\ ~MayPutDeck(k.arg[2], k.arg[1]) => k.at = "addon" /\ CardsCounted(k.arg[1])
    /\ k.todo = CountLeft(k) => Has(Markdown(k.arg[1])) /\ items[Markdown(k.arg[1])] = k.arg[3]

AddonFacts(k) ==
    /\ k.op = "addon" => ~Has(Addon(k.id))
    /\ k.op \in ByHandOps => AddonDeck(k.arg[1]) \in spoiled
    /\ k.op \in ByHandOps \cup {"deck"} => Has(Addon(k.arg[1])) \/ k.arg[1] = Nothing
    /\ k.op \in {"patch", "deck"} /\ k.at = "done" => Has(Addon(k.arg[1]))
    /\ k.op = "deck" /\ AddonDeck(k.arg[1]) \notin spoiled => DeckFacts(k)

Addons ==
    /\ AddonRows /\ MarkdownOf /\ DecksCounted
    /\ \A w \in Worker : AddonFacts(call[w])

-----------------------------------------------------------------------------
(* Tags and links.                                                         *)

HasLinks(t) == \E key \in LinkKeys(t) : Has(key)

BothOrNone(t) ==
    /\ \A g \in Tag : Has(TagOf(t, g)) <=> Has(Tagged(g, t))
    /\ \A c \in Content : Has(Link(t, c)) <=> Has(Linked(c, t))

\* The rows once the plan is done.
Will(k, key) == Has(key) \/ \E x \in Planned(k.todo) : x.key = key

BothWill(k) ==
    /\ \A g \in Tag : Will(k, TagOf(k.id, g)) <=> Will(k, Tagged(g, k.id))
    /\ \A c \in Content : Will(k, Link(k.id, c)) <=> Will(k, Linked(c, k.id))

LinkFacts(k) ==
    k.op = "thread" =>
        /\ k.at # "done" => ~HasLinks(k.id)
        /\ k.at = "done" => BothWill(k)

Creating(t) == \E w \in Worker : call[w].op = "thread" /\ call[w].id = t

Links ==
    /\ \A t : HasLinks(t) => t \in Known
    /\ \A t : Replies(t) \notin torn /\ ~Creating(t) => BothOrNone(t)
    /\ \A w \in Worker : LinkFacts(call[w])

CommunityInv ==
    /\ CallsInv /\ Alone /\ Threads /\ Posts /\ RepliesCounted /\ CopyHasPost /\ Texts /\ VotesInv
    /\ Addons /\ Links

-----------------------------------------------------------------------------
(* Steps.                                                                  *)

Facts(k) ==
    ThreadFacts(k) /\ PostFacts(k) /\ TextFacts(k) /\ VoteFacts(k) /\ AddonFacts(k) /\ LinkFacts(k)

\* The same request.
SameCall(k, n) ==
    /\ n.op = k.op /\ n.id = k.id /\ n.on = k.on
    /\ n.arg[1] = k.arg[1] /\ n.arg[2] = k.arg[2] /\ n.arg[3] = k.arg[3]

\* The request of one worker goes on, begins or ends.
Moves(w, k, n) ==
    /\ k = call[w] /\ n = call'[w]
    /\ CallsOK' /\ \A v \in Worker \ {w} : call'[v] = call[v]
    /\ requests \in Nat /\ torn \subseteq torn'
    /\ \/ (SameCall(k, n) \/ n = Idle) /\ requests' = requests /\ k.op # "idle"
       \/ /\ k = Idle /\ n.op # "idle" /\ n.id = requests + 1 /\ requests' = requests + 1
          /\ requests < MaxRequests

\* A subject is settled only if it was, or because the only request about it has ended.
Calmer(w, k, n) ==
    /\ \A s : Settled(s)' => s \notin spoiled /\ (Settled(s) \/ (s \in k.on /\ n = Idle))
    /\ \A v \in Worker \ {w} : \A s \in call[v].on : s \notin spoiled' => s \notin spoiled

Step(w, k, n) == Moves(w, k, n) /\ Calmer(w, k, n)

LEMMA CalmerWhenSame ==
    ASSUME NEW w \in Worker, NEW k, NEW n, Moves(w, k, n), SameCall(k, n) \/ n = Idle,
           spoiled \subseteq spoiled'
    PROVE  Calmer(w, k, n)
<1>1. \A s : Settled(s)' => s \notin spoiled BY DEF Settled
<1>2. ASSUME NEW s, Settled(s)', ~(s \in k.on /\ n = Idle) PROVE Settled(s)
  <2>1. s \notin n.on /\ \A v \in Worker : s \notin call'[v].on
    BY <1>2 DEF Settled, AtRest, Moves
  <2>2. s \notin k.on BY <1>2, <2>1 DEF SameCall
  <2>3. \A v \in Worker : s \notin call[v].on BY <2>1, <2>2 DEF Moves
  <2> QED BY <1>1, <1>2, <2>3 DEF Settled, AtRest
<1> QED BY <1>1, <1>2 DEF Calmer

LEMMA CalmerWhenBegun ==
    ASSUME NEW w \in Worker, NEW k, NEW n, Moves(w, k, n), k = Idle,
           NEW gone, gone \subseteq n.on,
           spoiled' = (spoiled \ gone) \cup {s \in n.on : ~AtRest(s)} \/ spoiled \subseteq spoiled'
    PROVE  Calmer(w, k, n)
<1>1. k.on = {} BY IdleCall
<1>2. ASSUME NEW s, Settled(s)' PROVE Settled(s)
  <2>1. s \notin n.on /\ \A v \in Worker : s \notin call'[v].on
    BY <1>2 DEF Settled, AtRest, Moves
  <2>2. \A v \in Worker : s \notin call[v].on BY <1>1, <2>1 DEF Moves
  <2>3. s \notin spoiled BY <1>2, <2>1 DEF Settled
  <2> QED BY <2>2, <2>3 DEF Settled, AtRest
<1>3. ASSUME NEW v \in Worker \ {w}, NEW s \in call[v].on, s \notin spoiled'
      PROVE  s \notin spoiled
  <2>1. ~AtRest(s) BY DEF AtRest
  <2> QED BY <1>3, <2>1
<1> QED BY <1>2, <1>3 DEF Calmer, Settled

LEMMA RequestStays ==
    ASSUME requests \in Nat, requests' = requests \/ requests' = requests + 1, NEW m, Request(m)
    PROVE  Request(m)'
<1>1. \A i : i \in Known => i \in Known' BY DEF Known
<1>2. \A i : i \in KnownOrNothing => i \in KnownOrNothing' BY <1>1 DEF KnownOrNothing, Nothing
<1>3. \A i : i \in 1..requests => i \in 1..requests' OBVIOUS
<1>4. CASE m.op = "idle" BY <1>4 DEF Request
<1>5. CASE m.op # "idle"
  <2>1. m.op = "reply" => ReplyCall(m)'
    BY <1>2, <1>5 DEF Request, ReplyCall, ReplyPlan, ReplyEnd, PutCopy, PutOwn, CountReply
  <2>2. m.op = "rewrite" => RewriteCall(m)' BY <1>1, <1>5 DEF Request, RewriteCall
  <2>3. m.op = "vote" => VoteCall(m)' BY <1>1, <1>2, <1>5 DEF Request, VoteCall
  <2>4. m.op \in ByHandOps => HandCall(m)' BY <1>2, <1>5 DEF Request, HandCall, SetCount
  <2>5. m.op = "deck" => DeckCall(m)'
    BY <1>2, <1>5 DEF Request, DeckCall, CountLeft, StoreAndCount, SetCount
  <2>6. /\ m.op = "tag" => TagCall(m)'
        /\ m.op = "thread" => ThreadCall(m)'
        /\ m.op = "view" => ViewCall(m)'
        /\ m.op = "edit" => EditCall(m)'
        /\ m.op = "addon" => AddonCall(m)'
    BY <1>5 DEF Request, TagCall, ThreadCall, ViewCall, EditCall, AddonCall
  <2> QED BY <1>3, <1>5, <2>1, <2>2, <2>3, <2>4, <2>5, <2>6 DEF Request
<1> QED BY <1>4, <1>5

LEMMA IdleFacts ==
    ASSUME NEW n, n = Idle
    PROVE  Request(n)' /\ Facts(n)'
<1>1. n.op = "idle" BY IdleCall
<1> QED BY <1>1 DEF Request, Facts, ThreadFacts, PostFacts, TextFacts, VoteFacts, AddonFacts,
           LinkFacts, ByHandOps

LEMMA CallsKeptOn ==
    ASSUME CallsInv, NEW w \in Worker, NEW k, NEW n, Moves(w, k, n), Request(n)'
    PROVE  CallsInv'
<1>1. /\ requests \in Nat /\ requests <= MaxRequests
      /\ requests' = requests \/ (requests' = requests + 1 /\ requests < MaxRequests)
  BY DEF CallsInv, Moves
<1>2. requests' \in Nat /\ requests' <= MaxRequests BY <1>1, TableConstants
<1>3. ASSUME NEW v \in Worker PROVE Request(call[v])'
  <2>1. CASE v = w BY <2>1 DEF Moves
  <2>2. CASE v # w
    <3>1. PICK m : m = call[v] OBVIOUS
    <3>2. m = call'[v] /\ Request(m) BY <2>2, <3>1 DEF Moves, CallsInv
    <3> QED BY <1>1, <3>2, RequestStays
  <2> QED BY <2>1, <2>2
<1>4. ASSUME NEW u \in Worker, NEW v \in Worker, call'[u].op # "idle", call'[v].op # "idle",
             call'[u].id = call'[v].id
      PROVE  u = v
  <2>1. \A x \in Worker : call[x].op # "idle" => call[x].id \in 1..requests
    BY DEF CallsInv, Request
  <2>2. \A x \in Worker \ {w} : call'[x] = call[x] BY DEF Moves
  <2>3. \A x, y \in Worker : call[x].op # "idle" /\ call[y].op # "idle" /\ call[x].id = call[y].id
                              => x = y
    BY DEF CallsInv, Busy
  <2>4. CASE n = Idle BY <1>4, <2>2, <2>3, <2>4, IdleCall DEF Moves
  <2>5. CASE SameCall(k, n) BY <1>4, <2>2, <2>3, <2>5 DEF Moves, SameCall
  <2>6. CASE n.id = requests + 1
    <3>1. requests + 1 \notin 1..requests BY <1>1
    <3> QED BY <1>4, <2>1, <2>2, <2>3, <2>6, <3>1 DEF Moves
  <2> QED BY <2>4, <2>5, <2>6 DEF Moves
<1>5. CallsOK' BY DEF Moves
<1> QED BY <1>2, <1>3, <1>4, <1>5 DEF CallsInv, Busy

\* A request goes on, or ends: nobody else comes near.
LEMMA AloneKept ==
    ASSUME Alone, NEW w \in Worker, NEW k, NEW n, Moves(w, k, n), SameCall(k, n) \/ n = Idle,
           spoiled \subseteq spoiled'
    PROVE  Alone'
<1>1. n.on \subseteq k.on BY IdleCall DEF SameCall
<1>2. \A v \in Worker : call'[v].on \subseteq call[v].on BY <1>1 DEF Moves
<1> QED BY <1>2 DEF Alone, Derived

-----------------------------------------------------------------------------
(* What a step leaves alone.                                               *)

SameAt(key) ==
    /\ key \in DOMAIN items' <=> key \in DOMAIN items
    /\ key \in DOMAIN items => items'[key] = items[key]

KeptThreads == \A t : SameAt(Thread(t))
KeptOwn == \A p : SameAt(Post(p))
KeptCopies == \A t, p : SameAt(PostIn(t, p))
KeptVotes == \A s, u : SameAt(Vote(s, u))
KeptAddons == \A a : SameAt(Addon(a)) /\ SameAt(Markdown(a))
KeptLinks == \A t : \A key \in LinkKeys(t) : SameAt(key)

\* Less than that.
GrowThreads == \A t : Has(Thread(t)) => Has(Thread(t))'
KeptReplies ==
    \A t : /\ Has(Thread(t))' <=> Has(Thread(t))
           /\ Has(Thread(t)) => items'[Thread(t)].replies = items[Thread(t)].replies
KeptTallies ==
    \A t : /\ Has(Thread(t))' <=> Has(Thread(t))
           /\ Has(Thread(t)) => /\ items'[Thread(t)].up = items[Thread(t)].up
                                /\ items'[Thread(t)].down = items[Thread(t)].down
SamePlaces ==
    /\ \A p : /\ Has(Post(p))' <=> Has(Post(p))
              /\ Has(Post(p)) => items'[Post(p)].thread = items[Post(p)].thread
    /\ \A t, p : Has(PostIn(t, p))' <=> Has(PostIn(t, p))
KeptTexts ==
    /\ \A p : Has(Post(p)) => items'[Post(p)].text = items[Post(p)].text
    /\ \A t, p : Has(PostIn(t, p)) => items'[PostIn(t, p)].text = items[PostIn(t, p)].text
KeptPostTallies ==
    /\ \A p : Has(Post(p)) => /\ items'[Post(p)].up = items[Post(p)].up
                              /\ items'[Post(p)].down = items[Post(p)].down
    /\ \A t, p : Has(PostIn(t, p)) =>
          /\ items'[PostIn(t, p)].up = items[PostIn(t, p)].up
          /\ items'[PostIn(t, p)].down = items[PostIn(t, p)].down

LEMMA NothingWritten ==
    ASSUME items' = items
    PROVE  KeptThreads /\ KeptOwn /\ KeptCopies /\ KeptVotes /\ KeptAddons /\ KeptLinks
BY DEF KeptThreads, KeptOwn, KeptCopies, KeptVotes, KeptAddons, KeptLinks, SameAt

LEMMA ThreadsSame ==
    ASSUME KeptThreads
    PROVE  GrowThreads /\ KeptReplies /\ KeptTallies
BY DEF KeptThreads, GrowThreads, KeptReplies, KeptTallies, SameAt, Has

LEMMA PostsSame ==
    ASSUME KeptOwn, KeptCopies
    PROVE  SamePlaces /\ KeptTexts /\ KeptPostTallies
<1>1. \A p : SameAt(Post(p)) BY DEF KeptOwn
<1>2. \A t, p : SameAt(PostIn(t, p)) BY DEF KeptCopies
<1> QED BY <1>1, <1>2 DEF SamePlaces, KeptTexts, KeptPostTallies, SameAt, Has

\* A write of one key.
Elsewhere(key) == \A other : other # key => SameAt(other)

LEMMA WritesElsewhere ==
    ASSUME NEW x, x.do \in {"put", "delete", "update", "updateOld"}, items' = After(x)
    PROVE  Elsewhere(x.key)
BY DEF After, AfterIn, Elsewhere, SameAt

LEMMA Families ==
    ASSUME NEW key, Elsewhere(key)
    PROVE  /\ key[1] # "THREAD" => KeptThreads
           /\ key[1] # "POST" => KeptOwn
           /\ key[1] # "THREAD_POST" => KeptCopies
           /\ key[1] # "VOTE" => KeptVotes
           /\ key[1] \notin {"ADDON", "MARKDOWN"} => KeptAddons
           /\ key[1] \notin {"TAG_THREAD", "THREAD_TAG", "LINK", "CONTENT_THREAD"} => KeptLinks
<1>1. key[1] # "THREAD" => KeptThreads
  <2>1. \A t : Thread(t)[1] = "THREAD" BY DEF Thread
  <2> QED BY <2>1 DEF Elsewhere, KeptThreads
<1>2. key[1] # "POST" => KeptOwn
  <2>1. \A p : Post(p)[1] = "POST" BY DEF Post
  <2> QED BY <2>1 DEF Elsewhere, KeptOwn
<1>3. key[1] # "THREAD_POST" => KeptCopies
  <2>1. \A t, p : PostIn(t, p)[1] = "THREAD_POST" BY DEF PostIn
  <2> QED BY <2>1 DEF Elsewhere, KeptCopies
<1>4. key[1] # "VOTE" => KeptVotes
  <2>1. \A s, u : Vote(s, u)[1] = "VOTE" BY DEF Vote
  <2> QED BY <2>1 DEF Elsewhere, KeptVotes
<1>5. key[1] \notin {"ADDON", "MARKDOWN"} => KeptAddons
  <2>1. \A a : Addon(a)[1] = "ADDON" /\ Markdown(a)[1] = "MARKDOWN" BY DEF Addon, Markdown
  <2> QED BY <2>1 DEF Elsewhere, KeptAddons
<1>6. key[1] \notin {"TAG_THREAD", "THREAD_TAG", "LINK", "CONTENT_THREAD"} => KeptLinks
  <2>1. \A t : \A other \in LinkKeys(t) :
           other[1] \in {"TAG_THREAD", "THREAD_TAG", "LINK", "CONTENT_THREAD"}
    BY DEF LinkKeys, Tagged, TagOf, Link, Linked
  <2> QED BY <2>1 DEF Elsewhere, KeptLinks
<1> QED BY <1>1, <1>2, <1>3, <1>4, <1>5, <1>6

-----------------------------------------------------------------------------
(* Threads.                                                                *)

LEMMA KnownStays ==
    ASSUME requests \in Nat, requests' = requests \/ requests' = requests + 1
    PROVE  Known \subseteq Known' /\ KnownOrNothing \subseteq KnownOrNothing'
<1>1. Known \subseteq Known' BY DEF Known
<1> QED BY <1>1 DEF KnownOrNothing, Nothing

LEMMA MovesKnown ==
    ASSUME NEW w, NEW k, NEW n, Moves(w, k, n)
    PROVE  Known \subseteq Known' /\ KnownOrNothing \subseteq KnownOrNothing'
BY KnownStays DEF Moves

LEMMA GiverViewed ==
    ASSUME requests \in Nat, NEW t
    PROVE  IsFiniteSet(Viewed(t)) /\ Cardinality(Viewed(t)) \in Nat
           /\ Cardinality(Viewed(t)) <= requests
<1>1. IsFiniteSet(1..requests) /\ Cardinality(1..requests) = requests BY FS_Interval
<1>2. Viewed(t) \subseteq 1..requests BY DEF Viewed
<1> QED BY <1>1, <1>2, FS_Subset, FS_CardinalityType

LEMMA ViewedGrows ==
    ASSUME CallsInv, NEW w \in Worker, NEW k, NEW n, Moves(w, k, n), NEW t
    PROVE  Viewed(t) \subseteq Viewed(t)'
<1> SUFFICES ASSUME NEW i \in Viewed(t) PROVE i \in Viewed(t)'
  OBVIOUS
<1>1. requests \in Nat /\ i \in 1..requests /\ i \in 1..requests' /\ i # requests + 1
  BY DEF Moves, Viewed
<1>2. \A v \in Worker : call[v].op = "view" /\ call[v].arg[1] = t => call[v].id # i
  BY DEF Viewed, Viewing
<1>3. ASSUME NEW v \in Worker, call'[v].op = "view", call'[v].arg[1] = t PROVE call'[v].id # i
  <2>1. CASE v # w BY <1>2, <1>3, <2>1 DEF Moves
  <2>2. CASE v = w BY <1>1, <1>2, <1>3, <2>2, IdleCall DEF Moves, SameCall
  <2> QED BY <2>1, <2>2
<1> QED BY <1>1, <1>3 DEF Viewed, Viewing

LEMMA ViewedMore ==
    ASSUME CallsInv, NEW w \in Worker, NEW k, NEW n, Moves(w, k, n), NEW t
    PROVE  /\ Cardinality(Viewed(t)) \in Nat /\ Cardinality(Viewed(t)') \in Nat
           /\ Cardinality(Viewed(t)) <= Cardinality(Viewed(t)')
<1>1. requests \in Nat /\ requests' \in Nat BY DEF Moves
<1>2. IsFiniteSet(Viewed(t)) /\ Cardinality(Viewed(t)) \in Nat BY <1>1, GiverViewed
<1>3. IsFiniteSet(Viewed(t)') /\ Cardinality(Viewed(t)') \in Nat
  <2>1. IsFiniteSet(1..requests') BY <1>1, FS_Interval
  <2>2. Viewed(t)' \subseteq 1..requests' BY DEF Viewed
  <2> QED BY <2>1, <2>2, FS_Subset, FS_CardinalityType
<1>4. Viewed(t) \subseteq Viewed(t)' BY ViewedGrows
<1> QED BY <1>2, <1>3, <1>4, FS_Subset

\* What a row of a thread may become, and how its views are counted.
LEMMA ThreadsKept ==
    ASSUME CallsInv, Threads, NEW w \in Worker, NEW k, NEW n, Moves(w, k, n), ThreadFacts(n)',
           \A t : Has(Thread(t))' =>
              /\ t \in Known' /\ ThreadRow(items'[Thread(t)])
              /\ items'[Thread(t)].views <= Cardinality(Viewed(t)'),
           \A t : Has(Thread(t)) => Has(Thread(t))',
           \A t : Has(Thread(t))' /\ ~Has(Thread(t)) => k.op = "thread" /\ k.id = t
    PROVE  Threads'
<1>1. ThreadRows' BY DEF ThreadRows
<1>2. Views' BY DEF Views
<1>3. ASSUME NEW v \in Worker PROVE ThreadFacts(call[v])'
  <2>1. CASE v = w BY <2>1 DEF Moves
  <2>2. CASE v # w
    <3>1. PICK m : m = call[v] OBVIOUS
    <3>2. m = call'[v] /\ ThreadFacts(m) BY <2>2, <3>1 DEF Moves, Threads
    <3>3. m.op = "thread" /\ k.op = "thread" => m.id # k.id
      BY <2>2, <3>1 DEF CallsInv, Busy, Moves
    <3>4. ThreadFacts(m)' BY <3>2, <3>3 DEF ThreadFacts, Unborn
    <3> QED BY <3>2, <3>4
  <2> QED BY <2>1, <2>2
<1> QED BY <1>1, <1>2, <1>3 DEF Threads

LEMMA ThreadsFrame ==
    ASSUME CallsInv, Threads, NEW w \in Worker, NEW k, NEW n, Moves(w, k, n), ThreadFacts(n)',
           KeptThreads
    PROVE  Threads'
<1>1. \A t : Has(Thread(t))' <=> Has(Thread(t)) BY DEF KeptThreads, SameAt, Has
<1>2. \A t : Has(Thread(t)) => items'[Thread(t)] = items[Thread(t)]
  BY DEF KeptThreads, SameAt, Has
<1>3. ASSUME NEW t, Has(Thread(t))
      PROVE  /\ t \in Known' /\ ThreadRow(items'[Thread(t)])
             /\ items'[Thread(t)].views <= Cardinality(Viewed(t)')
  <2>1. t \in Known /\ ThreadRow(items[Thread(t)]) BY <1>3 DEF Threads, ThreadRows
  <2>2. items[Thread(t)].views \in Nat BY <2>1 DEF ThreadRow
  <2>3. items[Thread(t)].views <= Cardinality(Viewed(t)) BY <1>3 DEF Threads, Views
  <2>4. items[Thread(t)].views <= Cardinality(Viewed(t)') BY <2>2, <2>3, ViewedMore
  <2> QED BY <1>2, <1>3, <2>1, <2>4, MovesKnown
<1> QED BY <1>1, <1>3, ThreadsKept

-----------------------------------------------------------------------------
(* Posts.                                                                  *)

\* Posts stay, where they are, and only their own reply puts them.
PlacesGrow(k) ==
    /\ \A p : Has(Post(p)) => Has(Post(p))' /\ items'[Post(p)].thread = items[Post(p)].thread
    /\ \A t, p : Has(PostIn(t, p)) => Has(PostIn(t, p))'
    /\ \A p : Has(Post(p))' => Has(Post(p)) \/ (k.op = "reply" /\ k.id = p)
    /\ \A t, p : Has(PostIn(t, p))' => Has(PostIn(t, p)) \/ (k.op = "reply" /\ k.id = p)

LEMMA PlacesStay ==
    ASSUME SamePlaces, NEW k
    PROVE  PlacesGrow(k)
BY DEF SamePlaces, PlacesGrow

LEMMA PostFactsStay ==
    ASSUME NEW k, NEW m, PlacesGrow(k), PostFacts(m), ~(m.op = "reply" /\ k.op = "reply" /\ m.id = k.id)
    PROVE  PostFacts(m)'
<1>1. \A p : Has(Post(p)) => Has(Post(p))' /\ ThreadOf(p)' = ThreadOf(p)
  BY DEF PlacesGrow, ThreadOf
<1>2. \A t, p : Has(PostIn(t, p)) => Has(PostIn(t, p))' BY DEF PlacesGrow
<1>3. m.op = "reply" => ReplyOf(m)'
  <2> SUFFICES ASSUME m.op = "reply" PROVE ReplyOf(m)'
    OBVIOUS
  <2>1. ReplyOf(m) BY DEF PostFacts
  <2>2. Has(Post(m.id))' <=> Has(Post(m.id)) BY <1>1 DEF PlacesGrow
  <2>3. \A t : Has(PostIn(t, m.id))' => Has(PostIn(t, m.id)) BY DEF PlacesGrow
  <2>4. OwnLeft(m)' <=> OwnLeft(m) BY DEF OwnLeft, PutOwn
  <2>5. CopyLeft(m)' <=> CopyLeft(m) BY DEF CopyLeft, PutCopy
  <2> QED BY <1>1, <2>1, <2>2, <2>3, <2>4, <2>5 DEF ReplyOf
<1>4. ASSUME NEW p, NEW attributes, SetsRows(m, p, attributes) PROVE SetsRows(m, p, attributes)'
  <2>1. PICK t : Has(PostIn(t, p)) BY <1>4 DEF SetsRows
  <2>2. \E o : Has(PostIn(o, p))' BY <1>2, <2>1
  <2>3. ASSUME m.at = "done"
        PROVE  Has(Post(p))' /\ (m.todo = BothRows(p, attributes)' \/ m.todo = LastRow(p, attributes)')
    <3>1. Has(Post(p)) /\ (m.todo = BothRows(p, attributes) \/ m.todo = LastRow(p, attributes))
      BY <1>4, <2>3 DEF SetsRows
    <3>2. ThreadOf(p)' = ThreadOf(p) BY <1>1, <3>1
    <3>3. BothRows(p, attributes)' = BothRows(p, attributes) BY <3>2 DEF BothRows
    <3>4. LastRow(p, attributes)' = LastRow(p, attributes) BY <3>2 DEF LastRow
    <3> QED BY <1>1, <3>1, <3>3, <3>4
  <2> QED BY <2>2, <2>3 DEF SetsRows
<1> QED BY <1>3, <1>4 DEF PostFacts

LEMMA PostsKept ==
    ASSUME CallsInv, Posts, NEW w \in Worker, NEW k, NEW n, Moves(w, k, n), PostFacts(n)',
           OwnRows', CopyRows', PlacesGrow(k)
    PROVE  Posts'
<1>1. ASSUME NEW v \in Worker PROVE PostFacts(call[v])'
  <2>1. CASE v = w BY <2>1 DEF Moves
  <2>2. CASE v # w
    <3>1. PICK m : m = call[v] OBVIOUS
    <3>2. m = call'[v] /\ PostFacts(m) BY <2>2, <3>1 DEF Moves, Posts
    <3>3. m.op = "reply" /\ k.op = "reply" => m.id # k.id
      BY <2>2, <3>1 DEF CallsInv, Busy, Moves
    <3>4. PostFacts(m)' BY <3>2, <3>3, PostFactsStay
    <3> QED BY <3>2, <3>4
  <2> QED BY <2>1, <2>2
<1> QED BY <1>1 DEF Posts

LEMMA PostRowStays ==
    ASSUME NEW w, NEW k, NEW n, Moves(w, k, n), NEW row, PostRow(row)
    PROVE  PostRow(row)'
BY MovesKnown DEF PostRow

LEMMA PostsFrame ==
    ASSUME CallsInv, Posts, NEW w \in Worker, NEW k, NEW n, Moves(w, k, n), PostFacts(n)',
           GrowThreads, KeptOwn, KeptCopies
    PROVE  Posts'
<1>1. \A row : PostRow(row) => PostRow(row)' BY PostRowStays
<1>2. \A p : Has(Post(p))' => Has(Post(p)) /\ items'[Post(p)] = items[Post(p)]
  BY DEF KeptOwn, SameAt, Has
<1>3. \A t, p : Has(PostIn(t, p))' => Has(PostIn(t, p)) /\ items'[PostIn(t, p)] = items[PostIn(t, p)]
  BY DEF KeptCopies, SameAt, Has
<1>4. OwnRows'
  <2> SUFFICES ASSUME NEW p, Has(Post(p))'
               PROVE  p \in Known' /\ PostRow(items[Post(p)])' /\ Has(Thread(ThreadOf(p)))'
    BY DEF OwnRows
  <2>1. p \in Known /\ PostRow(items[Post(p)]) /\ Has(Thread(ThreadOf(p)))
    BY <1>2 DEF Posts, OwnRows
  <2>2. ThreadOf(p)' = ThreadOf(p) BY <1>2 DEF ThreadOf
  <2>3. PICK t : t = ThreadOf(p) OBVIOUS
  <2>4. Has(Thread(t))' BY <2>1, <2>3 DEF GrowThreads
  <2>5. PICK row : row = items[Post(p)] OBVIOUS
  <2>6. PostRow(row)' BY <1>1, <2>1, <2>5
  <2> QED BY <1>2, <2>1, <2>2, <2>3, <2>4, <2>5, <2>6, MovesKnown DEF Has, Thread
<1>5. CopyRows'
  <2> SUFFICES ASSUME NEW t, NEW p, Has(PostIn(t, p))'
               PROVE  /\ p \in Known' /\ Has(Thread(t))' /\ PostRow(items[PostIn(t, p)])'
                      /\ Has(Post(p))' => ThreadOf(p)' = t
    BY DEF CopyRows
  <2>1. /\ p \in Known /\ Has(Thread(t)) /\ PostRow(items[PostIn(t, p)])
        /\ Has(Post(p)) => ThreadOf(p) = t
    BY <1>3 DEF Posts, CopyRows
  <2>2. Has(Post(p))' => Has(Post(p)) /\ ThreadOf(p)' = ThreadOf(p) BY <1>2 DEF ThreadOf
  <2>3. PICK row : row = items[PostIn(t, p)] OBVIOUS
  <2>4. PostRow(row)' BY <1>1, <2>1, <2>3
  <2>5. Has(Thread(t))' BY <2>1 DEF GrowThreads
  <2> QED BY <1>3, <2>1, <2>2, <2>3, <2>4, <2>5, MovesKnown
<1> QED BY <1>4, <1>5, PostsSame, PlacesStay, PostsKept

-----------------------------------------------------------------------------
(* Replies.                                                                *)

LEMMA CountedFinite ==
    ASSUME requests \in Nat, NEW t
    PROVE  /\ IsFiniteSet(CountedIn(t)) /\ Cardinality(CountedIn(t)) \in Nat
           /\ Cardinality(CountedIn(t)) <= requests + 1
<1>1. IsFiniteSet(Known) /\ Cardinality(Known) = requests + 1 BY FS_Interval DEF Known
<1>2. CountedIn(t) \subseteq Known BY DEF CountedIn
<1> QED BY <1>1, <1>2, FS_Subset, FS_CardinalityType

\* The replies that are counted stay counted; only the end of one adds to them.
LEMMA CountedStay ==
    ASSUME CallsInv, OwnRows, NEW w \in Worker, NEW k, NEW n, Moves(w, k, n), SamePlaces, NEW t
    PROVE  /\ CountedIn(t) \subseteq CountedIn(t)'
           /\ \A p \in CountedIn(t)' \ CountedIn(t) :
                 /\ p = k.id /\ k.op = "reply" /\ n = Idle
                 /\ Has(Post(p)) /\ ThreadOf(p) = t
<1>1. \A p : /\ Has(Post(p))' <=> Has(Post(p))
             /\ Has(Post(p)) => ThreadOf(p)' = ThreadOf(p) /\ p \in Known /\ p \in Known'
  BY MovesKnown DEF SamePlaces, ThreadOf, OwnRows
<1>2. \A v \in Worker \ {w} : call'[v] = call[v] BY DEF Moves
<1>3. ASSUME NEW p, Has(Post(p)), InReply(p)' PROVE InReply(p)
  <2>1. PICK v \in Worker : call'[v].op = "reply" /\ call'[v].id = p BY <1>3 DEF InReply
  <2>2. CASE v # w BY <1>2, <2>1, <2>2 DEF InReply
  <2>3. CASE v = w
    <3>1. n.op = "reply" /\ n.id = p BY <2>1, <2>3 DEF Moves
    <3>2. n # Idle BY <3>1, IdleCall
    <3>3. n.id # requests + 1 BY <1>1, <1>3, <3>1 DEF Known, Moves
    <3> QED BY <3>1, <3>2, <3>3 DEF Moves, SameCall, InReply
  <2> QED BY <2>2, <2>3
<1>4. ASSUME NEW p, InReply(p), ~InReply(p)' PROVE p = k.id /\ k.op = "reply" /\ n = Idle
  <2>1. PICK v \in Worker : call[v].op = "reply" /\ call[v].id = p BY <1>4 DEF InReply
  <2>2. v = w BY <1>2, <1>4, <2>1 DEF InReply
  <2>3. k.op = "reply" /\ k.id = p BY <2>1, <2>2 DEF Moves
  <2>4. ~(n.op = "reply" /\ n.id = p) BY <1>4 DEF InReply, Moves
  <2> QED BY <2>3, <2>4, IdleCall DEF Moves, SameCall
<1> QED BY <1>1, <1>3, <1>4 DEF CountedIn

LEMMA RepliesFrame ==
    ASSUME CallsInv, OwnRows, RepliesCounted, NEW w \in Worker, NEW k, NEW n, Moves(w, k, n),
           SamePlaces, KeptReplies,
           n = Idle /\ k.op = "reply" /\ Has(Post(k.id)) => Replies(ThreadOf(k.id)) \in torn',
           ThreadRows
    PROVE  RepliesCounted'
<1> SUFFICES ASSUME NEW t, Has(Thread(t))'
             PROVE  /\ items'[Thread(t)].replies <= Cardinality(CountedIn(t)')
                    /\ Replies(t) \notin torn'
                          => items'[Thread(t)].replies = Cardinality(CountedIn(t)')
  BY DEF RepliesCounted, Replies
<1>1. Has(Thread(t)) /\ items'[Thread(t)].replies = items[Thread(t)].replies
      /\ items[Thread(t)].replies \in Nat
  BY DEF KeptReplies, ThreadRows, ThreadRow
<1>2. requests \in Nat /\ requests' \in Nat /\ torn \subseteq torn' BY DEF Moves
<1>3. IsFiniteSet(CountedIn(t)) /\ Cardinality(CountedIn(t)) \in Nat BY <1>2, CountedFinite
<1>4. IsFiniteSet(CountedIn(t)') /\ Cardinality(CountedIn(t)') \in Nat
  <2>1. IsFiniteSet(Known') BY <1>2, FS_Interval DEF Known
  <2>2. CountedIn(t)' \subseteq Known' BY DEF CountedIn
  <2> QED BY <2>1, <2>2, FS_Subset, FS_CardinalityType
<1>5. CountedIn(t) \subseteq CountedIn(t)' BY CountedStay
<1>6. Cardinality(CountedIn(t)) <= Cardinality(CountedIn(t)') BY <1>4, <1>5, FS_Subset
<1>7. /\ items[Thread(t)].replies <= Cardinality(CountedIn(t))
      /\ Replies(t) \notin torn => items[Thread(t)].replies = Cardinality(CountedIn(t))
  BY <1>1 DEF RepliesCounted
<1>8. ASSUME Replies(t) \notin torn' PROVE CountedIn(t)' = CountedIn(t)
  <2>1. \A p \in CountedIn(t)' \ CountedIn(t) : FALSE BY <1>8, CountedStay
  <2> QED BY <1>5, <2>1
<1> QED BY <1>1, <1>2, <1>3, <1>4, <1>6, <1>7, <1>8

LEMMA CopyFrame ==
    ASSUME CopyHasPost, NEW w \in Worker, NEW k, NEW n, Moves(w, k, n), PlacesGrow(k),
           \A t, p : Has(PostIn(t, p))' /\ ~Has(PostIn(t, p)) => n.op = "reply" /\ n.id = p,
           n = Idle /\ k.op = "reply" =>
              \A t : Has(PostIn(t, k.id)) => Has(Post(k.id)) \/ Replies(t) \in torn'
    PROVE  CopyHasPost'
<1> SUFFICES ASSUME NEW t, NEW p, Has(PostIn(t, p))', Replies(t) \notin torn'
             PROVE  Has(Post(p))' \/ InReply(p)'
  BY DEF CopyHasPost, Replies
<1>1. CASE ~Has(PostIn(t, p)) BY <1>1 DEF InReply, Moves
<1>2. CASE Has(PostIn(t, p))
  <2>1. Has(Post(p)) \/ InReply(p) BY <1>2 DEF CopyHasPost, Moves
  <2>2. CASE Has(Post(p)) BY <2>2 DEF PlacesGrow
  <2>3. CASE InReply(p)
    <3>1. PICK v \in Worker : call[v].op = "reply" /\ call[v].id = p BY <2>3 DEF InReply
    <3>2. CASE v # w BY <3>1, <3>2 DEF InReply, Moves
    <3>3. CASE v = w
      <4>1. k.op = "reply" /\ k.id = p BY <3>1, <3>3 DEF Moves
      <4>2. CASE n = Idle
        <5>1. Has(Post(p)) BY <1>2, <4>1, <4>2
        <5> QED BY <5>1, <2>2
      <4>3. CASE SameCall(k, n) BY <4>1, <4>3 DEF SameCall, InReply, Moves
      <4> QED BY <4>1, <4>2, <4>3, IdleCall DEF Moves
    <3> QED BY <3>2, <3>3
  <2> QED BY <2>1, <2>2, <2>3
<1> QED BY <1>1, <1>2

-----------------------------------------------------------------------------
(* Texts.                                                                  *)

TextSame(p) ==
    /\ Has(Post(p))' <=> Has(Post(p))
    /\ Has(Post(p)) => /\ items'[Post(p)].thread = items[Post(p)].thread
                       /\ items'[Post(p)].text = items[Post(p)].text
    /\ \A t : /\ Has(PostIn(t, p))' <=> Has(PostIn(t, p))
              /\ Has(PostIn(t, p)) => items'[PostIn(t, p)].text = items[PostIn(t, p)].text

LEMMA TextsSame ==
    ASSUME SamePlaces, KeptTexts, NEW p
    PROVE  TextSame(p)
BY DEF SamePlaces, KeptTexts, TextSame

LEMMA TextFactsStay ==
    ASSUME NEW m, TextFacts(m), Request(m),
           \A p : PostText(p) \in m.on /\ PostText(p) \notin spoiled' =>
              PostText(p) \notin spoiled /\ TextSame(p)
    PROVE  TextFacts(m)'
<1>1. ASSUME m.op = "reply", PostText(m.id) \notin spoiled'
      PROVE  /\ Has(Post(m.id))' => items'[Post(m.id)].text = m.id
             /\ \A t : Has(PostIn(t, m.id))' => items'[PostIn(t, m.id)].text = m.id
  <2>1. PostText(m.id) \in m.on BY <1>1 DEF Request, ReplyCall
  <2>2. PostText(m.id) \notin spoiled /\ TextSame(m.id) BY <1>1, <2>1
  <2> QED BY <1>1, <2>2 DEF TextFacts, TextSame
<1>2. ASSUME m.op = "rewrite", PostText(m.arg[1]) \notin spoiled', m.at = "done",
             m.todo = LastRow(m.arg[1], [text |-> m.id])', Has(Post(m.arg[1]))'
      PROVE  items'[Post(m.arg[1])].text = m.id
  <2>1. PostText(m.arg[1]) \in m.on BY <1>2 DEF Request, RewriteCall
  <2>2. PostText(m.arg[1]) \notin spoiled /\ TextSame(m.arg[1]) BY <1>2, <2>1
  <2>3. LastRow(m.arg[1], [text |-> m.id])' = LastRow(m.arg[1], [text |-> m.id])
    BY <1>2, <2>2 DEF LastRow, TextSame, ThreadOf
  <2> QED BY <1>2, <2>2, <2>3 DEF TextFacts, TextSame
<1> QED BY <1>1, <1>2 DEF TextFacts

LEMMA TextsKept ==
    ASSUME CallsInv, Alone, Texts, NEW w \in Worker, NEW k, NEW n, Step(w, k, n), TextFacts(n)',
           \A p : PostText(p) \in k.on \/ TextSame(p),
           \A p : /\ PostText(p) \in k.on /\ n = Idle
                  /\ Has(Post(p))' /\ PostText(p) \notin spoiled'
                  => TextAgrees(p)'
    PROVE  Texts'
<1>0. Moves(w, k, n) /\ Calmer(w, k, n) BY DEF Step
<1>1. ASSUME NEW p, Has(Post(p))', Settled(PostText(p))' PROVE TextAgrees(p)'
  <2>1. PICK s : s = PostText(p) OBVIOUS
  <2>2. Settled(s)' BY <1>1, <2>1 DEF PostText
  <2>3. s \notin spoiled' /\ s \notin n.on BY <1>0, <2>2 DEF Settled, AtRest, Moves
  <2>4. Settled(s) \/ (s \in k.on /\ n = Idle) BY <1>0, <2>2 DEF Calmer
  <2>5. CASE s \in k.on /\ n = Idle BY <1>1, <2>1, <2>3, <2>5
  <2>6. CASE Settled(s)
    <3>1. s \notin k.on BY <1>0, <2>6 DEF Settled, AtRest, Moves
    <3>2. TextSame(p) BY <2>1, <3>1
    <3>3. Has(Post(p)) /\ TextAgrees(p) BY <1>1, <2>1, <2>6, <3>2 DEF TextSame, Texts, TextsAgree
    <3>4. ThreadOf(p)' = ThreadOf(p) BY <3>2, <3>3 DEF TextSame, ThreadOf
    <3> QED BY <3>2, <3>3, <3>4 DEF TextSame, TextAgrees
  <2> QED BY <2>4, <2>5, <2>6
<1>2. ASSUME NEW v \in Worker PROVE TextFacts(call[v])'
  <2>1. CASE v = w BY <1>0, <2>1 DEF Moves
  <2>2. CASE v # w
    <3>1. PICK m : m = call[v] OBVIOUS
    <3>2. m = call'[v] /\ TextFacts(m) /\ Request(m) BY <1>0, <2>2, <3>1 DEF Moves, Texts, CallsInv
    <3>3. ASSUME NEW p, PostText(p) \in m.on, PostText(p) \notin spoiled'
          PROVE  PostText(p) \notin spoiled /\ TextSame(p)
      <4>1. PostText(p) \notin spoiled BY <1>0, <2>2, <3>1, <3>3 DEF Calmer
      <4>2. Derived(PostText(p)) BY DEF Derived, PostText
      <4>3. PostText(p) \notin k.on BY <1>0, <2>2, <3>1, <3>3, <4>1, <4>2 DEF Alone, Moves
      <4> QED BY <4>1, <4>3
    <3>4. TextFacts(m)' BY <3>2, <3>3, TextFactsStay
    <3> QED BY <3>2, <3>4
  <2> QED BY <2>1, <2>2
<1> QED BY <1>1, <1>2 DEF Texts, TextsAgree

-----------------------------------------------------------------------------
(* Votes.                                                                  *)

LEMMA VotesFinite ==
    ASSUME NEW s, NEW value
    PROVE  /\ IsFiniteSet(Votes(s, value)) /\ Cardinality(User) \in Nat
           /\ Cardinality(Votes(s, value)) \in 0..Cardinality(User)
<1>1. IsFiniteSet(User) BY CommunityConstants
<1>2. Votes(s, value) \subseteq User BY DEF Votes
<1>3. Cardinality(User) \in Nat /\ IsFiniteSet(Votes(s, value)) BY <1>1, <1>2, FS_Subset, FS_CardinalityType
<1>4. Cardinality(Votes(s, value)) \in Nat /\ Cardinality(Votes(s, value)) <= Cardinality(User)
  BY <1>1, <1>2, <1>3, FS_Subset, FS_CardinalityType
<1> QED BY <1>3, <1>4

LEMMA NobodyVoted ==
    ASSUME NEW s, \A u : ~Has(Vote(s, u))
    PROVE  \A row : NoVotes(row) => VotesCounted(row, s)
<1>1. Votes(s, "up") = {} /\ Votes(s, "down") = {} BY DEF Votes
<1>2. Cardinality({}) = 0 BY FS_EmptySet
<1> QED BY <1>1, <1>2 DEF NoVotes, VotesCounted

\* Nobody's vote on the subject changed.
VotesSame(s) == \A u : SameAt(Vote(s, u))

LEMMA SameVotes ==
    ASSUME NEW s, VotesSame(s)
    PROVE  /\ \A value : Votes(s, value)' = Votes(s, value)
           /\ \A row : VotesCounted(row, s)' <=> VotesCounted(row, s)
           /\ Counted(s)' = Counted(s)
<1>1. \A u : SameAt(Vote(s, u)) BY DEF VotesSame
<1>2. ASSUME NEW value PROVE Votes(s, value)' = Votes(s, value)
  BY <1>1 DEF SameAt, Votes, Has
<1>3. ASSUME NEW row PROVE VotesCounted(row, s)' <=> VotesCounted(row, s)
  BY <1>2 DEF VotesCounted
<1>4. Counted(s)' = Counted(s) BY <1>2 DEF Counted
<1> QED BY <1>2, <1>3, <1>4

TallySame(t) ==
    /\ Has(Thread(t))' <=> Has(Thread(t))
    /\ Has(Thread(t)) => /\ items'[Thread(t)].up = items[Thread(t)].up
                         /\ items'[Thread(t)].down = items[Thread(t)].down

PostTallySame(p) ==
    /\ Has(Post(p))' <=> Has(Post(p))
    /\ Has(Post(p)) => /\ items'[Post(p)].thread = items[Post(p)].thread
                       /\ items'[Post(p)].up = items[Post(p)].up
                       /\ items'[Post(p)].down = items[Post(p)].down
    /\ \A t : /\ Has(PostIn(t, p))' <=> Has(PostIn(t, p))
              /\ Has(PostIn(t, p)) => /\ items'[PostIn(t, p)].up = items[PostIn(t, p)].up
                                      /\ items'[PostIn(t, p)].down = items[PostIn(t, p)].down

LEMMA TalliesSame ==
    ASSUME SamePlaces, KeptPostTallies, NEW p
    PROVE  PostTallySame(p)
BY DEF SamePlaces, KeptPostTallies, PostTallySame

LEMMA CountedAlike ==
    ASSUME NEW s, NEW row, NEW old, row.up = old.up, row.down = old.down, VotesCounted(old, s)
    PROVE  VotesCounted(row, s)
BY DEF VotesCounted

\* What a vote and a reply of another request rely on.
LEMMA VoteFactsStay ==
    ASSUME NEW m, VoteFacts(m), Request(m), GrowThreads,
           \A p : PostVotes(p) \in m.on /\ PostVotes(p) \notin spoiled' =>
              PostVotes(p) \notin spoiled /\ PostTallySame(p) /\ VotesSame(PostVotes(p)),
           \A t : ThreadVotes(t) \in m.on /\ ThreadVotes(t) \notin spoiled' =>
              ThreadVotes(t) \notin spoiled /\ VotesSame(ThreadVotes(t))
    PROVE  VoteFacts(m)'
<1>1. ASSUME m.op = "reply", PostVotes(m.id) \notin spoiled' PROVE Unvoted(m.id)'
  <2>1. PostVotes(m.id) \in m.on BY <1>1 DEF Request, ReplyCall
  <2>2. PostVotes(m.id) \notin spoiled /\ PostTallySame(m.id) /\ VotesSame(PostVotes(m.id))
    BY <1>1, <2>1
  <2>3. Unvoted(m.id) BY <1>1, <2>2 DEF VoteFacts
  <2>4. \A u : ~Has(Vote(PostVotes(m.id), u))' BY <2>2, <2>3 DEF Unvoted, VotesSame, SameAt, Has
  <2>5. Has(Post(m.id))' => NoVotes(items[Post(m.id)])'
    BY <2>2, <2>3 DEF Unvoted, PostTallySame, NoVotes
  <2>6. \A t : Has(PostIn(t, m.id))' => NoVotes(items[PostIn(t, m.id)])'
    BY <2>2, <2>3 DEF Unvoted, PostTallySame, NoVotes
  <2> QED BY <2>4, <2>5, <2>6 DEF Unvoted, PostVotes
<1>2. ASSUME m.op = "vote", m.arg[1] \notin spoiled' PROVE Counting(m)'
  <2>1. m.arg[1] \in m.on BY <1>2 DEF Request, VoteCall
  <2>2. \/ \E t : m.arg[1] = ThreadVotes(t)
        \/ \E p : m.arg[1] = PostVotes(p)
    BY <1>2 DEF Request, VoteCall
  <2>3. CASE \E t : m.arg[1] = ThreadVotes(t)
    <3>1. PICK t : m.arg[1] = ThreadVotes(t) BY <2>3
    <3>2. m.arg[1] \notin spoiled /\ VotesSame(m.arg[1]) BY <1>2, <2>1, <3>1
    <3>3. Counted(m.arg[1])' = Counted(m.arg[1]) BY <3>2, SameVotes
    <3>4. m.arg[1][1] # "post" BY <3>1 DEF ThreadVotes
    <3> QED BY <1>2, <3>2, <3>3, <3>4 DEF VoteFacts, Counting, SetVotes
  <2>4. CASE \E p : m.arg[1] = PostVotes(p)
    <3>1. PICK p : m.arg[1] = PostVotes(p) BY <2>4
    <3>2. m.arg[1] \notin spoiled /\ VotesSame(m.arg[1]) /\ PostTallySame(p) BY <1>2, <2>1, <3>1
    <3>3. Counted(m.arg[1])' = Counted(m.arg[1]) BY <3>2, SameVotes
    <3>4. m.arg[1][1] = "post" /\ m.arg[1][2] = p BY <3>1 DEF PostVotes
    <3>5. Counting(m) BY <1>2, <3>2 DEF VoteFacts
    <3>6. ASSUME m.at = "done", Has(Post(p))', m.todo = LastRow(p, m.arg[4])'
          PROVE  VotesCounted(items[Post(p)], m.arg[1])'
      <4>1. Has(Post(p)) BY <3>2, <3>6 DEF PostTallySame
      <4>2. LastRow(p, m.arg[4])' = LastRow(p, m.arg[4])
        BY <3>2, <4>1 DEF PostTallySame, LastRow, ThreadOf
      <4>3. VotesCounted(items[Post(p)], m.arg[1]) BY <3>4, <3>5, <3>6, <4>1, <4>2 DEF Counting
      <4>4. VotesCounted(items'[Post(p)], m.arg[1])
        BY <3>2, <4>1, <4>3, CountedAlike DEF PostTallySame
      <4>5. PICK row : row = items'[Post(p)] OBVIOUS
      <4>6. VotesCounted(row, m.arg[1])' BY <3>2, <4>4, <4>5, SameVotes
      <4> QED BY <4>5, <4>6 DEF Post
    <3> QED BY <3>3, <3>4, <3>5, <3>6 DEF Counting
  <2> QED BY <2>2, <2>3, <2>4
<1>3. m.op = "vote" /\ m.arg[1][1] = "thread" => Has(Thread(m.arg[1][2]))' \/ m.arg[1][2] = Nothing
  BY DEF VoteFacts, GrowThreads
<1> QED BY <1>1, <1>2, <1>3 DEF VoteFacts, Nothing

\* A thread that was put: nobody has voted on it.
Born(t) == ~Has(Thread(t)) /\ t # Nothing /\ NoVotes(items'[Thread(t)])

LEMMA VotesKept ==
    ASSUME CallsInv, Alone, VotesInv, NEW w \in Worker, NEW k, NEW n, Step(w, k, n), VoteFacts(n)',
           GrowThreads, VotedThreads', VotedPosts',
           \A t : \/ ThreadVotes(t) \in k.on
                  \/ VotesSame(ThreadVotes(t)) /\ (TallySame(t) \/ Born(t)),
           \A p : PostVotes(p) \in k.on \/ (VotesSame(PostVotes(p)) /\ PostTallySame(p)),
           \A t : /\ ThreadVotes(t) \in k.on /\ n = Idle
                  /\ Has(Thread(t))' /\ ThreadVotes(t) \notin spoiled'
                  => VotesCounted(items[Thread(t)], ThreadVotes(t))',
           \A p : /\ PostVotes(p) \in k.on /\ n = Idle
                  /\ Has(Post(p))' /\ PostVotes(p) \notin spoiled'
                  => BothCounted(p)'
    PROVE  VotesInv'
<1>0. Moves(w, k, n) /\ Calmer(w, k, n) BY DEF Step
<1>1. ASSUME NEW s, Settled(s)'
      PROVE  s \notin spoiled' /\ s \notin n.on
             /\ ((s \in k.on /\ n = Idle) \/ (s \notin k.on /\ Settled(s)))
  <2>1. s \notin spoiled' /\ s \notin n.on BY <1>0, <1>1 DEF Settled, AtRest, Moves
  <2>2. Settled(s) => s \notin k.on BY <1>0 DEF Settled, AtRest, Moves
  <2> QED BY <1>0, <1>1, <2>1, <2>2 DEF Calmer
<1>2. ASSUME NEW t, Has(Thread(t))', Settled(ThreadVotes(t))'
      PROVE  VotesCounted(items[Thread(t)], ThreadVotes(t))'
  <2>1. PICK s : s = ThreadVotes(t) OBVIOUS
  <2>2. Settled(s)' BY <1>2, <2>1 DEF ThreadVotes
  <2>3. CASE s \in k.on /\ n = Idle BY <1>1, <1>2, <2>1, <2>2, <2>3
  <2>4. CASE s \notin k.on /\ Settled(s)
    <3>1. VotesSame(s) /\ (TallySame(t) \/ Born(t)) BY <2>1, <2>4
    <3>2. VotesCounted(items'[Thread(t)], s)
      <4>1. CASE TallySame(t)
        <5>1. Has(Thread(t)) BY <1>2, <4>1 DEF TallySame
        <5>2. VotesCounted(items[Thread(t)], s)
          BY <2>1, <2>4, <5>1 DEF VotesInv, ThreadsCounted
        <5> QED BY <4>1, <5>1, <5>2, CountedAlike DEF TallySame
      <4>2. CASE Born(t)
        <5>1. \A u : ~Has(Vote(s, u)) BY <2>1, <4>2 DEF Born, VotesInv, VotedThreads
        <5> QED BY <4>2, <5>1, NobodyVoted DEF Born
      <4> QED BY <3>1, <4>1, <4>2
    <3>3. PICK row : row = items'[Thread(t)] OBVIOUS
    <3>4. VotesCounted(row, s)' BY <3>1, <3>2, <3>3, SameVotes
    <3> QED BY <2>1, <3>3, <3>4 DEF ThreadVotes, Thread
  <2> QED BY <1>1, <2>2, <2>3, <2>4
<1>3. ASSUME NEW p, Has(Post(p))', Settled(PostVotes(p))' PROVE BothCounted(p)'
  <2>1. PICK s : s = PostVotes(p) OBVIOUS
  <2>2. Settled(s)' BY <1>3, <2>1 DEF PostVotes
  <2>3. CASE s \in k.on /\ n = Idle BY <1>1, <1>3, <2>1, <2>2, <2>3
  <2>4. CASE s \notin k.on /\ Settled(s)
    <3>1. VotesSame(s) /\ PostTallySame(p) BY <2>1, <2>4
    <3>2. Has(Post(p)) /\ BothCounted(p)
      BY <1>3, <2>1, <2>4, <3>1 DEF PostTallySame, VotesInv, PostsCounted
    <3>3. ThreadOf(p)' = ThreadOf(p) BY <3>1, <3>2 DEF PostTallySame, ThreadOf
    <3>4. PICK t : t = ThreadOf(p) OBVIOUS
    <3>5. VotesCounted(items'[Post(p)], s)
      BY <2>1, <3>1, <3>2, CountedAlike DEF PostTallySame, BothCounted
    <3>6. Has(PostIn(t, p))' => VotesCounted(items'[PostIn(t, p)], s)
      BY <2>1, <3>1, <3>2, <3>4, CountedAlike DEF PostTallySame, BothCounted
    <3>7. PICK row : row = items'[Post(p)] OBVIOUS
    <3>8. PICK copy : copy = items'[PostIn(t, p)] OBVIOUS
    <3>9. VotesCounted(row, s)' /\ (Has(PostIn(t, p))' => VotesCounted(copy, s)')
      BY <3>1, <3>5, <3>6, <3>7, <3>8, SameVotes
    <3> QED BY <2>1, <3>3, <3>4, <3>7, <3>8, <3>9 DEF BothCounted, Post, PostIn, PostVotes
  <2> QED BY <1>1, <2>2, <2>3, <2>4
<1>4. ASSUME NEW v \in Worker PROVE VoteFacts(call[v])'
  <2>1. CASE v = w BY <1>0, <2>1 DEF Moves
  <2>2. CASE v # w
    <3>1. PICK m : m = call[v] OBVIOUS
    <3>2. m = call'[v] /\ VoteFacts(m) /\ Request(m)
      BY <1>0, <2>2, <3>1 DEF Moves, VotesInv, CallsInv
    <3>3. ASSUME NEW s, s \in m.on, s \notin spoiled', Derived(s)
          PROVE  s \notin spoiled /\ s \notin k.on
      <4>1. s \notin spoiled BY <1>0, <2>2, <3>1, <3>3 DEF Calmer
      <4> QED BY <1>0, <2>2, <3>1, <3>3, <4>1 DEF Alone, Moves
    <3>4. \A p : PostVotes(p) \in m.on /\ PostVotes(p) \notin spoiled' =>
             PostVotes(p) \notin spoiled /\ PostTallySame(p) /\ VotesSame(PostVotes(p))
      <4>1. \A p : Derived(PostVotes(p)) BY DEF Derived, PostVotes
      <4> QED BY <3>3, <4>1
    <3>5. \A t : ThreadVotes(t) \in m.on /\ ThreadVotes(t) \notin spoiled' =>
             ThreadVotes(t) \notin spoiled /\ VotesSame(ThreadVotes(t))
      <4>1. \A t : Derived(ThreadVotes(t)) BY DEF Derived, ThreadVotes
      <4> QED BY <3>3, <4>1
    <3>6. VoteFacts(m)' BY <3>2, <3>4, <3>5, VoteFactsStay
    <3> QED BY <3>2, <3>6
  <2> QED BY <2>1, <2>2
<1> QED BY <1>2, <1>3, <1>4 DEF VotesInv, ThreadsCounted, PostsCounted

\* No vote was given or taken back.
LEMMA VotedStay ==
    ASSUME VotesInv, KeptVotes, GrowThreads, NEW k, PlacesGrow(k)
    PROVE  VotedThreads' /\ VotedPosts' /\ \A s : VotesSame(s)
<1>1. \A s, u : SameAt(Vote(s, u)) BY DEF KeptVotes
<1>2. \A s, u : Has(Vote(s, u))' => Has(Vote(s, u)) BY <1>1 DEF SameAt, Has
<1>3. VotedThreads' BY <1>2 DEF VotesInv, VotedThreads, GrowThreads, ThreadVotes, Nothing
<1>4. ASSUME NEW p, NEW u, Has(Vote(PostVotes(p), u))' PROVE \E t : Has(PostIn(t, p))'
  <2>1. PICK t : Has(PostIn(t, p)) BY <1>2, <1>4 DEF VotesInv, VotedPosts
  <2> QED BY <2>1 DEF PlacesGrow
<1> QED BY <1>1, <1>3, <1>4 DEF VotesSame, VotedPosts, PostVotes

-----------------------------------------------------------------------------
(* Addons.                                                                 *)

DeckSame(a) == SameAt(Addon(a)) /\ SameAt(Markdown(a))

\* Addons stay, with their authors and kinds.
AddonsGrow(k) ==
    /\ \A a : Has(Addon(a)) => /\ Has(Addon(a))'
                               /\ items'[Addon(a)].author = items[Addon(a)].author
                               /\ items'[Addon(a)].kind = items[Addon(a)].kind
    /\ \A a : Has(Addon(a))' => Has(Addon(a)) \/ (k.op = "addon" /\ k.id = a)

LEMMA MayPutDeckStays ==
    ASSUME NEW k, AddonsGrow(k), NEW u, NEW a, k.op # "addon" \/ Has(Addon(a)) \/ a # k.id
    PROVE  MayPutDeck(u, a)' <=> MayPutDeck(u, a)
BY DEF AddonsGrow, MayPutDeck, Owns

LEMMA AddonFactsStay ==
    ASSUME NEW k, NEW m, AddonFacts(m), Request(m), AddonsGrow(k),
           m.op = "addon" /\ k.op = "addon" => m.id # k.id,
           k.op = "addon" => k.id # Nothing,
           m.op \in ByHandOps => AddonDeck(m.arg[1]) \in spoiled',
           \A a : AddonDeck(a) \in m.on /\ AddonDeck(a) \notin spoiled' =>
              AddonDeck(a) \notin spoiled /\ DeckSame(a)
    PROVE  AddonFacts(m)'
<1>1. m.op = "addon" => ~Has(Addon(m.id))' BY DEF AddonFacts, AddonsGrow
<1>2. m.op \in ByHandOps \cup {"deck"} => Has(Addon(m.arg[1]))' \/ m.arg[1] = Nothing
  BY DEF AddonFacts, AddonsGrow
<1>3. m.op \in {"patch", "deck"} /\ m.at = "done" => Has(Addon(m.arg[1]))'
  BY DEF AddonFacts, AddonsGrow
<1>4. ASSUME m.op = "deck", AddonDeck(m.arg[1]) \notin spoiled' PROVE DeckFacts(m)'
  <2>1. AddonDeck(m.arg[1]) \in m.on BY <1>4 DEF Request, DeckCall
  <2>2. AddonDeck(m.arg[1]) \notin spoiled /\ DeckSame(m.arg[1]) BY <1>4, <2>1
  <2>3. DeckFacts(m) BY <1>4, <2>2 DEF AddonFacts
  <2>4. Has(Addon(m.arg[1])) \/ m.arg[1] = Nothing BY <1>4 DEF AddonFacts
  <2>5. MayPutDeck(m.arg[2], m.arg[1])' <=> MayPutDeck(m.arg[2], m.arg[1])
    BY <2>4, MayPutDeckStays
  <2>6. CardsCounted(m.arg[1])' <=> CardsCounted(m.arg[1])
    BY <2>2 DEF DeckSame, SameAt, CardsCounted, Has
  <2>7. Has(Markdown(m.arg[1])) =>
           Has(Markdown(m.arg[1]))' /\ items'[Markdown(m.arg[1])] = items[Markdown(m.arg[1])]
    BY <2>2 DEF DeckSame, SameAt, Has
  <2> QED BY <2>3, <2>5, <2>6, <2>7 DEF DeckFacts, CountLeft, SetCount
<1> QED BY <1>1, <1>2, <1>3, <1>4 DEF AddonFacts, AddonDeck, ByHandOps, Nothing

LEMMA AddonsKept ==
    ASSUME CallsInv, Alone, Addons, NEW w \in Worker, NEW k, NEW n, Step(w, k, n), AddonFacts(n)',
           AddonRows', MarkdownOf', AddonsGrow(k), k.op = "addon" => k.id # Nothing,
           \A a : \/ AddonDeck(a) \in k.on \/ DeckSame(a)
                  \/ k.op = "addon" /\ a = k.id /\ ~Has(Addon(a)) /\ ~Has(Markdown(a))',
           \A a : AddonDeck(a) \in k.on /\ n = Idle /\ AddonDeck(a) \notin spoiled' => CardsCounted(a)'
    PROVE  Addons'
<1>0. Moves(w, k, n) /\ Calmer(w, k, n) BY DEF Step
<1>1. ASSUME NEW a, Settled(AddonDeck(a))' PROVE CardsCounted(a)'
  <2>1. PICK s : s = AddonDeck(a) OBVIOUS
  <2>2. Settled(s)' BY <1>1, <2>1 DEF AddonDeck
  <2>3. s \notin spoiled' /\ s \notin n.on BY <1>0, <2>2 DEF Settled, AtRest, Moves
  <2>4. Settled(s) \/ (s \in k.on /\ n = Idle) BY <1>0, <2>2 DEF Calmer
  <2>5. CASE s \in k.on /\ n = Idle BY <2>1, <2>3, <2>5
  <2>6. CASE Settled(s)
    <3>1. s \notin k.on BY <1>0, <2>6 DEF Settled, AtRest, Moves
    <3>2. CardsCounted(a) BY <2>1, <2>6 DEF Addons, DecksCounted
    <3>3. CASE DeckSame(a) BY <3>2, <3>3 DEF DeckSame, SameAt, CardsCounted, Has
    <3>4. CASE ~Has(Markdown(a))' BY <3>4 DEF CardsCounted
    <3> QED BY <2>1, <3>1, <3>3, <3>4
  <2> QED BY <2>4, <2>5, <2>6
<1>2. ASSUME NEW v \in Worker PROVE AddonFacts(call[v])'
  <2>1. CASE v = w BY <1>0, <2>1 DEF Moves
  <2>2. CASE v # w
    <3>1. PICK m : m = call[v] OBVIOUS
    <3>2. m = call'[v] /\ AddonFacts(m) /\ Request(m)
      BY <1>0, <2>2, <3>1 DEF Moves, Addons, CallsInv
    <3>3. \A s \in m.on : s \notin spoiled' => s \notin spoiled
      BY <1>0, <2>2, <3>1 DEF Calmer
    <3>4. m.op = "addon" /\ k.op = "addon" => m.id # k.id
      BY <1>0, <2>2, <3>1 DEF CallsInv, Busy, Moves
    <3>5. m.op \in ByHandOps => AddonDeck(m.arg[1]) \in spoiled'
      BY <3>2, <3>3 DEF AddonFacts, Request, HandCall, ByHandOps
    <3>6. ASSUME NEW a, AddonDeck(a) \in m.on, AddonDeck(a) \notin spoiled'
          PROVE  AddonDeck(a) \notin spoiled /\ DeckSame(a)
      <4>1. AddonDeck(a) \notin spoiled BY <3>3, <3>6
      <4>2. Derived(AddonDeck(a)) BY DEF Derived, AddonDeck
      <4>3. AddonDeck(a) \notin k.on BY <1>0, <2>2, <3>1, <3>6, <4>1, <4>2 DEF Alone, Moves
      <4>4. Has(Addon(a)) \/ a = Nothing
        <5>1. m.op \in ByHandOps \cup {"deck"} /\ m.on = {AddonDeck(m.arg[1])}
          <6>1. m.op # "idle" BY <3>1, <3>6, IdleCall DEF CallsInv, CallsOK
          <6>2. \A i : Replies(i) # AddonDeck(a) /\ PostText(i) # AddonDeck(a)
                       /\ PostVotes(i) # AddonDeck(a) /\ ThreadVotes(i) # AddonDeck(a)
            BY DEF Replies, PostText, PostVotes, ThreadVotes, AddonDeck
          <6> QED BY ZenonT(60), <3>2, <3>6, <6>1, <6>2 DEF Request, Ops, ByHandOps, TagCall, ThreadCall, ViewCall,
                    EditCall, ReplyCall, RewriteCall, VoteCall, AddonCall, HandCall, DeckCall
        <5>2. m.arg[1] = a BY <3>6, <5>1 DEF AddonDeck
        <5> QED BY <3>2, <5>1, <5>2 DEF AddonFacts
      <4> QED BY <4>1, <4>3, <4>4
    <3>7. AddonFacts(m)' BY <3>2, <3>4, <3>5, <3>6, AddonFactsStay
    <3> QED BY <3>2, <3>7
  <2> QED BY <2>1, <2>2
<1> QED BY <1>1, <1>2 DEF Addons, DecksCounted

LEMMA AddonsFrame ==
    ASSUME CallsInv, Alone, Addons, NEW w \in Worker, NEW k, NEW n, Step(w, k, n), AddonFacts(n)',
           KeptAddons, k.op = "addon" => k.id # Nothing,
           \A a : AddonDeck(a) \in k.on /\ n = Idle /\ AddonDeck(a) \notin spoiled' => CardsCounted(a)
    PROVE  Addons'
<1>1. \A a : SameAt(Addon(a)) /\ SameAt(Markdown(a)) BY DEF KeptAddons
<1>2. AddonsGrow(k) BY <1>1 DEF AddonsGrow, SameAt, Has
<1>3. AddonRows'
  <2>1. Known \subseteq Known' BY MovesKnown DEF Step
  <2>2. \A row : AddonRow(row) <=> AddonRow(row)' BY DEF AddonRow, Kinds
  <2>3. \A a : Has(Addon(a))' => a \in Known' /\ AddonRow(items'[Addon(a)])
    BY <1>1, <2>1 DEF Addons, AddonRows, SameAt, Has
  <2> QED BY <2>3 DEF AddonRows, AddonRow
<1>4. MarkdownOf' BY <1>1 DEF Addons, MarkdownOf, SameAt, Has, Nothing
<1>5. \A a : DeckSame(a) BY <1>1 DEF DeckSame
<1>6. \A a : CardsCounted(a) => CardsCounted(a)' BY <1>1 DEF SameAt, CardsCounted, Has
<1> QED BY <1>2, <1>3, <1>4, <1>5, <1>6, AddonsKept

-----------------------------------------------------------------------------
(* Tags and links.                                                         *)

LEMMA LinksKept ==
    ASSUME CallsInv, Links, NEW w \in Worker, NEW k, NEW n, Moves(w, k, n), LinkFacts(n)',
           \A t : HasLinks(t)' => t \in Known',
           \A t : (k.op = "thread" /\ k.id = t) \/ \A key \in LinkKeys(t) : SameAt(key),
           k.op = "thread" /\ n = Idle /\ Replies(k.id) \notin torn' => BothOrNone(k.id)'
    PROVE  Links'
<1>1. ASSUME NEW t, Replies(t) \notin torn', ~Creating(t)' PROVE BothOrNone(t)'
  <2>1. CASE k.op = "thread" /\ k.id = t
    <3>1. ~(n.op = "thread" /\ n.id = t) BY <1>1 DEF Creating, Moves
    <3>2. n = Idle BY <2>1, <3>1, IdleCall DEF Moves, SameCall
    <3> QED BY <1>1, <2>1, <3>2
  <2>2. CASE ~(k.op = "thread" /\ k.id = t)
    <3>1. ~Creating(t)
      <4> SUFFICES ASSUME NEW v \in Worker, call[v].op = "thread", call[v].id = t PROVE FALSE
        BY DEF Creating
      <4>1. v # w BY <2>2 DEF Moves
      <4> QED BY <1>1, <4>1 DEF Creating, Moves
    <3>2. BothOrNone(t) BY <1>1, <3>1 DEF Links, Moves
    <3>3. \A key \in LinkKeys(t) : Has(key)' <=> Has(key) BY <2>2 DEF SameAt, Has
    <3>4. /\ \A g \in Tag : TagOf(t, g) \in LinkKeys(t) /\ Tagged(g, t) \in LinkKeys(t)
          /\ \A c \in Content : Link(t, c) \in LinkKeys(t) /\ Linked(c, t) \in LinkKeys(t)
      BY DEF LinkKeys
    <3>5. \A g \in Tag : Has(TagOf(t, g))' <=> Has(Tagged(g, t))' BY <3>2, <3>3, <3>4 DEF BothOrNone
    <3>6. \A c \in Content : Has(Link(t, c))' <=> Has(Linked(c, t))'
      BY <3>2, <3>3, <3>4 DEF BothOrNone
    <3> QED BY <3>5, <3>6 DEF BothOrNone
  <2> QED BY <2>1, <2>2
<1>2. ASSUME NEW v \in Worker PROVE LinkFacts(call[v])'
  <2>1. CASE v = w BY <2>1 DEF Moves
  <2>2. CASE v # w
    <3>1. PICK m : m = call[v] OBVIOUS
    <3>2. m = call'[v] /\ LinkFacts(m) BY <2>2, <3>1 DEF Moves, Links
    <3>3. m.op = "thread" /\ k.op = "thread" => m.id # k.id
      BY <2>2, <3>1 DEF CallsInv, Busy, Moves
    <3>4. m.op = "thread" => \A key \in LinkKeys(m.id) : Has(key)' <=> Has(key)
      BY <3>3 DEF SameAt, Has
    <3>5. HasLinks(m.id)' <=> \E key \in LinkKeys(m.id) : Has(key)'
      BY DEF HasLinks, LinkKeys, TagOf, Tagged, Link, Linked
    <3>6. m.op = "thread" => /\ HasLinks(m.id)' <=> HasLinks(m.id)
                             /\ \A key \in LinkKeys(m.id) : Will(m, key)' <=> Will(m, key)
      BY <3>4, <3>5 DEF HasLinks, Will
    <3>7. /\ \A g \in Tag : TagOf(m.id, g) \in LinkKeys(m.id) /\ Tagged(g, m.id) \in LinkKeys(m.id)
          /\ \A c \in Content : Link(m.id, c) \in LinkKeys(m.id) /\ Linked(c, m.id) \in LinkKeys(m.id)
      BY DEF LinkKeys
    <3>8. m.op = "thread" /\ BothWill(m) => BothWill(m)'
      <4> SUFFICES ASSUME m.op = "thread", BothWill(m) PROVE BothWill(m)'
        OBVIOUS
      <4>1. \A g \in Tag : Will(m, TagOf(m.id, g))' <=> Will(m, Tagged(g, m.id))'
        BY <3>6, <3>7 DEF BothWill
      <4>2. \A c \in Content : Will(m, Link(m.id, c))' <=> Will(m, Linked(c, m.id))'
        BY <3>6, <3>7 DEF BothWill
      <4> QED BY <4>1, <4>2 DEF BothWill, TagOf, Tagged, Link, Linked
    <3>9. LinkFacts(m)' BY <3>2, <3>6, <3>8 DEF LinkFacts
    <3> QED BY <3>2, <3>9
  <2> QED BY <2>1, <2>2
<1> QED BY <1>1, <1>2 DEF Links, Replies

LEMMA LinksFrame ==
    ASSUME CallsInv, Links, NEW w \in Worker, NEW k, NEW n, Moves(w, k, n), LinkFacts(n)',
           KeptLinks,
           k.op = "thread" /\ n = Idle /\ Replies(k.id) \notin torn' => BothOrNone(k.id)
    PROVE  Links'
<1>1. \A t : \A key \in LinkKeys(t) : SameAt(key) BY DEF KeptLinks
<1>2. ASSUME NEW t, HasLinks(t)' PROVE t \in Known'
  <2>1. PICK key \in LinkKeys(t) : Has(key)'
    BY <1>2 DEF HasLinks, LinkKeys, TagOf, Tagged, Link, Linked
  <2>2. HasLinks(t) BY <1>1, <2>1 DEF HasLinks, SameAt, Has
  <2> QED BY <2>2, MovesKnown DEF Links
<1>3. ASSUME NEW t, BothOrNone(t) PROVE BothOrNone(t)'
  <2>1. \A key \in LinkKeys(t) : Has(key)' <=> Has(key) BY <1>1 DEF SameAt, Has
  <2>2. /\ \A g \in Tag : TagOf(t, g) \in LinkKeys(t) /\ Tagged(g, t) \in LinkKeys(t)
        /\ \A c \in Content : Link(t, c) \in LinkKeys(t) /\ Linked(c, t) \in LinkKeys(t)
    BY DEF LinkKeys
  <2>3. \A g \in Tag : Has(TagOf(t, g))' <=> Has(Tagged(g, t))' BY <1>3, <2>1, <2>2 DEF BothOrNone
  <2>4. \A c \in Content : Has(Link(t, c))' <=> Has(Linked(c, t))'
    BY <1>3, <2>1, <2>2 DEF BothOrNone
  <2> QED BY <2>3, <2>4 DEF BothOrNone
<1> QED BY <1>1, <1>2, <1>3, LinksKept

-----------------------------------------------------------------------------
(* Steps that write nothing.                                               *)

\* What a request that ends leaves behind is settled, or marked as not settled.
EndsWell(k) ==
    /\ k.op = "reply" =>
          /\ Has(Post(k.id)) => Replies(ThreadOf(k.id)) \in torn'
          /\ \A t : Has(PostIn(t, k.id)) => Has(Post(k.id)) \/ Replies(t) \in torn'
    /\ \A p : PostText(p) \in k.on /\ Has(Post(p)) /\ PostText(p) \notin spoiled' => TextAgrees(p)
    /\ \A t : ThreadVotes(t) \in k.on /\ Has(Thread(t)) /\ ThreadVotes(t) \notin spoiled' =>
          VotesCounted(items[Thread(t)], ThreadVotes(t))
    /\ \A p : PostVotes(p) \in k.on /\ Has(Post(p)) /\ PostVotes(p) \notin spoiled' => BothCounted(p)
    /\ \A a : AddonDeck(a) \in k.on /\ AddonDeck(a) \notin spoiled' => CardsCounted(a)
    /\ k.op = "thread" /\ Replies(k.id) \notin torn' => BothOrNone(k.id)

LEMMA MoveKept ==
    ASSUME CommunityInv, NEW w \in Worker, NEW k, NEW n, Step(w, k, n), items' = items,
           Request(n)', Facts(n)', Alone', n = Idle => EndsWell(k)
    PROVE  CommunityInv'
<1>0. Moves(w, k, n) /\ Calmer(w, k, n) BY DEF Step
<1>1. KeptThreads /\ KeptOwn /\ KeptCopies /\ KeptVotes /\ KeptAddons /\ KeptLinks
  BY NothingWritten
<1>2. GrowThreads /\ KeptReplies /\ KeptTallies BY <1>1, ThreadsSame
<1>3. SamePlaces /\ KeptTexts /\ KeptPostTallies BY <1>1, PostsSame
<1>4. PlacesGrow(k) BY <1>3, PlacesStay
<1>5. CallsInv' BY <1>0, CallsKeptOn DEF CommunityInv
<1>6. Threads' BY <1>0, <1>1, ThreadsFrame DEF CommunityInv, Facts
<1>7. Posts' BY <1>0, <1>1, <1>2, PostsFrame DEF CommunityInv, Facts
<1>8. RepliesCounted'
  BY <1>0, <1>2, <1>3, RepliesFrame DEF CommunityInv, Posts, Threads, EndsWell
<1>9. CopyHasPost'
  <2>1. \A t, p : Has(PostIn(t, p))' => Has(PostIn(t, p)) BY <1>3 DEF SamePlaces
  <2>2. n = Idle /\ k.op = "reply" =>
           \A t : Has(PostIn(t, k.id)) => Has(Post(k.id)) \/ Replies(t) \in torn'
    BY DEF EndsWell
  <2> QED BY <1>0, <1>4, <2>1, <2>2, CopyFrame DEF CommunityInv
<1>10. Texts'
  <2>1. \A p : TextSame(p) BY <1>3, TextsSame
  <2>2. ASSUME NEW p, Has(Post(p))', n = Idle, PostText(p) \in k.on, PostText(p) \notin spoiled'
        PROVE  TextAgrees(p)'
    <3>1. Has(Post(p)) BY <2>2 DEF Has
    <3>2. TextAgrees(p) BY <2>2, <3>1 DEF EndsWell
    <3> QED BY <3>2 DEF TextAgrees, ThreadOf, Has
  <2>3. TextFacts(n)' BY DEF Facts
  <2> QED BY <2>1, <2>2, <2>3, TextsKept DEF CommunityInv
<1>11. VotesInv'
  <2>1. VotedThreads' /\ VotedPosts' /\ \A s : VotesSame(s)
    BY <1>1, <1>2, <1>4, VotedStay DEF CommunityInv
  <2>2. \A p : PostTallySame(p) BY <1>3, TalliesSame
  <2>3. \A t : TallySame(t) BY <1>2 DEF KeptTallies, TallySame
  <2>4. \A s, row : VotesCounted(row, s)' <=> VotesCounted(row, s) BY <2>1, SameVotes
  <2>5. ASSUME NEW t, n = Idle, Has(Thread(t))', ThreadVotes(t) \in k.on,
               ThreadVotes(t) \notin spoiled'
        PROVE  VotesCounted(items[Thread(t)], ThreadVotes(t))'
    <3>1. VotesCounted(items[Thread(t)], ThreadVotes(t)) BY <2>5 DEF EndsWell, Has
    <3>2. PICK row, s : row = items[Thread(t)] /\ s = ThreadVotes(t) OBVIOUS
    <3>3. VotesCounted(row, s)' BY <2>4, <3>1, <3>2
    <3>4. row = items'[Thread(t)] BY <3>2
    <3> QED BY <3>2, <3>3, <3>4 DEF ThreadVotes, Thread
  <2>6. ASSUME NEW p, n = Idle, Has(Post(p))', PostVotes(p) \in k.on, PostVotes(p) \notin spoiled'
        PROVE  BothCounted(p)'
    <3>1. BothCounted(p) BY <2>6 DEF EndsWell, Has
    <3>2. PICK s, t, row, copy : /\ s = PostVotes(p) /\ t = ThreadOf(p) /\ row = items[Post(p)]
                                 /\ copy = items[PostIn(t, p)]
      OBVIOUS
    <3>3. VotesCounted(row, s)' /\ (Has(PostIn(t, p)) => VotesCounted(copy, s)')
      BY <2>4, <3>1, <3>2 DEF BothCounted
    <3>4. t = ThreadOf(p)' /\ row = items'[Post(p)] /\ copy = items'[PostIn(t, p)]
          /\ (Has(PostIn(t, p))' <=> Has(PostIn(t, p)))
      BY <3>2 DEF ThreadOf, Has
    <3> QED BY <3>2, <3>3, <3>4 DEF BothCounted, PostVotes, Post, PostIn
  <2>7. VoteFacts(n)' BY DEF Facts
  <2> QED BY <1>2, <2>1, <2>2, <2>3, <2>5, <2>6, <2>7, VotesKept DEF CommunityInv
<1>12. Addons'
  <2>1. k.op = "addon" => k.id # Nothing
    <3>1. k.op = "addon" => k.id \in 1..requests BY <1>0 DEF CommunityInv, CallsInv, Request, Moves
    <3> QED BY <3>1, TableConstants DEF CommunityInv, CallsInv, Nothing
  <2>2. \A a : AddonDeck(a) \in k.on /\ n = Idle /\ AddonDeck(a) \notin spoiled' => CardsCounted(a)
    BY DEF EndsWell
  <2>3. AddonFacts(n)' BY DEF Facts
  <2> QED BY <1>1, <2>1, <2>2, <2>3, AddonsFrame DEF CommunityInv
<1>13. Links'
  <2>1. k.op = "thread" /\ n = Idle /\ Replies(k.id) \notin torn' => BothOrNone(k.id)
    BY DEF EndsWell
  <2>2. LinkFacts(n)' BY DEF Facts
  <2> QED BY <1>0, <1>1, <2>1, <2>2, LinksFrame DEF CommunityInv
<1> QED BY <1>5, <1>6, <1>7, <1>8, <1>9, <1>10, <1>11, <1>12, <1>13 DEF CommunityInv

Stays == items' = items /\ requests' = requests /\ torn' = torn /\ spoiled' = spoiled

\* The request has a plan, or has read something.
LEMMA GoesOn ==
    ASSUME CommunityInv, NEW w \in Worker, NEW k, NEW n, Moves(w, k, n), Stays, SameCall(k, n),
           Request(n)', Facts(n)'
    PROVE  CommunityInv'
<1>1. spoiled \subseteq spoiled' BY DEF Stays
<1>2. Calmer(w, k, n) BY <1>1, CalmerWhenSame
<1>3. Alone' BY <1>1, AloneKept DEF CommunityInv
<1>4. n # Idle BY IdleCall DEF Stays, SameCall, Moves
<1> QED BY <1>2, <1>3, <1>4, MoveKept DEF Step, Stays

\* The request is answered without a write.
LEMMA Ends ==
    ASSUME CommunityInv, NEW w \in Worker, NEW k, NEW n, Moves(w, k, n), n = Idle, items' = items,
           spoiled \subseteq spoiled', EndsWell(k)
    PROVE  CommunityInv'
<1>1. Calmer(w, k, n) BY CalmerWhenSame
<1>2. Alone' BY AloneKept DEF CommunityInv
<1>3. Request(n)' /\ Facts(n)' BY IdleFacts
<1> QED BY <1>1, <1>2, <1>3, MoveKept DEF Step

LEMMA CrashKept ==
    ASSUME CommunityInv, NEW w \in Worker, Crash(w), spoiled' = spoiled \cup call[w].on
    PROVE  CommunityInv'
<1>1. PICK k : k = call[w] OBVIOUS
<1>2. PICK n : n = call'[w] OBVIOUS
<1>3. CallsOK BY DEF CommunityInv, CallsInv
<1>4. /\ CallsOK' /\ n = Idle /\ k.op # "idle" /\ \A v \in Worker \ {w} : call'[v] = call[v]
      /\ items' = items /\ requests' = requests /\ torn' = torn \cup k.on
  BY <1>1, <1>2, <1>3, CrashFacts
<1>5. Moves(w, k, n) BY <1>1, <1>2, <1>4 DEF Moves, CommunityInv, CallsInv
<1>6. spoiled' = spoiled \cup k.on BY <1>1
<1>7. Request(k) /\ PostFacts(k) BY <1>1 DEF CommunityInv, CallsInv, Posts
<1>8. k.op = "reply" => Replies(k.arg[1]) \in torn' /\ ReplyOf(k)
  BY <1>4, <1>7 DEF Request, ReplyCall, PostFacts
<1>9. k.op = "thread" => Replies(k.id) \in torn' BY <1>4, <1>7 DEF Request, ThreadCall
<1>10. EndsWell(k) BY <1>6, <1>8, <1>9 DEF EndsWell, ReplyOf
<1> QED BY <1>4, <1>5, <1>6, <1>10, Ends

-----------------------------------------------------------------------------
(* Requests that begin.                                                    *)

\* What becomes spoiled or is taken out again.
Spoils(on) ==
    /\ \/ \E gone \in SUBSET on : spoiled' = (spoiled \ gone) \cup {s \in on : ~AtRest(s)}
       \/ spoiled \subseteq spoiled'
    /\ \A s \in on : Derived(s) /\ ~AtRest(s) => s \in spoiled'

NewCall(op, on, arg, at) ==
    [op |-> op, at |-> at, id |-> requests + 1, on |-> on, arg |-> arg, todo |-> <<>>]

LEMMA BeginKept ==
    ASSUME CommunityInv, NEW w \in Worker, NEW op, NEW on, NEW arg, NEW at, op # "idle",
           Begin(w, op, on, arg, at), NEW n, n = NewCall(op, on, arg, at), Spoils(on),
           Request(n)', Facts(n)'
    PROVE  CommunityInv'
<1>1. PICK k : k = call[w] OBVIOUS
<1>2. CallsOK BY DEF CommunityInv, CallsInv
<1>3. /\ CallsOK' /\ k = Idle /\ requests < MaxRequests /\ requests' = requests + 1
      /\ n = call'[w] /\ \A v \in Worker \ {w} : call'[v] = call[v]
      /\ items' = items /\ torn' = torn
  BY <1>1, <1>2, BeginFacts DEF NewCall
<1>4. n.on = on /\ n.op = op /\ n.id = requests + 1 BY DEF NewCall
<1>5. Moves(w, k, n) BY <1>1, <1>3, <1>4 DEF Moves, CommunityInv, CallsInv
<1>6. Calmer(w, k, n)
  <2>1. CASE spoiled \subseteq spoiled'
    <3>1. {} \subseteq n.on OBVIOUS
    <3> QED BY <1>3, <1>5, <2>1, <3>1, CalmerWhenBegun
  <2>2. CASE \E gone \in SUBSET on : spoiled' = (spoiled \ gone) \cup {s \in on : ~AtRest(s)}
    <3>1. PICK gone \in SUBSET on : spoiled' = (spoiled \ gone) \cup {s \in on : ~AtRest(s)}
      BY <2>2
    <3> QED BY <1>3, <1>4, <1>5, <3>1, CalmerWhenBegun
  <2> QED BY <2>1, <2>2 DEF Spoils
<1>7. Alone'
  <2>1. \A s \in on : Derived(s) /\ s \notin spoiled' => AtRest(s) BY DEF Spoils
  <2>2. \A v \in Worker \ {w} : \A s \in call[v].on : s \notin spoiled' => s \notin spoiled
    BY <1>6 DEF Calmer
  <2>3. \A s : AtRest(s) => \A v \in Worker : s \notin call[v].on BY DEF AtRest
  <2> SUFFICES ASSUME NEW u \in Worker, NEW v \in Worker, NEW s \in call'[u].on \cap call'[v].on,
                      Derived(s), s \notin spoiled'
               PROVE  u = v
    BY DEF Alone, Derived
  <2>4. CASE u # w /\ v # w BY <1>3, <2>2, <2>4 DEF CommunityInv, Alone
  <2>5. CASE u = w /\ v # w BY <1>3, <1>4, <2>1, <2>3, <2>5
  <2>6. CASE u # w /\ v = w BY <1>3, <1>4, <2>1, <2>3, <2>6
  <2> QED BY <2>4, <2>5, <2>6
<1>8. n # Idle BY <1>4, IdleCall
<1> QED BY <1>3, <1>5, <1>6, <1>7, <1>8, MoveKept DEF Step

\* Nothing has the name of a request that begins.
LEMMA NewId ==
    ASSUME CommunityInv, requests < MaxRequests
    PROVE  LET i == requests + 1
           IN  /\ requests \in Nat /\ i # Nothing
               /\ ~Has(Thread(i)) /\ ~Has(Post(i)) /\ (\A t : ~Has(PostIn(t, i)))
               /\ ~Has(Addon(i)) /\ ~HasLinks(i) /\ \A u : ~Has(Vote(PostVotes(i), u))
<1> DEFINE i == requests + 1
<1>1. requests \in Nat BY DEF CommunityInv, CallsInv
<1>2. i \notin Known /\ i # Nothing BY <1>1, TableConstants DEF Known, Nothing
<1> HIDE DEF i
<1>3. ~Has(Thread(i)) BY <1>2 DEF CommunityInv, Threads, ThreadRows
<1>4. ~Has(Post(i)) /\ \A t : ~Has(PostIn(t, i)) BY <1>2 DEF CommunityInv, Posts, OwnRows, CopyRows
<1>5. ~Has(Addon(i)) BY <1>2 DEF CommunityInv, Addons, AddonRows
<1>6. ~HasLinks(i) BY <1>2 DEF CommunityInv, Links
<1>7. \A u : ~Has(Vote(PostVotes(i), u)) BY <1>4 DEF CommunityInv, VotesInv, VotedPosts
<1> QED BY <1>1, <1>2, <1>3, <1>4, <1>5, <1>6, <1>7 DEF i

LEMMA BeganFacts ==
    ASSUME CommunityInv, NEW w \in Worker, NEW op, NEW on, NEW arg, NEW at, Begin(w, op, on, arg, at)
    PROVE  /\ requests \in Nat /\ requests < MaxRequests /\ requests' = requests + 1
           /\ requests + 1 \in 1..requests' /\ items' = items
           /\ Known \subseteq Known' /\ KnownOrNothing \subseteq KnownOrNothing'
<1>1. requests \in Nat BY DEF CommunityInv, CallsInv
<1>2. requests < MaxRequests /\ requests' = requests + 1 /\ items' = items BY DEF Begin
<1> QED BY <1>1, <1>2, KnownStays

LEMMA ServeFacts ==
    ASSUME NEW w, NEW op, NEW on, NEW arg, NEW at, NEW repairs, Serve(w, op, on, arg, at, repairs)
    PROVE  Begin(w, op, on, arg, at) /\ Spoils(on)
<1>1. PICK gone \in SUBSET on : spoiled' = (spoiled \ gone) \cup {s \in on : ~AtRest(s)}
  <2>1. CASE repairs BY <2>1 DEF Serve
  <2>2. CASE ~repairs
    <3>1. spoiled' = (spoiled \ {}) \cup {s \in on : ~AtRest(s)} BY <2>2 DEF Serve
    <3> QED BY <3>1
  <2> QED BY <2>1, <2>2
<1>2. \A s \in on : ~AtRest(s) => s \in spoiled' BY <1>1
<1> QED BY <1>1, <1>2 DEF Serve, Spoils

-----------------------------------------------------------------------------

LEMMA CreateTagKept ==
    ASSUME CommunityInv, NEW w \in Worker, NEW g, CreateTag(w, g)
    PROVE  CommunityInv'
<1>1. PICK n : n = NewCall("tag", {}, <<g>>, "put") OBVIOUS
<1>2. Begin(w, "tag", {}, <<g>>, "put") /\ spoiled' = spoiled BY DEF CreateTag
<1>3. n.op = "tag" /\ n.at = "put" /\ n.on = {} /\ n.todo = <<>> /\ n.id = requests + 1
  BY <1>1 DEF NewCall
<1>4. Request(n)' BY <1>2, <1>3, BeganFacts DEF Request, TagCall, Ops, ByHandOps
<1>5. Facts(n)'
  BY <1>3 DEF Facts, ThreadFacts, PostFacts, TextFacts, VoteFacts, AddonFacts, LinkFacts, ByHandOps
<1>6. Spoils({}) BY <1>2 DEF Spoils
<1> QED BY <1>1, <1>2, <1>4, <1>5, <1>6, BeginKept

LEMMA CreateThreadKept ==
    ASSUME CommunityInv, NEW w \in Worker, NEW tags \in SUBSET Tag, NEW links \in SUBSET Content,
           CreateThread(w, tags, links)
    PROVE  CommunityInv'
<1>1. PICK on : on = {Replies(requests + 1)} OBVIOUS
<1>2. PICK n : n = NewCall("thread", on, <<tags, links>>, "put") OBVIOUS
<1>3. Begin(w, "thread", on, <<tags, links>>, "put") /\ spoiled' = spoiled
  BY <1>1 DEF CreateThread
<1>4. /\ n.op = "thread" /\ n.at = "put" /\ n.on = {Replies(n.id)} /\ n.todo = <<>>
      /\ n.id = requests + 1 /\ n.arg[1] = tags /\ n.arg[2] = links
  BY <1>1, <1>2 DEF NewCall
<1>5. Request(n)' BY <1>3, <1>4, BeganFacts DEF Request, ThreadCall, Ops, ByHandOps, Replies
<1>6. Facts(n)'
  <2>1. items' = items /\ ~Has(Thread(n.id)) /\ ~HasLinks(n.id) BY <1>3, <1>4, BeganFacts, NewId
  <2>2. ThreadFacts(n)' BY <1>4, <2>1 DEF ThreadFacts, Unborn, Has
  <2>3. LinkFacts(n)' BY <1>4, <2>1 DEF LinkFacts, HasLinks, Has, LinkKeys, TagOf, Tagged, Link, Linked
  <2> QED BY <1>4, <2>2, <2>3 DEF Facts, PostFacts, TextFacts, VoteFacts, AddonFacts, ByHandOps
<1>7. Spoils(on) BY <1>1, <1>3 DEF Spoils, Derived, Replies
<1> QED BY <1>2, <1>3, <1>5, <1>6, <1>7, BeginKept

LEMMA ReadKept ==
    ASSUME CommunityInv, NEW w \in Worker, NEW t, ReadThread(w, t) \/ UpdateThread(w, t)
    PROVE  CommunityInv'
<1>1. PICK op \in {"view", "edit"} : Begin(w, op, {}, <<t>>, "read") /\ spoiled' = spoiled
  BY DEF ReadThread, UpdateThread
<1>2. PICK n : n = NewCall(op, {}, <<t>>, "read") OBVIOUS
<1>3. n.op = op /\ n.at = "read" /\ n.on = {} /\ n.todo = <<>> /\ n.id = requests + 1
  BY <1>2 DEF NewCall
<1>4. Request(n)'
  BY <1>1, <1>3, BeganFacts DEF Request, ViewCall, EditCall, Ops, ByHandOps
<1>5. Facts(n)'
  BY <1>3 DEF Facts, ThreadFacts, PostFacts, TextFacts, VoteFacts, AddonFacts, LinkFacts, ByHandOps
<1>6. Spoils({}) BY <1>1 DEF Spoils
<1> QED BY <1>1, <1>2, <1>4, <1>5, <1>6, BeginKept

LEMMA CreatePostKept ==
    ASSUME CommunityInv, NEW w \in Worker, NEW t \in Named(Thread), CreatePost(w, t)
    PROVE  CommunityInv'
<1>1. PICK on : on = {Replies(t), PostText(requests + 1), PostVotes(requests + 1)} OBVIOUS
<1>2. Begin(w, "reply", on, <<t>>, "thread") /\ Spoils(on) BY <1>1, ServeFacts DEF CreatePost
<1>3. PICK n : n = NewCall("reply", on, <<t>>, "thread") OBVIOUS
<1>4. /\ n.op = "reply" /\ n.at = "thread" /\ n.on = on /\ n.todo = <<>>
      /\ n.id = requests + 1 /\ n.arg[1] = t
  BY <1>3 DEF NewCall
<1>5. t \in KnownOrNothing'
  BY <1>2, BeganFacts DEF Named, CommunityInv, Threads, ThreadRows, KnownOrNothing
<1>6. Request(n)'
  BY <1>1, <1>2, <1>4, <1>5, BeganFacts DEF Request, ReplyCall, Ops, ByHandOps, Replies, PostText,
                                            PostVotes
<1>7. Facts(n)'
  <2>1. PICK p : p = n.id OBVIOUS
  <2>2. items' = items /\ ~Has(Post(p)) /\ (\A o : ~Has(PostIn(o, p)))
        /\ \A u : ~Has(Vote(PostVotes(p), u))
    BY <1>2, <1>4, <2>1, BeganFacts, NewId
  <2>3. ~Has(Post(p))' /\ (\A o : ~Has(PostIn(o, p))') /\ \A u : ~Has(Vote(PostVotes(p), u))'
    BY <2>2 DEF Has
  <2>4. ThreadFacts(n)' BY <1>4 DEF ThreadFacts
  <2>5. PostFacts(n)' BY <1>4, <2>1, <2>3 DEF PostFacts, ReplyOf, OwnLeft
  <2>6. TextFacts(n)' BY <1>4, <2>1, <2>3 DEF TextFacts
  <2>7. VoteFacts(n)' BY <1>4, <2>1, <2>3 DEF VoteFacts, Unvoted
  <2> QED BY <1>4, <2>4, <2>5, <2>6, <2>7 DEF Facts, AddonFacts, LinkFacts, ByHandOps
<1> QED BY <1>2, <1>3, <1>6, <1>7, BeginKept

LEMMA UpdatePostKept ==
    ASSUME CommunityInv, NEW w \in Worker, NEW p \in Shown, UpdatePost(w, p)
    PROVE  CommunityInv'
<1>1. PICK on : on = {PostText(p)} OBVIOUS
<1>2. Begin(w, "rewrite", on, <<p>>, "read") /\ Spoils(on) BY <1>1, ServeFacts DEF UpdatePost
<1>3. PICK n : n = NewCall("rewrite", on, <<p>>, "read") OBVIOUS
<1>4. /\ n.op = "rewrite" /\ n.at = "read" /\ n.on = on /\ n.todo = <<>>
      /\ n.id = requests + 1 /\ n.arg[1] = p
  BY <1>3 DEF NewCall
<1>5. PICK t : Has(PostIn(t, p)) BY DEF Shown
<1>6. p \in Known' BY <1>2, <1>5, BeganFacts DEF CommunityInv, Posts, CopyRows
<1>7. Request(n)'
  BY <1>1, <1>2, <1>4, <1>6, BeganFacts DEF Request, RewriteCall, Ops, ByHandOps, PostText
<1>8. Facts(n)'
  <2>1. Has(PostIn(t, p))' BY <1>2, <1>5, BeganFacts DEF Has
  <2>2. PostFacts(n)' BY <1>4, <2>1 DEF PostFacts, SetsRows
  <2>3. TextFacts(n)' BY <1>4 DEF TextFacts
  <2> QED BY <1>4, <2>2, <2>3 DEF Facts, ThreadFacts, VoteFacts, AddonFacts, LinkFacts, ByHandOps
<1> QED BY <1>2, <1>3, <1>7, <1>8, BeginKept

LEMMA VoteOnKept ==
    ASSUME CommunityInv, NEW w \in Worker, NEW u \in User, NEW s, NEW value, VoteOn(w, u, s, value),
           \/ \E t \in Named(Thread) : s = ThreadVotes(t)
           \/ \E p \in Shown : s = PostVotes(p)
    PROVE  CommunityInv'
<1>1. PICK on, arg : on = {s} /\ arg = <<s, u, value>> OBVIOUS
<1>2. Begin(w, "vote", on, arg, "put") /\ Spoils(on) BY <1>1, ServeFacts DEF VoteOn
<1>3. PICK n : n = NewCall("vote", on, arg, "put") OBVIOUS
<1>4. /\ n.op = "vote" /\ n.at = "put" /\ n.on = {s} /\ n.todo = <<>> /\ n.id = requests + 1
      /\ n.arg = <<s, u, value>> /\ n.arg[1] = s /\ n.arg[2] = u /\ n.arg[3] = value
  BY <1>1, <1>3 DEF NewCall
<1>5. \/ \E t \in KnownOrNothing' : s = ThreadVotes(t) /\ (Has(Thread(t))' \/ t = Nothing)
      \/ \E p \in Known' : s = PostVotes(p) /\ \E t : Has(PostIn(t, p))'
  <2>1. ASSUME NEW t \in Named(Thread)
        PROVE  t \in KnownOrNothing' /\ (Has(Thread(t))' \/ t = Nothing)
    BY <1>2, BeganFacts DEF Named, CommunityInv, Threads, ThreadRows, KnownOrNothing, Has
  <2>2. ASSUME NEW p \in Shown PROVE p \in Known' /\ \E t : Has(PostIn(t, p))'
    BY <1>2, BeganFacts DEF Shown, CommunityInv, Posts, CopyRows, Has
  <2> QED BY <2>1, <2>2
<1>6. Request(n)'
  <2>1. VoteCall(n)' BY <1>4, <1>5 DEF VoteCall, ThreadVotes, PostVotes
  <2> QED BY <1>2, <1>4, <2>1, BeganFacts DEF Request, Ops, ByHandOps
<1>7. Facts(n)'
  <2>1. \A t : ThreadVotes(t)[1] = "thread" /\ ThreadVotes(t)[2] = t BY DEF ThreadVotes
  <2>2. \A p : PostVotes(p)[1] = "post" /\ PostVotes(p)[2] = p BY DEF PostVotes
  <2>3. s[1] = "post" => \E t : Has(PostIn(t, s[2]))' BY <1>5, <2>1, <2>2
  <2>4. s[1] = "thread" => Has(Thread(s[2]))' \/ s[2] = Nothing BY <1>5, <2>1, <2>2
  <2>5. PostFacts(n)' BY <1>4, <2>3 DEF PostFacts, SetsRows
  <2>6. VoteFacts(n)' BY <1>4, <2>4 DEF VoteFacts, Counting, Nothing
  <2> QED BY <1>4, <2>5, <2>6 DEF Facts, ThreadFacts, TextFacts, AddonFacts, LinkFacts, ByHandOps
<1> QED BY <1>2, <1>3, <1>6, <1>7, BeginKept

LEMMA CreateAddonKept ==
    ASSUME CommunityInv, NEW w \in Worker, NEW u \in User, NEW kind \in Kinds, CreateAddon(w, u, kind)
    PROVE  CommunityInv'
<1>1. PICK n : n = NewCall("addon", {}, <<u, kind>>, "put") OBVIOUS
<1>2. Begin(w, "addon", {}, <<u, kind>>, "put") /\ spoiled' = spoiled BY DEF CreateAddon
<1>3. /\ n.op = "addon" /\ n.at = "put" /\ n.on = {} /\ n.todo = <<>> /\ n.id = requests + 1
      /\ n.arg[1] = u /\ n.arg[2] = kind
  BY <1>1 DEF NewCall
<1>4. Request(n)' BY <1>2, <1>3, BeganFacts DEF Request, AddonCall, Ops, ByHandOps
<1>5. ~Has(Addon(n.id))' BY <1>2, <1>3, BeganFacts, NewId DEF Has
<1>6. AddonFacts(n)' BY <1>3, <1>5 DEF AddonFacts, ByHandOps
<1>7. Facts(n)'
  BY <1>3, <1>6 DEF Facts, ThreadFacts, PostFacts, TextFacts, VoteFacts, LinkFacts
<1>8. Spoils({}) BY <1>2 DEF Spoils
<1> QED BY <1>1, <1>2, <1>4, <1>7, <1>8, BeginKept

LEMMA NamedAddon ==
    ASSUME CommunityInv, NEW a \in Named(Addon)
    PROVE  a \in KnownOrNothing /\ (Has(Addon(a)) \/ a = Nothing)
BY DEF Named, CommunityInv, Addons, AddonRows, KnownOrNothing

LEMMA ByHandKept ==
    ASSUME CommunityInv, NEW w \in Worker, NEW a \in Named(Addon), NEW op \in ByHandOps, NEW arg,
           ByHand(w, op, a, arg), arg[1] = a, op = "patch" => arg[3] \in 0..MaxCards
    PROVE  CommunityInv'
<1>1. PICK on : on = {AddonDeck(a)} OBVIOUS
<1>2. Begin(w, op, on, arg, "go") /\ spoiled' = spoiled \cup on BY <1>1 DEF ByHand
<1>3. PICK n : n = NewCall(op, on, arg, "go") OBVIOUS
<1>4. /\ n.op = op /\ n.at = "go" /\ n.on = on /\ n.todo = <<>> /\ n.id = requests + 1 /\ n.arg = arg
  BY <1>3 DEF NewCall
<1>5. a \in KnownOrNothing' /\ (Has(Addon(a))' \/ a = Nothing)
  BY <1>2, NamedAddon, BeganFacts DEF Has
<1>6. Request(n)'
  BY <1>1, <1>2, <1>4, <1>5, BeganFacts DEF Request, HandCall, Ops, ByHandOps, AddonDeck
<1>7. AddonFacts(n)' BY <1>1, <1>2, <1>4, <1>5 DEF AddonFacts, AddonDeck, ByHandOps, Nothing
<1>8. Facts(n)'
  BY <1>4, <1>7 DEF Facts, ThreadFacts, PostFacts, TextFacts, VoteFacts, LinkFacts, ByHandOps
<1>9. Spoils(on) BY <1>2 DEF Spoils
<1>10. op # "idle" BY DEF ByHandOps
<1> QED BY <1>2, <1>3, <1>6, <1>8, <1>9, <1>10, BeginKept

LEMMA HandsKept ==
    ASSUME CommunityInv, NEW w \in Worker, NEW u, NEW a \in Named(Addon), NEW c \in 0..MaxCards,
           UpdateAddon(w, u, a, c) \/ StoreMarkdown(w, a, c) \/ DeleteMarkdown(w, a)
    PROVE  CommunityInv'
<1>1. CASE UpdateAddon(w, u, a, c)
  <2>1. PICK arg : arg = <<a, u, c>> OBVIOUS
  <2>2. arg[1] = a /\ arg[3] \in 0..MaxCards BY <2>1
  <2>3. ByHand(w, "patch", a, arg) BY <1>1, <2>1 DEF UpdateAddon
  <2>4. "patch" \in ByHandOps BY DEF ByHandOps
  <2> QED BY <2>2, <2>3, <2>4, ByHandKept
<1>2. CASE StoreMarkdown(w, a, c)
  <2>1. PICK arg : arg = <<a, c>> OBVIOUS
  <2>2. arg[1] = a BY <2>1
  <2>3. ByHand(w, "store", a, arg) BY <1>2, <2>1 DEF StoreMarkdown
  <2>4. "store" \in ByHandOps BY DEF ByHandOps
  <2> QED BY <2>2, <2>3, <2>4, ByHandKept
<1>3. CASE DeleteMarkdown(w, a)
  <2>1. PICK arg : arg = <<a>> OBVIOUS
  <2>2. arg[1] = a BY <2>1
  <2>3. ByHand(w, "erase", a, arg) BY <1>3, <2>1 DEF DeleteMarkdown
  <2>4. "erase" \in ByHandOps BY DEF ByHandOps
  <2> QED BY <2>2, <2>3, <2>4, ByHandKept
<1> QED BY <1>1, <1>2, <1>3

LEMMA PutAddonDeckKept ==
    ASSUME CommunityInv, NEW w \in Worker, NEW u, NEW a \in Named(Addon), NEW c \in 0..MaxCards,
           PutAddonDeck(w, u, a, c)
    PROVE  CommunityInv'
<1>1. PICK on, arg, repairs : on = {AddonDeck(a)} /\ arg = <<a, u, c>> /\ repairs = MayPutDeck(u, a)
  OBVIOUS
<1>2. Serve(w, "deck", on, arg, "addon", repairs) BY <1>1 DEF PutAddonDeck
<1>3. Begin(w, "deck", on, arg, "addon") /\ Spoils(on) BY <1>2, ServeFacts
<1>4. PICK n : n = NewCall("deck", on, arg, "addon") OBVIOUS
<1>5. /\ n.op = "deck" /\ n.at = "addon" /\ n.on = on /\ n.todo = <<>> /\ n.id = requests + 1
      /\ n.arg[1] = a /\ n.arg[2] = u /\ n.arg[3] = c
  BY <1>1, <1>4 DEF NewCall
<1>6. a \in KnownOrNothing' /\ (Has(Addon(a))' \/ a = Nothing) /\ items' = items
  BY <1>3, NamedAddon, BeganFacts DEF Has
<1>7. Request(n)'
  BY <1>1, <1>3, <1>5, <1>6, BeganFacts DEF Request, DeckCall, Ops, ByHandOps, AddonDeck
<1>8. ASSUME AddonDeck(a) \notin spoiled' PROVE DeckFacts(n)'
  <2>1. ASSUME ~MayPutDeck(u, a) PROVE CardsCounted(a)
    <3>1. spoiled' = spoiled \cup {s \in on : ~AtRest(s)} BY <1>1, <1>2, <2>1 DEF Serve
    <3>2. Settled(AddonDeck(a)) BY <1>1, <1>8, <3>1 DEF Settled
    <3> QED BY <3>2 DEF CommunityInv, Addons, DecksCounted
  <2>2. MayPutDeck(u, a)' <=> MayPutDeck(u, a) BY <1>6 DEF MayPutDeck, Owns, Has
  <2>3. CardsCounted(a) => CardsCounted(a)' BY <1>6 DEF CardsCounted, Has
  <2>4. n.todo # CountLeft(n)' BY <1>5 DEF CountLeft
  <2> QED BY <1>5, <2>1, <2>2, <2>3, <2>4 DEF DeckFacts, CountLeft, SetCount
<1>9. AddonFacts(n)' BY <1>5, <1>6, <1>8 DEF AddonFacts, ByHandOps, AddonDeck, Nothing
<1>10. Facts(n)'
  BY <1>5, <1>9 DEF Facts, ThreadFacts, PostFacts, TextFacts, VoteFacts, LinkFacts
<1> QED BY <1>3, <1>4, <1>7, <1>10, BeginKept

-----------------------------------------------------------------------------
(* Requests that make a plan, keep what they read, or answer.              *)

LEMMA AppendThree ==
    ASSUME NEW s, NEW a, NEW b, NEW c, s = <<a, b, c>>, NEW x
    PROVE  LET t == Append(s, x)
           IN  t[1] = a /\ t[2] = b /\ t[3] = c /\ t[4] = x
<1>1. s \in Seq({a, b, c, x}) /\ Len(s) = 3 OBVIOUS
<1> QED BY <1>1

LEMMA Subjects ==
    /\ \A i : Replies(i)[1] = "replies" /\ Replies(i)[2] = i
    /\ \A i : PostText(i)[1] = "text" /\ PostText(i)[2] = i
    /\ \A i : PostVotes(i)[1] = "post" /\ PostVotes(i)[2] = i
    /\ \A i : ThreadVotes(i)[1] = "thread" /\ ThreadVotes(i)[2] = i
    /\ \A i : AddonDeck(i)[1] = "addon" /\ AddonDeck(i)[2] = i
BY DEF Replies, PostText, PostVotes, ThreadVotes, AddonDeck

\* The request of the worker is at a point of the operation, with nothing to write.
Doing(w, k, op, at) ==
    /\ k = call[w] /\ k.op = op /\ k.at = at /\ k.todo = <<>>
    /\ Request(k) /\ Facts(k)

Planning(w, k, n, todo, at) ==
    /\ Moves(w, k, n) /\ Stays /\ SameCall(k, n)
    /\ n.arg = k.arg /\ n.todo = todo /\ n.at = at

LEMMA DoingIt ==
    ASSUME CommunityInv, NEW w \in Worker, NEW op, NEW at, At(w, op, at)
    PROVE  \E k : Doing(w, k, op, at)
BY DEF CommunityInv, CallsInv, Threads, Posts, Texts, VotesInv, Addons, Links, Facts, Doing, At

LEMMA PlansOn ==
    ASSUME CommunityInv, NEW w \in Worker, NEW op, op # "idle", NEW at, NEW k, Doing(w, k, op, at),
           NEW todo, Sequence(todo), NEW to, todo # <<>> \/ to # "done", Proceed(w, todo, to),
           spoiled' = spoiled
    PROVE  \E n : Planning(w, k, n, todo, to)
<1>1. CallsOK /\ requests \in Nat BY DEF CommunityInv, CallsInv
<1>2. Shaped(k) BY <1>1 DEF Doing, CallsOK
<1>3. call[w].op # "idle" BY DEF Doing
<1>4. /\ CallsOK' /\ call'[w] = Onward(k, todo, to)
      /\ \A v \in Worker \ {w} : call'[v] = call[v]
      /\ items' = items /\ requests' = requests /\ torn' = torn
  BY <1>1, <1>3, ProceedFacts DEF Doing
<1>5. PICK n : n = call'[w] OBVIOUS
<1>6. n = With(k, todo, to) BY <1>2, <1>4, <1>5, OnwardWith
<1>7. n.todo = todo /\ n.at = to /\ n.op = k.op /\ n.id = k.id /\ n.on = k.on /\ n.arg = k.arg
  BY <1>6 DEF With
<1> QED BY <1>1, <1>3, <1>4, <1>5, <1>7 DEF Planning, Moves, Stays, SameCall, Doing

LEMMA FactsStand ==
    ASSUME Stays, requests \in Nat, NEW n, Request(n), Facts(n)
    PROVE  Request(n)' /\ Facts(n)'
<1>1. KeptThreads /\ KeptOwn /\ KeptCopies /\ KeptVotes /\ KeptAddons /\ KeptLinks
  BY NothingWritten DEF Stays
<1>2. GrowThreads /\ SamePlaces /\ KeptTexts /\ KeptPostTallies BY <1>1, ThreadsSame, PostsSame
<1>3. Request(n)' BY RequestStays DEF Stays
<1>4. ThreadFacts(n)' BY DEF Facts, ThreadFacts, Unborn, Stays, Has
<1>5. PostFacts(n)' BY <1>2, IdleCall, PlacesStay, PostFactsStay DEF Facts
<1>6. TextFacts(n)'
  <2>1. \A p : TextSame(p) BY <1>2, TextsSame
  <2> QED BY <2>1, TextFactsStay DEF Facts, Stays
<1>7. VoteFacts(n)'
  <2>1. \A p : PostTallySame(p) BY <1>2, TalliesSame
  <2>2. \A s : VotesSame(s) BY <1>1 DEF KeptVotes, VotesSame
  <2> QED BY <1>2, <2>1, <2>2, VoteFactsStay DEF Facts, Stays
<1>8. AddonFacts(n)'
  <2>1. AddonsGrow(Idle) BY <1>1 DEF KeptAddons, AddonsGrow, SameAt, Has
  <2>2. \A a : DeckSame(a) BY <1>1 DEF KeptAddons, DeckSame
  <2>3. n.op \in ByHandOps => AddonDeck(n.arg[1]) \in spoiled' BY DEF Facts, AddonFacts, Stays
  <2> QED BY <2>1, <2>2, <2>3, IdleCall, AddonFactsStay DEF Facts, Stays
<1>9. LinkFacts(n)'
  <2>1. HasLinks(n.id)' <=> HasLinks(n.id)
    BY DEF HasLinks, LinkKeys, TagOf, Tagged, Link, Linked, Stays, Has
  <2>2. \A key : Will(n, key)' <=> Will(n, key) BY DEF Will, Stays, Has
  <2>3. BothWill(n) => BothWill(n)' BY <2>2 DEF BothWill, TagOf, Tagged, Link, Linked, Will
  <2> QED BY <2>1, <2>3 DEF Facts, LinkFacts
<1> QED BY <1>3, <1>4, <1>5, <1>6, <1>7, <1>8, <1>9 DEF Facts

LEMMA PlanKept ==
    ASSUME CommunityInv, NEW w \in Worker, NEW k, NEW n, NEW todo, NEW at,
           Planning(w, k, n, todo, at), Request(n), Facts(n)
    PROVE  CommunityInv'
<1>1. requests \in Nat BY DEF CommunityInv, CallsInv
<1>2. Request(n)' /\ Facts(n)' BY <1>1, FactsStand DEF Planning
<1> QED BY <1>2, GoesOn DEF Planning

LEMMA AnswerKept ==
    ASSUME CommunityInv, NEW w \in Worker, NEW op, op # "idle", NEW at, NEW k, Doing(w, k, op, at),
           Answer(w), spoiled' = spoiled, EndsWell(k)
    PROVE  CommunityInv'
<1>1. CallsOK /\ requests \in Nat BY DEF CommunityInv, CallsInv
<1>2. /\ CallsOK' /\ call'[w] = Idle
      /\ \A v \in Worker \ {w} : call'[v] = call[v]
      /\ items' = items /\ requests' = requests /\ torn' = torn
  BY <1>1, AnswerFacts DEF Doing
<1>3. PICK n : n = call'[w] OBVIOUS
<1>4. Moves(w, k, n) BY <1>1, <1>2, <1>3 DEF Moves, Doing
<1> QED BY <1>2, <1>3, <1>4, Ends

\* A plan of one write.
LEMMA OneWrite ==
    ASSUME NEW x
    PROVE  Sequence(<<{x}>>) /\ <<{x}>> # <<>> /\ Planned(<<{x}>>) = {x}
BY OneSet

-----------------------------------------------------------------------------

LEMMA PutRowKept ==
    ASSUME CommunityInv, NEW w \in Worker, PutRow(w)
    PROVE  CommunityInv'
<1>1. CASE At(w, "tag", "put")
  <2>1. PICK k : Doing(w, k, "tag", "put") BY <1>1, DoingIt
  <2>2. PICK todo : todo = <<{Put(TagRow(k.arg[1]), TRUE)}>> OBVIOUS
  <2>3. Proceed(w, todo, "done") /\ spoiled' = spoiled
    BY <1>1, <2>1, <2>2 DEF PutRow, At, Plan, Arg, Doing
  <2>4. Sequence(todo) /\ todo # <<>> BY <2>2, OneWrite
  <2>5. PICK n : Planning(w, k, n, todo, "done") BY <2>1, <2>3, <2>4, PlansOn
  <2>6. n.op = "tag" /\ n.at = "done" /\ n.todo = todo /\ n.id = k.id /\ n.on = k.on /\ n.arg = k.arg
    BY <2>1, <2>5 DEF Planning, SameCall, Doing
  <2>7. Request(n) BY <2>1, <2>2, <2>6 DEF Doing, Request, TagCall, ByHandOps
  <2>8. Facts(n)
    BY <2>6 DEF Facts, ThreadFacts, PostFacts, TextFacts, VoteFacts, AddonFacts, LinkFacts, ByHandOps
  <2> QED BY <2>5, <2>7, <2>8, PlanKept
<1>2. CASE At(w, "thread", "put")
  <2>1. PICK k : Doing(w, k, "thread", "put") BY <1>2, DoingIt
  <2>2. PICK todo : todo = <<{Put(Thread(k.id), NewThread)}>> OBVIOUS
  <2>3. Proceed(w, todo, "tags") /\ spoiled' = spoiled
    BY <1>2, <2>1, <2>2 DEF PutRow, At, Doing
  <2>4. Sequence(todo) /\ todo # <<>> BY <2>2, OneWrite
  <2>5. PICK n : Planning(w, k, n, todo, "tags") BY <2>1, <2>3, <2>4, PlansOn
  <2>6. n.op = "thread" /\ n.at = "tags" /\ n.todo = todo /\ n.id = k.id /\ n.on = k.on /\ n.arg = k.arg
    BY <2>1, <2>5 DEF Planning, SameCall, Doing
  <2>7. k.op = "thread" /\ k.at = "put" /\ Request(k) /\ Facts(k) BY <2>1 DEF Doing
  <2>8. Request(n) BY <2>2, <2>6, <2>7 DEF Request, ThreadCall, ByHandOps
  <2>9. ThreadFacts(n) /\ LinkFacts(n)
    BY <2>4, <2>6, <2>7 DEF Facts, ThreadFacts, LinkFacts, Unborn
  <2>10. Facts(n)
    BY <2>6, <2>9 DEF Facts, PostFacts, TextFacts, VoteFacts, AddonFacts, ByHandOps
  <2> QED BY <2>5, <2>8, <2>10, PlanKept
<1> QED BY <1>1, <1>2 DEF PutRow

LEMMA TouchThreadKept ==
    ASSUME CommunityInv, NEW w \in Worker, TouchThread(w)
    PROVE  CommunityInv'
<1>1. PICK op \in {"view", "edit"} : At(w, op, "read") BY DEF TouchThread
<1>2. PICK k : Doing(w, k, op, "read") BY <1>1, DoingIt
<1>3. k.op = op /\ k.at = "read" /\ Request(k) /\ Facts(k) /\ k.on = {}
  BY <1>2 DEF Doing, Request, ViewCall, EditCall
<1>4. spoiled' = spoiled BY DEF TouchThread
<1>5. CASE Has(Thread(k.arg[1]))
  <2>1. PICK x : x = IF op = "view" THEN UpdateOld(Thread(k.arg[1]), <<>>, [views |-> 1])
                                    ELSE Update(Thread(k.arg[1]), [text |-> "edited"], <<>>)
    OBVIOUS
  <2>2. PICK todo : todo = <<{x}>> OBVIOUS
  <2>3. Proceed(w, todo, "done")
    <3>1. CASE op = "view" BY <1>1, <1>2, <1>5, <2>1, <2>2, <3>1 DEF TouchThread, At, Plan, Arg, Doing
    <3>2. CASE op = "edit" BY <1>1, <1>2, <1>5, <2>1, <2>2, <3>2 DEF TouchThread, At, Plan, Arg, Doing
    <3> QED BY <3>1, <3>2
  <2>4. Sequence(todo) /\ todo # <<>> BY <2>2, OneWrite
  <2>5. PICK n : Planning(w, k, n, todo, "done") BY <1>2, <1>4, <2>3, <2>4, PlansOn
  <2>6. n.op = op /\ n.at = "done" /\ n.todo = todo /\ n.id = k.id /\ n.on = k.on /\ n.arg = k.arg
    BY <1>3, <2>5 DEF Planning, SameCall
  <2>7. Request(n)
    BY <1>3, <2>1, <2>2, <2>6 DEF Request, ViewCall, EditCall, ByHandOps
  <2>8. ThreadFacts(n) BY <1>5, <2>6 DEF ThreadFacts
  <2>9. Facts(n)
    BY <2>6, <2>8 DEF Facts, PostFacts, TextFacts, VoteFacts, AddonFacts, LinkFacts, ByHandOps
  <2> QED BY <2>5, <2>7, <2>9, PlanKept
<1>6. CASE ~Has(Thread(k.arg[1]))
  <2>1. Answer(w) BY <1>1, <1>2, <1>6 DEF TouchThread, At, Arg, Doing
  <2>2. EndsWell(k) BY <1>3 DEF EndsWell
  <2> QED BY <1>2, <1>4, <2>1, <2>2, AnswerKept
<1> QED BY <1>5, <1>6

\* The tags and the links of a new thread: rows put on both sides.
ThreadPlan(t, tags, links) ==
    SetThreadTags(t, tags)
      \o (IF links = {} THEN <<>> ELSE AddContentLink(t, CHOOSE c \in links : TRUE))

PutsLinks(t, todo) == \A x \in Planned(todo) : x.do = "put" /\ x.key \in LinkKeys(t)

PutsBoth(t, todo) ==
    /\ \A g \in Tag : (\E x \in Planned(todo) : x.key = TagOf(t, g))
                       <=> (\E x \in Planned(todo) : x.key = Tagged(g, t))
    /\ \A c \in Content : (\E x \in Planned(todo) : x.key = Link(t, c))
                           <=> (\E x \in Planned(todo) : x.key = Linked(c, t))

LEMMA TagPlan ==
    ASSUME NEW t, NEW tags \in SUBSET Tag, NEW links \in SUBSET Content, ~HasLinks(t), NEW todo,
           todo = ThreadPlan(t, tags, links)
    PROVE  Sequence(todo) /\ PutsLinks(t, todo) /\ PutsBoth(t, todo)
<1>1. {g \in Tag : Has(TagOf(t, g))} = {} BY DEF HasLinks, LinkKeys
<1>2. PICK S : S = UNION {{Put(TagOf(t, g), TRUE), Put(Tagged(g, t), TRUE)} : g \in tags} OBVIOUS
<1>3. SetThreadTags(t, tags) = Batch(S)
  <2>1. UNION {{Delete(TagOf(t, g)), Delete(Tagged(g, t))} : g \in {}} = {} OBVIOUS
  <2>2. tags \ {} = tags /\ {} \ tags = {} OBVIOUS
  <2> QED BY <1>1, <1>2, <2>1, <2>2 DEF SetThreadTags
<1>4. PICK s : s = SetThreadTags(t, tags) OBVIOUS
<1>5. Sequence(s) /\ Planned(s) = S
  <2>1. CASE S = {} BY <1>3, <1>4, <2>1, NoPlan DEF Batch
  <2>2. CASE S # {} BY <1>3, <1>4, <2>2, OneSet DEF Batch
  <2> QED BY <2>1, <2>2
<1>6. PICK r : r = (IF links = {} THEN <<>> ELSE AddContentLink(t, CHOOSE c \in links : TRUE))
  OBVIOUS
<1>7. /\ Sequence(r)
      /\ \/ Planned(r) = {}
         \/ \E c \in Content : Planned(r) = {Put(Link(t, c), TRUE), Put(Linked(c, t), TRUE)}
  <2>1. CASE links = {} BY <1>6, <2>1, NoPlan
  <2>2. CASE links # {}
    <3>1. PICK c : c = CHOOSE l \in links : TRUE OBVIOUS
    <3>2. c \in Content BY <2>2, <3>1
    <3>3. r = <<{Put(Link(t, c), TRUE), Put(Linked(c, t), TRUE)}>>
      BY <1>6, <2>2, <3>1 DEF AddContentLink
    <3> QED BY <3>2, <3>3, OneSet
  <2> QED BY <2>1, <2>2
<1>8. Sequence(todo) /\ Planned(todo) = S \cup Planned(r) BY <1>4, <1>5, <1>6, <1>7, Concat DEF ThreadPlan
<1>9. \A x \in S : \E g \in tags : x = Put(TagOf(t, g), TRUE) \/ x = Put(Tagged(g, t), TRUE)
  BY <1>2
<1>10. ASSUME NEW g \in tags PROVE Put(TagOf(t, g), TRUE) \in S /\ Put(Tagged(g, t), TRUE) \in S
  <2>1. PICK a, b : a = Put(TagOf(t, g), TRUE) /\ b = Put(Tagged(g, t), TRUE) OBVIOUS
  <2>2. {a, b} \subseteq S BY <1>2, <2>1
  <2> QED BY <2>1, <2>2
<1>11. \A x \in Planned(r) : \E c \in Content : x = Put(Link(t, c), TRUE) \/ x = Put(Linked(c, t), TRUE)
  BY <1>7
<1>12. \A key : Put(key, TRUE).key = key /\ Put(key, TRUE).do = "put" BY DEF Put
<1>13. ASSUME NEW x \in Planned(todo) PROVE x.do = "put" /\ x.key \in LinkKeys(t)
  <2>1. CASE x \in S BY <1>9, <1>12, <2>1 DEF LinkKeys
  <2>2. CASE x \in Planned(r) BY <1>11, <1>12, <2>2 DEF LinkKeys
  <2> QED BY <1>8, <2>1, <2>2
<1>14. /\ \A g : TagOf(t, g)[1] = "THREAD_TAG" /\ TagOf(t, g)[3] = g
       /\ \A g : Tagged(g, t)[1] = "TAG_THREAD" /\ Tagged(g, t)[2] = g
       /\ \A c : Link(t, c)[1] = "LINK" /\ Link(t, c)[3] = c
       /\ \A c : Linked(c, t)[1] = "CONTENT_THREAD" /\ Linked(c, t)[2] = c
  BY DEF TagOf, Tagged, Link, Linked
<1>15. ASSUME NEW g \in Tag
       PROVE  (\E x \in Planned(todo) : x.key = TagOf(t, g))
              <=> \E x \in Planned(todo) : x.key = Tagged(g, t)
  <2>1. ASSUME NEW x \in Planned(todo), x.key = TagOf(t, g) \/ x.key = Tagged(g, t) PROVE g \in tags
    <3>1. CASE x \in S
      <4>1. PICK h \in tags : x = Put(TagOf(t, h), TRUE) \/ x = Put(Tagged(h, t), TRUE)
        BY <1>9, <3>1
      <4>2. x.key = TagOf(t, h) \/ x.key = Tagged(h, t) BY <1>12, <4>1
      <4>3. g = h BY <1>14, <2>1, <4>2
      <4> QED BY <4>1, <4>3
    <3>2. CASE x \in Planned(r)
      <4>1. PICK c : x.key = Link(t, c) \/ x.key = Linked(c, t) BY <1>11, <1>12, <3>2
      <4>2. FALSE BY <1>14, <2>1, <4>1
      <4> QED BY <4>2
    <3> QED BY <1>8, <3>1, <3>2
  <2>2. ASSUME g \in tags
        PROVE  (\E x \in Planned(todo) : x.key = TagOf(t, g)) /\ \E x \in Planned(todo) : x.key = Tagged(g, t)
    BY <1>8, <1>10, <1>12, <2>2
  <2> QED BY <2>1, <2>2
<1>16. ASSUME NEW c \in Content
       PROVE  (\E x \in Planned(todo) : x.key = Link(t, c)) <=> \E x \in Planned(todo) : x.key = Linked(c, t)
  <2>1. ASSUME NEW x \in S PROVE x.key # Link(t, c) /\ x.key # Linked(c, t)
    <3>1. PICK h : x.key = TagOf(t, h) \/ x.key = Tagged(h, t) BY <1>9, <1>12
    <3> QED BY <1>14, <3>1
  <2>2. ASSUME NEW d \in Content, Planned(r) = {Put(Link(t, d), TRUE), Put(Linked(d, t), TRUE)}
        PROVE  (\E x \in Planned(r) : x.key = Link(t, c)) <=> \E x \in Planned(r) : x.key = Linked(c, t)
    <3>1. PICK a, b : a = Put(Link(t, d), TRUE) /\ b = Put(Linked(d, t), TRUE) OBVIOUS
    <3>2. a.key = Link(t, d) /\ b.key = Linked(d, t) BY <1>12, <3>1
    <3>0. Link(t, c) = Link(t, d) => c = d BY <1>14
    <3>6. Linked(c, t) = Linked(d, t) => c = d BY <1>14
    <3>7. Link(t, c) # Linked(d, t) /\ Link(t, d) # Linked(c, t) BY <1>14
    <3>8. Planned(r) = {a, b} BY <2>2, <3>1
    <3>3. (\E x \in Planned(r) : x.key = Link(t, c)) <=> c = d
      <4>1. \A x \in Planned(r) : x.key = Link(t, c) => c = d BY <3>0, <3>2, <3>6, <3>7, <3>8
      <4>2. a \in Planned(r) BY <2>2, <3>1
      <4> QED BY <3>2, <4>1, <4>2
    <3>4. (\E x \in Planned(r) : x.key = Linked(c, t)) <=> c = d
      <4>1. \A x \in Planned(r) : x.key = Linked(c, t) => c = d BY <3>0, <3>2, <3>6, <3>7, <3>8
      <4>2. b \in Planned(r) BY <2>2, <3>1
      <4> QED BY <3>2, <4>1, <4>2
    <3> QED BY <3>3, <3>4
  <2>3. (\E x \in Planned(r) : x.key = Link(t, c)) <=> \E x \in Planned(r) : x.key = Linked(c, t)
    BY <1>7, <2>2
  <2> QED BY <1>8, <2>1, <2>3
<1>17. PutsLinks(t, todo) BY <1>13 DEF PutsLinks
<1>18. PutsBoth(t, todo) BY <1>15, <1>16 DEF PutsBoth
<1> QED BY <1>8, <1>17, <1>18

LEMMA NoLinks ==
    ASSUME NEW t, ~HasLinks(t)
    PROVE  /\ BothOrNone(t)
           /\ \A g \in Tag : ~Has(TagOf(t, g)) /\ ~Has(Tagged(g, t))
           /\ \A c \in Content : ~Has(Link(t, c)) /\ ~Has(Linked(c, t))
<1>1. /\ \A g \in Tag : TagOf(t, g) \in LinkKeys(t) /\ Tagged(g, t) \in LinkKeys(t)
      /\ \A c \in Content : Link(t, c) \in LinkKeys(t) /\ Linked(c, t) \in LinkKeys(t)
  BY DEF LinkKeys
<1>2. \A key \in LinkKeys(t) : ~Has(key) BY DEF HasLinks
<1> QED BY <1>1, <1>2 DEF BothOrNone

LEMMA TagAndLinkKept ==
    ASSUME CommunityInv, NEW w \in Worker, TagAndLink(w)
    PROVE  CommunityInv'
<1>1. At(w, "thread", "tags") /\ spoiled' = spoiled BY DEF TagAndLink
<1>2. PICK k : Doing(w, k, "thread", "tags") BY <1>1, DoingIt
<1>3. /\ k.op = "thread" /\ k.at = "tags" /\ k.todo = <<>> /\ Request(k) /\ Facts(k) /\ k.id = call[w].id
      /\ k.arg = call[w].arg /\ k.on = {Replies(k.id)}
      /\ k.arg[1] \in SUBSET Tag /\ k.arg[2] \in SUBSET Content
  BY <1>2 DEF Doing, Request, ThreadCall
<1>4. Has(Thread(k.id)) /\ ~HasLinks(k.id) BY <1>3 DEF Facts, ThreadFacts, LinkFacts, Unborn
<1>5. PICK todo : todo = ThreadPlan(k.id, k.arg[1], k.arg[2]) OBVIOUS
<1>6. Proceed(w, todo, "done") BY <1>3, <1>5 DEF TagAndLink, Plan, Arg, ThreadPlan
<1>7. Sequence(todo) /\ PutsLinks(k.id, todo) /\ PutsBoth(k.id, todo)
  BY <1>3, <1>4, <1>5, TagPlan
<1>8. CASE todo = <<>>
  <2>1. Answer(w) BY <1>6, <1>8 DEF Answer
  <2>2. EndsWell(k)
    <3>1. BothOrNone(k.id) BY <1>4, NoLinks
    <3>2. \A s \in k.on : s[1] = "replies" BY <1>3, Subjects
    <3> QED BY <1>3, <3>1, <3>2, Subjects DEF EndsWell
  <2> QED BY <1>1, <1>2, <2>1, <2>2, AnswerKept
<1>9. CASE todo # <<>>
  <2>1. PICK n : Planning(w, k, n, todo, "done") BY <1>1, <1>2, <1>6, <1>7, <1>9, PlansOn
  <2>2. n.op = "thread" /\ n.at = "done" /\ n.todo = todo /\ n.id = k.id /\ n.on = k.on /\ n.arg = k.arg
    BY <1>3, <2>1 DEF Planning, SameCall
  <2>3. Request(n)
    <3>1. ThreadCall(n) BY <1>3, <1>7, <2>2 DEF Request, ThreadCall, PutsLinks
    <3> QED BY <1>3, <2>2, <3>1 DEF Request, ByHandOps
  <2>4. BothWill(n)
    <3>1. \A g \in Tag : ~Has(TagOf(k.id, g)) /\ ~Has(Tagged(g, k.id)) BY <1>4, NoLinks
    <3>2. \A c \in Content : ~Has(Link(k.id, c)) /\ ~Has(Linked(c, k.id)) BY <1>4, NoLinks
    <3> QED BY <1>7, <2>2, <3>1, <3>2 DEF BothWill, Will, PutsBoth
  <2>5. ThreadFacts(n) /\ LinkFacts(n) BY <1>4, <2>2, <2>4 DEF ThreadFacts, LinkFacts, Unborn
  <2>6. Facts(n)
    BY <2>2, <2>5 DEF Facts, PostFacts, TextFacts, VoteFacts, AddonFacts, ByHandOps
  <2> QED BY <2>1, <2>3, <2>6, PlanKept
<1> QED BY <1>8, <1>9

-----------------------------------------------------------------------------

LEMMA ReplyPlanned ==
    ASSUME NEW a, NEW b, NEW c
    PROVE  LET todo == <<{a, b}, {c}>>
           IN  Sequence(todo) /\ todo # <<>> /\ Planned(todo) = {a, b, c}
<1> DEFINE todo == <<{a, b}, {c}>>
<1>1. todo \in Seq({{a, b}, {c}}) OBVIOUS
<1>2. Len(todo) = 2 /\ DOMAIN todo = {1, 2} /\ todo[1] = {a, b} /\ todo[2] = {c} OBVIOUS
<1> HIDE DEF todo
<1>3. Sequence(todo) BY <1>1, SequenceOf
<1>4. Planned(todo) = {a, b, c} BY <1>2 DEF Planned
<1>5. todo # <<>> BY <1>2
<1> QED BY <1>3, <1>4, <1>5 DEF todo

LEMMA PutPostKept ==
    ASSUME CommunityInv, NEW w \in Worker, PutPost(w)
    PROVE  CommunityInv'
<1>1. At(w, "reply", "thread") /\ spoiled' = spoiled BY DEF PutPost
<1>2. PICK k : Doing(w, k, "reply", "thread") BY <1>1, DoingIt
<1>3. /\ k.op = "reply" /\ k.at = "thread" /\ k.todo = <<>> /\ Request(k) /\ Facts(k)
      /\ k.id = call[w].id /\ k.arg = call[w].arg
      /\ k.on = {Replies(k.arg[1]), PostText(k.id), PostVotes(k.id)}
  BY <1>2 DEF Doing, Request, ReplyCall
<1>4. ~Has(Post(k.id)) /\ \A t : ~Has(PostIn(t, k.id))
  BY <1>3 DEF Facts, PostFacts, ReplyOf, OwnLeft, CopyLeft
<1>5. CASE ~Has(Thread(k.arg[1]))
  <2>1. Answer(w) BY <1>3, <1>5 DEF PutPost, Arg
  <2>2. EndsWell(k)
    <3>1. \A p : PostText(p) \in k.on => p = k.id BY <1>3, Subjects
    <3>2. \A p : PostVotes(p) \in k.on => p = k.id BY <1>3, Subjects
    <3>3. \A i : ThreadVotes(i) \notin k.on /\ AddonDeck(i) \notin k.on BY <1>3, Subjects
    <3> QED BY <1>3, <1>4, <3>1, <3>2, <3>3 DEF EndsWell
  <2> QED BY <1>1, <1>2, <2>1, <2>2, AnswerKept
<1>6. CASE Has(Thread(k.arg[1]))
  <2>1. PICK todo : todo = ReplyPlan(k, {PutCopy(k), PutOwn(k)}) OBVIOUS
  <2>2. Proceed(w, todo, "done")
    BY <1>3, <1>6, <2>1 DEF PutPost, Arg, Plan, ReplyPlan, PutCopy, PutOwn
  <2>3. Sequence(todo) /\ todo # <<>> /\ PutCopy(k) \in Planned(todo) /\ PutOwn(k) \in Planned(todo)
    BY <2>1, ReplyPlanned DEF ReplyPlan
  <2>4. PICK n : Planning(w, k, n, todo, "done") BY <1>1, <1>2, <2>2, <2>3, PlansOn
  <2>5. n.op = "reply" /\ n.at = "done" /\ n.todo = todo /\ n.id = k.id /\ n.on = k.on /\ n.arg = k.arg
    BY <1>3, <2>4 DEF Planning, SameCall
  <2>6. PutCopy(n) = PutCopy(k) /\ PutOwn(n) = PutOwn(k) BY <2>5 DEF PutCopy, PutOwn
  <2>7. Request(n)
    <3>1. n.todo = ReplyPlan(n, {PutCopy(n), PutOwn(n)}) BY <2>1, <2>5, <2>6 DEF ReplyPlan
    <3>2. ReplyCall(n) BY <1>3, <2>5, <3>1 DEF Request, ReplyCall
    <3> QED BY <1>3, <2>5, <3>2 DEF Request, ByHandOps
  <2>8. ThreadFacts(n) BY <1>6, <2>5 DEF ThreadFacts
  <2>9. PostFacts(n) BY <1>4, <2>3, <2>5, <2>6 DEF PostFacts, ReplyOf, OwnLeft
  <2>10. TextFacts(n) BY <1>4, <2>5 DEF TextFacts
  <2>11. VoteFacts(n) BY <1>3, <2>5 DEF VoteFacts, Facts
  <2>12. Facts(n) BY <2>5, <2>8, <2>9, <2>10, <2>11 DEF Facts, AddonFacts, LinkFacts, ByHandOps
  <2> QED BY <2>4, <2>7, <2>12, PlanKept
<1> QED BY <1>5, <1>6

\* Both rows of a post are two writes, the last of them one.
LEMMA RowsPlanned ==
    ASSUME NEW p, NEW attributes
    PROVE  LET todo == BothRows(p, attributes)
           IN  Sequence(todo) /\ todo # <<>> /\ todo # LastRow(p, attributes)
<1>1. PICK a : a = SetPost(p, attributes) OBVIOUS
<1>2. PICK b : b = SetCopy(ThreadOf(p), p, attributes) OBVIOUS
<1>3. BothRows(p, attributes) = <<{a}, {b}>> /\ LastRow(p, attributes) = <<{b}>>
  BY <1>1, <1>2 DEF BothRows, LastRow
<1>4. <<{a}, {b}>> # <<{b}>> OBVIOUS
<1> QED BY <1>3, <1>4, TwoSets

LEMMA RewritePostKept ==
    ASSUME CommunityInv, NEW w \in Worker, RewritePost(w)
    PROVE  CommunityInv'
<1>1. At(w, "rewrite", "read") /\ spoiled' = spoiled BY DEF RewritePost
<1>2. PICK k : Doing(w, k, "rewrite", "read") BY <1>1, DoingIt
<1>3. /\ k.op = "rewrite" /\ k.at = "read" /\ k.todo = <<>> /\ Request(k) /\ Facts(k)
      /\ k.id = call[w].id /\ k.arg = call[w].arg /\ k.on = {PostText(k.arg[1])}
  BY <1>2 DEF Doing, Request, RewriteCall
<1>4. PICK p, attributes : p = k.arg[1] /\ attributes = [text |-> k.id] OBVIOUS
<1>5. CASE ~Has(Post(p))
  <2>1. Answer(w) BY <1>3, <1>4, <1>5 DEF RewritePost, Arg
  <2>2. EndsWell(k)
    <3>1. \A q : PostText(q) \in k.on => q = p BY <1>3, <1>4, Subjects
    <3>2. \A i : ThreadVotes(i) \notin k.on /\ PostVotes(i) \notin k.on /\ AddonDeck(i) \notin k.on
      BY <1>3, Subjects
    <3> QED BY <1>3, <1>5, <3>1, <3>2 DEF EndsWell
  <2> QED BY <1>1, <1>2, <2>1, <2>2, AnswerKept
<1>6. CASE Has(Post(p))
  <2>1. PICK todo : todo = BothRows(p, attributes) OBVIOUS
  <2>2. Proceed(w, todo, "done")
    BY <1>3, <1>4, <1>6, <2>1
       DEF RewritePost, Arg, Plan, BothRows, SetBothPostRows, SetPost, SetCopy, ThreadOf
  <2>3. Sequence(todo) /\ todo # <<>> /\ todo # LastRow(p, attributes) BY <2>1, RowsPlanned
  <2>4. PICK n : Planning(w, k, n, todo, "done") BY <1>1, <1>2, <2>2, <2>3, PlansOn
  <2>5. n.op = "rewrite" /\ n.at = "done" /\ n.todo = todo /\ n.id = k.id /\ n.on = k.on /\ n.arg = k.arg
    BY <1>3, <2>4 DEF Planning, SameCall
  <2>6. Request(n) BY <1>3, <2>5 DEF Request, RewriteCall, ByHandOps
  <2>7. PostFacts(n) BY <1>3, <1>4, <1>6, <2>1, <2>5 DEF Facts, PostFacts, SetsRows
  <2>8. TextFacts(n) BY <1>4, <2>3, <2>5 DEF TextFacts
  <2>9. Facts(n)
    BY <2>5, <2>7, <2>8 DEF Facts, ThreadFacts, VoteFacts, AddonFacts, LinkFacts, ByHandOps
  <2> QED BY <2>4, <2>6, <2>9, PlanKept
<1> QED BY <1>5, <1>6

-----------------------------------------------------------------------------

LEMMA VoteTarget ==
    ASSUME NEW k, k.op = "vote", Request(k)
    PROVE  /\ k.on = {k.arg[1]} /\ k.arg[1][1] \in {"thread", "post"}
           /\ k.arg[1][1] = "thread" => k.arg[1] = ThreadVotes(k.arg[1][2])
           /\ k.arg[1][1] = "post" => k.arg[1] = PostVotes(k.arg[1][2])
<1>1. /\ k.on = {k.arg[1]}
      /\ \/ \E t : k.arg[1] = ThreadVotes(t)
         \/ \E p : k.arg[1] = PostVotes(p)
  BY DEF Request, VoteCall
<1>2. CASE \E t : k.arg[1] = ThreadVotes(t)
  <2>1. PICK t : k.arg[1] = ThreadVotes(t) BY <1>2
  <2>2. k.arg[1][1] = "thread" /\ k.arg[1][2] = t BY <2>1, Subjects
  <2> QED BY <1>1, <2>1, <2>2
<1>3. CASE \E p : k.arg[1] = PostVotes(p)
  <2>1. PICK p : k.arg[1] = PostVotes(p) BY <1>3
  <2>2. k.arg[1][1] = "post" /\ k.arg[1][2] = p BY <2>1, Subjects
  <2> QED BY <1>1, <2>1, <2>2
<1> QED BY <1>1, <1>2, <1>3

LEMMA CountsGood ==
    ASSUME NEW s
    PROVE  Counts(Counted(s))
<1>1. Counted(s).up = Cardinality(Votes(s, "up")) /\ Counted(s).down = Cardinality(Votes(s, "down"))
  BY DEF Counted
<1>2. Counted(s) = [up |-> Counted(s).up, down |-> Counted(s).down] BY DEF Counted
<1> QED BY <1>1, <1>2, VotesFinite DEF Counts

LEMMA UpsertVoteKept ==
    ASSUME CommunityInv, NEW w \in Worker, UpsertVote(w)
    PROVE  CommunityInv'
<1>1. At(w, "vote", "put") /\ spoiled' = spoiled BY DEF UpsertVote
<1>2. PICK k : Doing(w, k, "vote", "put") BY <1>1, DoingIt
<1>3. /\ k.op = "vote" /\ k.at = "put" /\ k.todo = <<>> /\ Request(k) /\ Facts(k)
      /\ k.arg = call[w].arg
  BY <1>2 DEF Doing
<1>4. PICK key : key = Vote(k.arg[1], k.arg[2]) OBVIOUS
<1>5. PICK todo : /\ todo = <<{Delete(key)}>> \/ todo = <<{Put(key, k.arg[3])}>>
                  /\ Proceed(w, todo, "count")
  BY <1>3, <1>4 DEF UpsertVote, Arg
<1>6. Sequence(todo) /\ todo # <<>> BY <1>5, OneWrite
<1>7. PICK n : Planning(w, k, n, todo, "count") BY <1>1, <1>2, <1>5, <1>6, PlansOn
<1>8. n.op = "vote" /\ n.at = "count" /\ n.todo = todo /\ n.id = k.id /\ n.on = k.on /\ n.arg = k.arg
  BY <1>3, <1>7 DEF Planning, SameCall
<1>9. Request(n)
  <2>1. VoteCall(k) BY <1>3 DEF Request
  <2>2. VoteCall(n) BY <1>3, <1>4, <1>5, <1>8, <2>1 DEF VoteCall
  <2> QED BY <1>3, <1>8, <2>2 DEF Request, ByHandOps
<1>10. PostFacts(n) BY <1>3, <1>8 DEF Facts, PostFacts, SetsRows
<1>11. VoteFacts(n) BY <1>3, <1>8 DEF Facts, VoteFacts, Counting
<1>12. Facts(n)
  BY <1>8, <1>10, <1>11 DEF Facts, ThreadFacts, TextFacts, AddonFacts, LinkFacts, ByHandOps
<1> QED BY <1>7, <1>9, <1>12, PlanKept

LEMMA RecomputeVoteCountsKept ==
    ASSUME CommunityInv, NEW w \in Worker, RecomputeVoteCounts(w)
    PROVE  CommunityInv'
<1>1. At(w, "vote", "count") /\ spoiled' = spoiled BY DEF RecomputeVoteCounts
<1>2. PICK k : Doing(w, k, "vote", "count") BY <1>1, DoingIt
<1>3. /\ k.op = "vote" /\ k.at = "count" /\ k.todo = <<>> /\ Request(k) /\ Facts(k)
      /\ k = call[w] /\ VoteCall(k)
  BY <1>2 DEF Doing, Request
<1>4. PICK s, c : s = k.arg[1] /\ c = Counted(s) OBVIOUS
<1>5. Counts(c) BY <1>4, CountsGood
<1>6. s[1] \in {"thread", "post"} BY <1>3, <1>4, VoteTarget
<1>7. CASE s[1] = "thread"
  <2>1. PICK todo : todo = <<{SetVotes(s[2], c)}>> OBVIOUS
  <2>2. Proceed(w, todo, "done")
    BY <1>3, <1>4, <1>7, <2>1 DEF RecomputeVoteCounts, Arg, Plan, SetVotes
  <2>3. Sequence(todo) /\ todo # <<>> BY <2>1, OneWrite
  <2>4. PICK n : Planning(w, k, n, todo, "done") BY <1>1, <1>2, <2>2, <2>3, PlansOn
  <2>5. n.op = "vote" /\ n.at = "done" /\ n.todo = todo /\ n.id = k.id /\ n.on = k.on /\ n.arg = k.arg
    BY <1>3, <2>4 DEF Planning, SameCall
  <2>6. Request(n)
    <3>1. VoteCall(n) BY <1>3, <1>4, <1>5, <1>7, <2>1, <2>5 DEF VoteCall
    <3> QED BY <1>3, <2>5, <3>1 DEF Request, ByHandOps
  <2>7. PostFacts(n) BY <1>4, <1>7, <2>5 DEF PostFacts
  <2>8. VoteFacts(n)
    <3>1. Counting(n) BY <1>4, <1>7, <2>1, <2>5 DEF Counting
    <3> QED BY <1>3, <2>5, <3>1 DEF Facts, VoteFacts
  <2>9. Facts(n)
    BY <2>5, <2>7, <2>8 DEF Facts, ThreadFacts, TextFacts, AddonFacts, LinkFacts, ByHandOps
  <2> QED BY <2>4, <2>6, <2>9, PlanKept
<1>8. CASE s[1] = "post"
  <2>1. Keep(w, c, "post") BY <1>3, <1>4, <1>8 DEF RecomputeVoteCounts, Arg
  <2>2. CallsOK /\ requests \in Nat BY DEF CommunityInv, CallsInv
  <2>3. PICK n : n = call'[w] OBVIOUS
  <2>4. /\ CallsOK' /\ \A v \in Worker \ {w} : call'[v] = call[v]
        /\ items' = items /\ requests' = requests /\ torn' = torn
        /\ n = [op |-> k.op, at |-> "post", id |-> k.id, on |-> k.on,
                arg |-> Append(k.arg, c), todo |-> k.todo]
    BY <1>3, <2>1, <2>2, <2>3, KeepFacts
  <2>5. /\ n.op = "vote" /\ n.at = "post" /\ n.todo = <<>> /\ n.id = k.id /\ n.on = k.on
        /\ n.arg = Append(k.arg, c)
    BY <1>3, <2>4
  <2>6. /\ n.arg[1] = k.arg[1] /\ n.arg[2] = k.arg[2] /\ n.arg[3] = k.arg[3] /\ n.arg[4] = c
    <3>1. k.arg = <<k.arg[1], k.arg[2], k.arg[3]>> BY <1>3 DEF VoteCall
    <3> QED BY <2>5, <3>1, AppendThree
  <2>7. SameCall(k, n) BY <1>3, <2>5, <2>6 DEF SameCall
  <2>8. Moves(w, k, n) BY <1>3, <2>2, <2>3, <2>4, <2>7 DEF Moves
  <2>9. Stays BY <1>1, <2>4 DEF Stays
  <2>10. Request(n)
    <3>1. VoteCall(n) BY <1>3, <1>4, <1>5, <1>8, <2>5, <2>6 DEF VoteCall
    <3> QED BY <1>3, <2>5, <3>1 DEF Request, ByHandOps
  <2>11. PostFacts(n)
    <3>1. \E t : Has(PostIn(t, s[2])) BY <1>3, <1>4, <1>8 DEF Facts, PostFacts, SetsRows
    <3> QED BY <1>4, <2>5, <2>6, <3>1 DEF PostFacts, SetsRows
  <2>12. VoteFacts(n)
    <3>1. Counting(n) BY <1>4, <1>8, <2>5, <2>6 DEF Counting
    <3> QED BY <1>4, <1>8, <2>5, <2>6, <3>1 DEF VoteFacts
  <2>13. Facts(n)
    BY <2>5, <2>11, <2>12 DEF Facts, ThreadFacts, TextFacts, AddonFacts, LinkFacts, ByHandOps
  <2>14. Request(n)' /\ Facts(n)' BY <2>2, <2>9, <2>10, <2>13, FactsStand
  <2> QED BY <2>7, <2>8, <2>9, <2>14, GoesOn
<1> QED BY <1>6, <1>7, <1>8

LEMMA WritePostCountsKept ==
    ASSUME CommunityInv, NEW w \in Worker, WritePostCounts(w)
    PROVE  CommunityInv'
<1>1. At(w, "vote", "post") /\ spoiled' = spoiled BY DEF WritePostCounts
<1>2. PICK k : Doing(w, k, "vote", "post") BY <1>1, DoingIt
<1>3. /\ k.op = "vote" /\ k.at = "post" /\ k.todo = <<>> /\ Request(k) /\ Facts(k)
      /\ k = call[w] /\ VoteCall(k) /\ k.arg[1][1] = "post" /\ Counts(k.arg[4])
  BY <1>2 DEF Doing, Request, VoteCall
<1>4. PICK s, p, c : s = k.arg[1] /\ p = s[2] /\ c = k.arg[4] OBVIOUS
<1>5. k.on = {s} /\ s = PostVotes(p) BY <1>3, <1>4, VoteTarget
<1>6. CASE ~Has(Post(p))
  <2>1. Answer(w) BY <1>3, <1>4, <1>6 DEF WritePostCounts, Arg
  <2>2. EndsWell(k)
    <3>1. \A q : PostVotes(q) \in k.on => q = p BY <1>5, Subjects
    <3>2. \A i : ThreadVotes(i) \notin k.on /\ PostText(i) \notin k.on /\ AddonDeck(i) \notin k.on
      BY <1>5, Subjects
    <3> QED BY <1>3, <1>6, <3>1, <3>2 DEF EndsWell
  <2> QED BY <1>1, <1>2, <2>1, <2>2, AnswerKept
<1>7. CASE Has(Post(p))
  <2>1. PICK todo : todo = BothRows(p, c) OBVIOUS
  <2>2. Proceed(w, todo, "done")
    BY <1>3, <1>4, <1>7, <2>1
       DEF WritePostCounts, Arg, Plan, BothRows, SetBothPostRows, SetPost, SetCopy, ThreadOf
  <2>3. Sequence(todo) /\ todo # <<>> /\ todo # LastRow(p, c) BY <2>1, RowsPlanned
  <2>4. PICK n : Planning(w, k, n, todo, "done") BY <1>1, <1>2, <2>2, <2>3, PlansOn
  <2>5. n.op = "vote" /\ n.at = "done" /\ n.todo = todo /\ n.id = k.id /\ n.on = k.on /\ n.arg = k.arg
    BY <1>3, <2>4 DEF Planning, SameCall
  <2>6. Request(n)
    <3>1. VoteCall(n) BY <1>3, <2>5 DEF VoteCall
    <3> QED BY <1>3, <2>5, <3>1 DEF Request, ByHandOps
  <2>7. PostFacts(n)
    <3>1. \E t : Has(PostIn(t, p)) BY <1>3, <1>4 DEF Facts, PostFacts, SetsRows
    <3> QED BY <1>4, <1>7, <2>1, <2>5, <3>1 DEF PostFacts, SetsRows
  <2>8. VoteFacts(n)
    <3>1. s \notin spoiled => c = Counted(s)
      BY <1>3, <1>4 DEF Facts, VoteFacts, Counting
    <3>2. s \notin spoiled => Counting(n) BY <1>3, <1>4, <2>3, <2>5, <3>1 DEF Counting
    <3> QED BY <1>3, <1>4, <2>5, <3>2 DEF VoteFacts
  <2>9. Facts(n)
    BY <2>5, <2>7, <2>8 DEF Facts, ThreadFacts, TextFacts, AddonFacts, LinkFacts, ByHandOps
  <2> QED BY <2>4, <2>6, <2>9, PlanKept
<1> QED BY <1>6, <1>7

-----------------------------------------------------------------------------

LEMMA PutAddonKept ==
    ASSUME CommunityInv, NEW w \in Worker, PutAddon(w)
    PROVE  CommunityInv'
<1>1. At(w, "addon", "put") /\ spoiled' = spoiled BY DEF PutAddon
<1>2. PICK k : Doing(w, k, "addon", "put") BY <1>1, DoingIt
<1>3. /\ k.op = "addon" /\ k.at = "put" /\ k.todo = <<>> /\ Request(k) /\ Facts(k) /\ k = call[w]
  BY <1>2 DEF Doing
<1>4. PICK todo : todo = <<{Put(Addon(k.id), NewAddon(k.arg[1], k.arg[2]))}>> OBVIOUS
<1>5. Proceed(w, todo, "done") BY <1>3, <1>4 DEF PutAddon, Plan, Arg
<1>6. Sequence(todo) /\ todo # <<>> BY <1>4, OneWrite
<1>7. PICK n : Planning(w, k, n, todo, "done") BY <1>1, <1>2, <1>5, <1>6, PlansOn
<1>8. n.op = "addon" /\ n.at = "done" /\ n.todo = todo /\ n.id = k.id /\ n.on = k.on /\ n.arg = k.arg
  BY <1>3, <1>7 DEF Planning, SameCall
<1>9. Request(n) BY <1>3, <1>4, <1>8 DEF Request, AddonCall, ByHandOps
<1>10. AddonFacts(n) BY <1>3, <1>8 DEF Facts, AddonFacts, ByHandOps
<1>11. Facts(n)
  BY <1>8, <1>10 DEF Facts, ThreadFacts, PostFacts, TextFacts, VoteFacts, LinkFacts
<1> QED BY <1>7, <1>9, <1>11, PlanKept

LEMMA WriteByHandKept ==
    ASSUME CommunityInv, NEW w \in Worker, WriteByHand(w)
    PROVE  CommunityInv'
<1>1. PICK op \in ByHandOps : At(w, op, "go") BY DEF WriteByHand, ByHandOps
<1>2. PICK k : Doing(w, k, op, "go") BY <1>1, DoingIt
<1>3. /\ k.op = op /\ k.at = "go" /\ k.todo = <<>> /\ Request(k) /\ Facts(k) /\ k = call[w]
  BY <1>2 DEF Doing
<1>4. HandCall(k) BY <1>1, <1>3 DEF Request, ByHandOps
<1>5. PICK a : a = k.arg[1] OBVIOUS
<1>6. /\ k.on = {AddonDeck(a)} /\ AddonDeck(a) \in spoiled /\ (Has(Addon(a)) \/ a = Nothing)
      /\ spoiled' = spoiled
  BY <1>1, <1>3, <1>4, <1>5 DEF HandCall, Facts, AddonFacts, WriteByHand
<1>7. op # "idle" BY <1>1 DEF ByHandOps
<1>8. EndsWell(k)
  <2>1. \A b : AddonDeck(b) \in k.on => AddonDeck(b) \in spoiled' BY <1>6, Subjects
  <2>2. \A i : ThreadVotes(i) \notin k.on /\ PostText(i) \notin k.on /\ PostVotes(i) \notin k.on
    BY <1>6, Subjects
  <2> QED BY <1>1, <1>3, <2>1, <2>2 DEF EndsWell, ByHandOps
<1>9. ASSUME NEW x,
             \/ op = "patch" /\ x = SetCount(a, k.arg[3]) /\ Has(Addon(a))
             \/ op = "store" /\ x = Put(Markdown(a), k.arg[2])
             \/ op = "erase" /\ x = Delete(Markdown(a)),
             Plan(w, <<{x}>>)
      PROVE  CommunityInv'
  <2>1. PICK todo : todo = <<{x}>> OBVIOUS
  <2>2. Sequence(todo) /\ todo # <<>> BY <2>1, OneWrite
  <2>3. Proceed(w, todo, "done") BY <1>9, <2>1 DEF Plan
  <2>4. PICK n : Planning(w, k, n, todo, "done") BY <1>2, <1>6, <1>7, <2>2, <2>3, PlansOn
  <2>5. n.op = op /\ n.at = "done" /\ n.todo = todo /\ n.id = k.id /\ n.on = k.on /\ n.arg = k.arg
    BY <1>3, <2>4 DEF Planning, SameCall
  <2>6. Request(n)
    <3>1. HandCall(n) BY <1>3, <1>4, <1>5, <1>9, <2>1, <2>5 DEF HandCall
    <3> QED BY <1>1, <1>3, <2>5, <3>1 DEF Request, ByHandOps
  <2>7. AddonFacts(n) BY <1>1, <1>5, <1>6, <1>9, <2>5 DEF AddonFacts, ByHandOps
  <2>8. Facts(n)
    BY <1>1, <2>5, <2>7 DEF Facts, ThreadFacts, PostFacts, TextFacts, VoteFacts, LinkFacts, ByHandOps
  <2> QED BY <2>4, <2>6, <2>8, PlanKept
<1>10. CASE op = "patch"
  <2>1. (Has(Addon(a)) /\ Plan(w, <<{SetCount(a, k.arg[3])}>>)) \/ Answer(w)
    BY <1>1, <1>3, <1>5, <1>10 DEF WriteByHand, At, Arg, Owns
  <2> QED BY <1>2, <1>6, <1>7, <1>8, <1>9, <1>10, <2>1, AnswerKept
<1>11. CASE op = "store"
  <2>1. Plan(w, <<{Put(Markdown(a), k.arg[2])}>>)
    BY <1>1, <1>3, <1>5, <1>11 DEF WriteByHand, At, Arg
  <2> QED BY <1>9, <1>11, <2>1
<1>12. CASE op = "erase"
  <2>1. Plan(w, <<{Delete(Markdown(a))}>>)
    BY <1>1, <1>3, <1>5, <1>12 DEF WriteByHand, At, Arg
  <2> QED BY <1>9, <1>12, <2>1
<1> QED BY <1>1, <1>10, <1>11, <1>12 DEF ByHandOps

LEMMA StoreDeckKept ==
    ASSUME CommunityInv, NEW w \in Worker, StoreDeck(w)
    PROVE  CommunityInv'
<1>1. At(w, "deck", "addon") /\ spoiled' = spoiled BY DEF StoreDeck
<1>2. PICK k : Doing(w, k, "deck", "addon") BY <1>1, DoingIt
<1>3. /\ k.op = "deck" /\ k.at = "addon" /\ k.todo = <<>> /\ Request(k) /\ Facts(k) /\ k = call[w]
      /\ DeckCall(k)
  BY <1>2 DEF Doing, Request
<1>4. PICK a : a = k.arg[1] OBVIOUS
<1>5. k.on = {AddonDeck(a)} BY <1>3, <1>4 DEF DeckCall
<1>6. CASE ~MayPutDeck(k.arg[2], a)
  <2>1. Answer(w) BY <1>3, <1>4, <1>6 DEF StoreDeck, Arg
  <2>2. AddonDeck(a) \notin spoiled => CardsCounted(a)
    BY <1>3, <1>4, <1>6 DEF Facts, AddonFacts, DeckFacts
  <2>3. EndsWell(k)
    <3>1. \A b : AddonDeck(b) \in k.on => b = a BY <1>5, Subjects
    <3>2. \A i : ThreadVotes(i) \notin k.on /\ PostText(i) \notin k.on /\ PostVotes(i) \notin k.on
      BY <1>5, Subjects
    <3> QED BY <1>1, <1>3, <2>2, <3>1, <3>2 DEF EndsWell
  <2> QED BY <1>1, <1>2, <2>1, <2>3, AnswerKept
<1>7. CASE MayPutDeck(k.arg[2], a)
  <2>1. PICK todo : todo = StoreAndCount(a, k.arg[3]) OBVIOUS
  <2>2. Proceed(w, todo, "done") BY <1>3, <1>4, <1>7, <2>1 DEF StoreDeck, Plan, Arg
  <2>3. Sequence(todo) /\ todo # <<>> /\ todo # CountLeft(k)
    <3>1. PICK x, y : x = Put(Markdown(a), k.arg[3]) /\ y = SetCount(a, k.arg[3]) OBVIOUS
    <3>2. todo = <<{x}, {y}>> /\ CountLeft(k) = <<{y}>>
      BY <1>4, <2>1, <3>1 DEF StoreAndCount, CountLeft
    <3>3. <<{x}, {y}>> # <<{y}>> OBVIOUS
    <3> QED BY <3>2, <3>3, TwoSets
  <2>4. PICK n : Planning(w, k, n, todo, "done") BY <1>1, <1>2, <2>2, <2>3, PlansOn
  <2>5. n.op = "deck" /\ n.at = "done" /\ n.todo = todo /\ n.id = k.id /\ n.on = k.on /\ n.arg = k.arg
    BY <1>3, <2>4 DEF Planning, SameCall
  <2>6. Request(n)
    <3>1. DeckCall(n) BY <1>3, <1>4, <2>1, <2>5 DEF DeckCall
    <3> QED BY <1>3, <2>5, <3>1 DEF Request, ByHandOps
  <2>7. AddonFacts(n)
    <3>1. Has(Addon(a)) BY <1>7 DEF MayPutDeck, Owns
    <3>2. n.todo # CountLeft(n) BY <2>3, <2>5 DEF CountLeft
    <3>3. DeckFacts(n) BY <1>4, <1>7, <2>5, <3>2 DEF DeckFacts
    <3> QED BY <1>4, <2>5, <3>1, <3>3 DEF AddonFacts, ByHandOps
  <2>8. Facts(n)
    BY <2>5, <2>7 DEF Facts, ThreadFacts, PostFacts, TextFacts, VoteFacts, LinkFacts
  <2> QED BY <2>4, <2>6, <2>8, PlanKept
<1> QED BY <1>6, <1>7

-----------------------------------------------------------------------------
(* Writes.                                                                 *)

\* The request of the worker makes one of its writes.
Writing(w, k, n, x) ==
    /\ Step(w, k, n) /\ Alone' /\ Request(k) /\ Facts(k) /\ k.op # "idle"
    /\ Shaped(k) /\ Sequence(k.todo) /\ k.todo # <<>> /\ x \in Head(k.todo) /\ items' = After(x)
    /\ n = Onward(k, Rest(k.todo, x), k.at)
    /\ requests \in Nat /\ requests' = requests /\ torn' = torn /\ spoiled' = spoiled

Continues(k, n, todo) ==
    /\ n.op = k.op /\ n.at = k.at /\ n.id = k.id /\ n.on = k.on /\ n.arg = k.arg /\ n.todo = todo

LEMMA WritesOn ==
    ASSUME CommunityInv, NEW w \in Worker, Write(w), spoiled' = spoiled
    PROVE  \E k, n, x : Writing(w, k, n, x)
<1>1. CallsOK /\ requests \in Nat BY DEF CommunityInv, CallsInv
<1>2. PICK k, n : k = call[w] /\ n = call'[w] OBVIOUS
<1>3. /\ CallsOK' /\ \A v \in Worker \ {w} : call'[v] = call[v]
      /\ k.op # "idle" /\ k.todo # <<>>
      /\ requests' = requests /\ torn' = torn
  BY <1>1, <1>2, WriteFacts
<1>4. \E x \in Head(call[w].todo) :
         LET todo == Rest(call[w].todo, x)
         IN  /\ items' = After(x)
             /\ call'[w] = Onward(call[w], todo, call[w].at)
             /\ Sequence(todo)
  BY <1>1, WriteFacts
<1>5. PICK x \in Head(k.todo) : /\ items' = After(x) /\ n = Onward(k, Rest(k.todo, x), k.at)
                                /\ Sequence(Rest(k.todo, x))
  BY <1>2, <1>4
<1>6. Shaped(k) /\ Sequence(k.todo) BY <1>1, <1>2 DEF CallsOK
<1>7. n = Idle \/ SameCall(k, n) BY <1>3, <1>5, <1>6, OnwardCall DEF SameCall
<1>8. Moves(w, k, n) BY <1>1, <1>2, <1>3, <1>7 DEF Moves
<1>9. Calmer(w, k, n) /\ Alone' BY <1>7, <1>8, CalmerWhenSame, AloneKept DEF CommunityInv
<1>10. Request(k) /\ Facts(k)
  BY <1>2 DEF CommunityInv, CallsInv, Threads, Posts, Texts, VotesInv, Addons, Links, Facts
<1> QED BY <1>1, <1>3, <1>5, <1>6, <1>8, <1>9, <1>10 DEF Writing, Step

LEMMA GoingOn ==
    ASSUME NEW w, NEW k, NEW n, NEW x, Writing(w, k, n, x), NEW todo, Rest(k.todo, x) = todo,
           todo # <<>> \/ k.at # "done"
    PROVE  Continues(k, n, todo)
<1>1. n = With(k, todo, k.at) BY OnwardWith DEF Writing
<1> QED BY <1>1 DEF With, Continues

LEMMA LastWrite ==
    ASSUME NEW w, NEW k, NEW n, NEW x, Writing(w, k, n, x), NEW y, k.todo = <<{y}>>
    PROVE  /\ x = y /\ items' = After(y)
           /\ k.at = "done" => n = Idle
           /\ k.at # "done" => Continues(k, n, <<>>)
<1>1. x = y BY OneSet DEF Writing
<1>2. Rest(k.todo, x) = <<>> BY <1>1, RestOfOne
<1> QED BY <1>1, <1>2, GoingOn DEF Writing, Onward

LEMMA FirstOfTwo ==
    ASSUME NEW w, NEW k, NEW n, NEW x, Writing(w, k, n, x), NEW y, NEW z, k.todo = <<{y}, {z}>>
    PROVE  x = y /\ items' = After(y) /\ Continues(k, n, <<{z}>>)
<1> DEFINE s == <<{y}, {z}>>
           t == Tail(s)
<1>1. s \in Seq({{y}, {z}}) /\ Len(s) = 2 /\ s[1] = {y} /\ s[2] = {z} /\ s # <<>> OBVIOUS
<1>2. Head(s) = {y} BY <1>1
<1>3. t = <<{z}>> OBVIOUS
<1> HIDE DEF s, t
<1>4. x = y BY <1>2 DEF Writing, s
<1>5. Rest(k.todo, x) = <<{z}>> BY <1>2, <1>3, <1>4 DEF Rest, s, t
<1>6. <<{z}>> # <<>> BY OneSet
<1> QED BY <1>4, <1>5, <1>6, GoingOn DEF Writing

LEMMA ConcatTwo ==
    ASSUME NEW S, NEW d
    PROVE  <<S>> \o <<d>> = <<S, d>> /\ <<S, d>> # <<>>
<1> DEFINE R == {S, d}
           a == <<S>>
           b == <<d>>
           u == a \o b
           v == <<S, d>>
<1>1. a \in Seq(R) /\ b \in Seq(R) /\ Len(a) = 1 /\ Len(b) = 1 /\ a[1] = S /\ b[1] = d OBVIOUS
<1>2. v \in Seq(R) /\ Len(v) = 2 /\ v[1] = S /\ v[2] = d /\ v # <<>> OBVIOUS
<1> HIDE DEF R, a, b, v
<1>3. /\ u \in Seq(R) /\ Len(u) = Len(a) + Len(b)
      /\ \A i \in 1 .. Len(a) + Len(b) : u[i] = IF i <= Len(a) THEN a[i] ELSE b[i - Len(a)]
  BY <1>1, ConcatProperties
<1> HIDE DEF u
<1>4. Len(u) = 2 /\ u[1] = S /\ u[2] = d BY <1>1, <1>3
<1>5. \A i \in 1..2 : u[i] = v[i] BY <1>2, <1>4
<1>6. u = v BY <1>2, <1>3, <1>4, <1>5, SeqEqual
<1> QED BY <1>2, <1>6 DEF u, a, b, v

LEMMA FirstOfPair ==
    ASSUME NEW w, NEW k, NEW n, NEW x, Writing(w, k, n, x), NEW y, NEW z, NEW c, y # z,
           k.todo = <<{y, z}, {c}>>
    PROVE  /\ x \in {y, z} /\ items' = After(x)
           /\ x = y => Continues(k, n, <<{z}, {c}>>)
           /\ x = z => Continues(k, n, <<{y}, {c}>>)
<1> DEFINE s == <<{y, z}, {c}>>
           t == Tail(s)
<1>1. s \in Seq({{y, z}, {c}}) /\ Len(s) = 2 /\ s[1] = {y, z} /\ s[2] = {c} /\ s # <<>> OBVIOUS
<1>2. Head(s) = {y, z} BY <1>1
<1>3. t = <<{c}>> OBVIOUS
<1> HIDE DEF s, t
<1>4. x \in {y, z} BY <1>2 DEF Writing, s
<1>5. \A S : <<S>> \o <<{c}>> = <<S, {c}>> /\ <<S, {c}>> # <<>> BY ConcatTwo
<1>6. ASSUME x = y PROVE Rest(k.todo, x) = <<{z}, {c}>>
  <2>1. {y, z} \ {x} = {z} BY <1>6
  <2> QED BY <1>2, <1>3, <1>5, <2>1 DEF Rest, s, t
<1>7. ASSUME x = z PROVE Rest(k.todo, x) = <<{y}, {c}>>
  <2>1. {y, z} \ {x} = {y} BY <1>7
  <2> QED BY <1>2, <1>3, <1>5, <2>1 DEF Rest, s, t
<1> QED BY <1>4, <1>5, <1>6, <1>7, GoingOn DEF Writing

\* What is not touched stays as the invariant says.
LEMMA ForumFrame ==
    ASSUME CommunityInv, NEW w \in Worker, NEW k, NEW n, NEW x, Writing(w, k, n, x), Facts(n)',
           KeptThreads, KeptOwn, KeptCopies, KeptVotes,
           n = Idle => k.op # "reply" /\ \A s \in k.on : s[1] \notin {"text", "thread", "post"}
    PROVE  Threads' /\ Posts' /\ RepliesCounted' /\ CopyHasPost' /\ Texts' /\ VotesInv'
<1>0. Step(w, k, n) /\ Moves(w, k, n) BY DEF Writing, Step
<1>1. GrowThreads /\ KeptReplies /\ KeptTallies BY ThreadsSame
<1>2. SamePlaces /\ KeptTexts /\ KeptPostTallies BY PostsSame
<1>3. PlacesGrow(k) BY <1>2, PlacesStay
<1>4. Threads' BY <1>0, ThreadsFrame DEF CommunityInv, Facts
<1>5. Posts' BY <1>0, <1>1, PostsFrame DEF CommunityInv, Facts
<1>6. RepliesCounted' BY <1>0, <1>1, <1>2, RepliesFrame DEF CommunityInv, Posts, Threads
<1>7. CopyHasPost'
  <2>1. \A t, p : Has(PostIn(t, p))' => Has(PostIn(t, p)) BY <1>2 DEF SamePlaces
  <2> QED BY <1>0, <1>3, <2>1, CopyFrame DEF CommunityInv
<1>8. Texts'
  <2>1. \A p : TextSame(p) BY <1>2, TextsSame
  <2>2. TextFacts(n)' BY DEF Facts
  <2>3. n = Idle => \A p : PostText(p) \notin k.on BY Subjects
  <2> QED BY <1>0, <2>1, <2>2, <2>3, TextsKept DEF CommunityInv
<1>9. VotesInv'
  <2>1. VotedThreads' /\ VotedPosts' /\ \A s : VotesSame(s)
    BY <1>1, <1>3, VotedStay DEF CommunityInv
  <2>2. \A p : PostTallySame(p) BY <1>2, TalliesSame
  <2>3. \A t : TallySame(t) BY <1>1 DEF KeptTallies, TallySame
  <2>4. VoteFacts(n)' BY DEF Facts
  <2>5. n = Idle => \A i : ThreadVotes(i) \notin k.on /\ PostVotes(i) \notin k.on BY Subjects
  <2> QED BY <1>0, <1>1, <2>1, <2>2, <2>3, <2>4, <2>5, VotesKept DEF CommunityInv
<1> QED BY <1>4, <1>5, <1>6, <1>7, <1>8, <1>9

LEMMA WriterId ==
    ASSUME CommunityInv, NEW w \in Worker, NEW k, NEW n, NEW x, Writing(w, k, n, x)
    PROVE  k.id \in 1..requests /\ k.id \in Known /\ k.id # Nothing
<1>1. k.id \in 1..requests /\ requests \in Nat /\ requests <= MaxRequests
  BY DEF Writing, Request, CommunityInv, CallsInv
<1> QED BY <1>1, TableConstants DEF Known, Nothing

LEMMA AddonsRest ==
    ASSUME CommunityInv, NEW w \in Worker, NEW k, NEW n, NEW x, Writing(w, k, n, x), Facts(n)',
           KeptAddons, n = Idle => \A s \in k.on : s[1] # "addon"
    PROVE  Addons'
<1>1. AddonFacts(n)' BY DEF Facts
<1>2. n = Idle => \A a : AddonDeck(a) \notin k.on BY Subjects
<1> QED BY <1>1, <1>2, WriterId, AddonsFrame DEF CommunityInv, Writing

LEMMA LinksRest ==
    ASSUME CommunityInv, NEW w \in Worker, NEW k, NEW n, NEW x, Writing(w, k, n, x), Facts(n)',
           KeptLinks, n = Idle => k.op # "thread"
    PROVE  Links'
<1>1. LinkFacts(n)' BY DEF Facts
<1>2. Moves(w, k, n) BY DEF Writing, Step
<1> QED BY <1>1, <1>2, LinksFrame DEF CommunityInv

\* All the parts together.
LEMMA Together ==
    ASSUME CommunityInv, NEW w \in Worker, NEW k, NEW n, NEW x, Writing(w, k, n, x), Request(n)',
           Threads', Posts', RepliesCounted', CopyHasPost', Texts', VotesInv', Addons', Links'
    PROVE  CommunityInv'
<1>1. CallsInv' BY CallsKeptOn DEF CommunityInv, Writing, Step
<1>2. Alone' BY DEF Writing
<1> QED BY <1>1, <1>2 DEF CommunityInv

LEMMA TagWritten ==
    ASSUME CommunityInv, NEW w \in Worker, NEW k, NEW n, NEW x, Writing(w, k, n, x), k.op = "tag"
    PROVE  CommunityInv'
<1>1. k.on = {} /\ k.at = "done" /\ k.todo = <<{Put(TagRow(k.arg[1]), TRUE)}>>
  BY DEF Writing, Request, TagCall
<1>2. PICK y : y = Put(TagRow(k.arg[1]), TRUE) OBVIOUS
<1>3. y.do = "put" /\ y.key[1] = "TAG" BY <1>2 DEF Put, TagRow
<1>0. k.todo = <<{y}>> BY <1>1, <1>2
<1>4. n = Idle /\ items' = After(y) BY <1>0, <1>1, LastWrite
<1>5. Elsewhere(y.key) BY <1>3, <1>4, WritesElsewhere
<1>6. KeptThreads /\ KeptOwn /\ KeptCopies /\ KeptVotes /\ KeptAddons /\ KeptLinks
  BY <1>3, <1>5, Families
<1>7. Request(n)' /\ Facts(n)' BY <1>4, IdleFacts
<1>8. Threads' /\ Posts' /\ RepliesCounted' /\ CopyHasPost' /\ Texts' /\ VotesInv'
  BY <1>1, <1>6, <1>7, ForumFrame
<1>9. Addons' /\ Links' BY <1>1, <1>6, <1>7, AddonsRest, LinksRest
<1> QED BY <1>7, <1>8, <1>9, Together

-----------------------------------------------------------------------------

LEMMA LinkKeysApart ==
    ASSUME NEW t, NEW o, NEW key \in LinkKeys(t), key \in LinkKeys(o)
    PROVE  t = o
<1>1. ASSUME NEW i, key \in LinkKeys(i)
      PROVE  /\ key[1] \in {"TAG_THREAD", "CONTENT_THREAD"} => key[3] = i
             /\ key[1] \in {"THREAD_TAG", "LINK"} => key[2] = i
             /\ key[1] \in {"TAG_THREAD", "CONTENT_THREAD", "THREAD_TAG", "LINK"}
  BY <1>1 DEF LinkKeys, TagOf, Tagged, Link, Linked
<1> QED BY <1>1

LEMMA LinkWritten ==
    ASSUME CommunityInv, NEW w \in Worker, NEW k, NEW n, NEW x, Writing(w, k, n, x),
           k.op = "thread", k.at = "done"
    PROVE  CommunityInv'
<1>1. /\ k.on = {Replies(k.id)} /\ k.arg[1] \subseteq Tag /\ k.arg[2] \subseteq Content
      /\ \A y \in Planned(k.todo) : y.do = "put" /\ y.key \in LinkKeys(k.id)
      /\ Has(Thread(k.id)) /\ BothWill(k)
  BY DEF Writing, Request, ThreadCall, Facts, ThreadFacts, LinkFacts, Unborn
<1>2. PICK todo : todo = Rest(k.todo, x) OBVIOUS
<1>3. /\ x \in Planned(k.todo) /\ Planned(todo) \subseteq Planned(k.todo)
      /\ Planned(k.todo) \subseteq Planned(todo) \cup {x}
  BY <1>2, RestOf DEF Writing
<1>4. x.do = "put" /\ x.key \in LinkKeys(k.id) BY <1>1, <1>3
<1>5. items' = After(x) BY DEF Writing
<1>6. Elsewhere(x.key) BY <1>4, <1>5, WritesElsewhere
<1>7. x.key[1] \in {"TAG_THREAD", "CONTENT_THREAD", "THREAD_TAG", "LINK"}
  BY <1>4 DEF LinkKeys, TagOf, Tagged, Link, Linked
<1>8. KeptThreads /\ KeptOwn /\ KeptCopies /\ KeptVotes /\ KeptAddons BY <1>6, <1>7, Families
<1>9. DOMAIN items' = DOMAIN items \cup {x.key} BY <1>4, <1>5, PutFacts
<1>10. ASSUME NEW key PROVE Will(k, key) <=> (Has(key)' \/ \E y \in Planned(todo) : y.key = key)
  BY <1>3, <1>9 DEF Will, Has
<1>11. ASSUME todo = <<>>
       PROVE  Request(n)' /\ Facts(n)' /\ (n = Idle => BothOrNone(k.id)')
  <2>1. n = Idle BY <1>2, <1>11 DEF Writing, Onward
  <2>2. Request(n)' /\ Facts(n)' BY <2>1, IdleFacts
  <2>3. \A key : Will(k, key) <=> Has(key)' BY <1>10, <1>11, NoPlan
  <2>4. BothOrNone(k.id)'
    <3>1. \A g \in Tag : Has(TagOf(k.id, g))' <=> Has(Tagged(g, k.id))' BY <1>1, <2>3 DEF BothWill
    <3>2. \A c \in Content : Has(Link(k.id, c))' <=> Has(Linked(c, k.id))' BY <1>1, <2>3 DEF BothWill
    <3> QED BY <3>1, <3>2 DEF BothOrNone
  <2> QED BY <2>2, <2>4
<1>12. ASSUME todo # <<>>
       PROVE  Request(n)' /\ Facts(n)' /\ (n = Idle => BothOrNone(k.id)')
  <2>1. Continues(k, n, todo) BY <1>2, <1>12, GoingOn
  <2>2. n.op = "thread" /\ n.at = "done" /\ n.id = k.id /\ n.on = k.on /\ n.arg = k.arg /\ n.todo = todo
    BY <2>1 DEF Continues
  <2>3. Request(n)
    <3>1. ThreadCall(n) BY <1>1, <1>3, <2>2 DEF ThreadCall
    <3> QED BY <2>2, <3>1 DEF Request, ByHandOps, Writing
  <2>4. Request(n)' BY <2>3, RequestStays DEF Writing
  <2>5. ThreadFacts(n)'
    <3>1. Has(Thread(k.id))' BY <1>1, <1>8 DEF KeptThreads, SameAt, Has
    <3> QED BY <2>2, <3>1 DEF ThreadFacts, Unborn
  <2>6. \A key : Will(k, key) <=> Will(n, key)' BY <1>10, <2>2 DEF Will
  <2>7. BothWill(n)'
    <3>1. \A g \in Tag : Will(n, TagOf(k.id, g))' <=> Will(n, Tagged(g, k.id))'
      BY <1>1, <2>6 DEF BothWill
    <3>2. \A c \in Content : Will(n, Link(k.id, c))' <=> Will(n, Linked(c, k.id))'
      BY <1>1, <2>6 DEF BothWill
    <3> QED BY <2>2, <3>1, <3>2 DEF BothWill, TagOf, Tagged, Link, Linked
  <2>8. Facts(n)'
    BY <2>2, <2>5, <2>7 DEF Facts, PostFacts, TextFacts, VoteFacts, AddonFacts, LinkFacts, ByHandOps
  <2>9. n # Idle BY <2>2, IdleCall
  <2> QED BY <2>4, <2>8, <2>9
<1>13. Request(n)' /\ Facts(n)' /\ (n = Idle => BothOrNone(k.id)')
  BY <1>11, <1>12
<1>14. \A s \in k.on : s[1] = "replies" BY <1>1, Subjects
<1>15. Threads' /\ Posts' /\ RepliesCounted' /\ CopyHasPost' /\ Texts' /\ VotesInv'
  BY <1>8, <1>13, <1>14, ForumFrame
<1>16. Addons' BY <1>8, <1>13, <1>14, AddonsRest
<1>17. Links'
  <2>1. ASSUME NEW t, HasLinks(t)' PROVE t \in Known'
    <3>1. PICK key \in LinkKeys(t) : Has(key)'
      BY <2>1 DEF HasLinks, LinkKeys, TagOf, Tagged, Link, Linked
    <3>2. CASE Has(key)
      <4>1. HasLinks(t) BY <3>1, <3>2 DEF HasLinks
      <4> QED BY <4>1, MovesKnown DEF CommunityInv, Links, Writing, Step
    <3>3. CASE key = x.key
      <4>1. t = k.id BY <1>4, <3>1, <3>3, LinkKeysApart
      <4> QED BY <4>1, WriterId, MovesKnown DEF Writing, Step
    <3> QED BY <1>9, <3>1, <3>2, <3>3 DEF Has
  <2>2. ASSUME NEW t, t # k.id PROVE \A key \in LinkKeys(t) : SameAt(key)
    <3>1. \A key \in LinkKeys(t) : key # x.key BY <1>4, <2>2, LinkKeysApart
    <3> QED BY <1>6, <3>1 DEF Elsewhere
  <2>3. LinkFacts(n)' BY <1>13 DEF Facts
  <2>4. Moves(w, k, n) BY DEF Writing, Step
  <2> QED BY <1>13, <2>1, <2>2, <2>3, <2>4, LinksKept DEF CommunityInv
<1> QED BY <1>13, <1>15, <1>16, <1>17, Together

-----------------------------------------------------------------------------

\* A write of an addon or of its deck.
LEMMA DeckWritten ==
    ASSUME CommunityInv, NEW w \in Worker, NEW k, NEW n, NEW x, Writing(w, k, n, x),
           k.op \notin {"reply", "thread"}, \A s \in k.on : s[1] = "addon",
           Elsewhere(x.key), x.key[1] \in {"ADDON", "MARKDOWN"}, Request(n)', Facts(n)', Addons'
    PROVE  CommunityInv'
<1>1. KeptThreads /\ KeptOwn /\ KeptCopies /\ KeptVotes /\ KeptLinks BY Families
<1>2. Threads' /\ Posts' /\ RepliesCounted' /\ CopyHasPost' /\ Texts' /\ VotesInv'
  BY <1>1, ForumFrame
<1>3. Links' BY <1>1, LinksRest
<1> QED BY <1>2, <1>3, Together

LEMMA AddonWritten ==
    ASSUME CommunityInv, NEW w \in Worker, NEW k, NEW n, NEW x, Writing(w, k, n, x), k.op = "addon"
    PROVE  CommunityInv'
<1>1. /\ k.on = {} /\ k.at = "done" /\ k.arg[1] \in User /\ k.arg[2] \in Kinds
      /\ k.todo = <<{Put(Addon(k.id), NewAddon(k.arg[1], k.arg[2]))}>> /\ ~Has(Addon(k.id))
  BY DEF Writing, Request, AddonCall, Facts, AddonFacts
<1>2. PICK y : y = Put(Addon(k.id), NewAddon(k.arg[1], k.arg[2])) OBVIOUS
<1>0. k.todo = <<{y}>> BY <1>1, <1>2
<1>3. n = Idle /\ x = y /\ items' = After(y) BY <1>0, <1>1, LastWrite
<1>4. y.do = "put" /\ y.key = Addon(k.id) /\ y.val = NewAddon(k.arg[1], k.arg[2])
  BY <1>2 DEF Put
<1>5. Elsewhere(y.key) BY <1>3, <1>4, WritesElsewhere
<1>6. /\ DOMAIN items' = DOMAIN items \cup {Addon(k.id)}
      /\ items'[Addon(k.id)] = NewAddon(k.arg[1], k.arg[2])
  BY <1>3, <1>4, PutFacts
<1>7. Request(n)' /\ Facts(n)' BY <1>3, IdleFacts
<1>8. \A a : /\ Addon(a)[1] = "ADDON" /\ Addon(a)[2] = a
             /\ Markdown(a)[1] = "MARKDOWN"
  BY DEF Addon, Markdown
<1>9. \A a : a # k.id => SameAt(Addon(a)) BY <1>4, <1>5, <1>8 DEF Elsewhere
<1>10. \A a : SameAt(Markdown(a)) BY <1>4, <1>5, <1>8 DEF Elsewhere
<1>11. k.id \in Known /\ k.id # Nothing /\ Known \subseteq Known'
  BY WriterId, MovesKnown DEF Writing, Step
<1>12. AddonRows'
  <2>1. AddonRow(NewAddon(k.arg[1], k.arg[2]))
    <3>1. 0 \in 0..MaxCards BY CommunityConstants
    <3> QED BY <1>1, <3>1 DEF NewAddon, AddonRow
  <2>2. ASSUME NEW a, Has(Addon(a))' PROVE a \in Known' /\ AddonRow(items'[Addon(a)])
    <3>1. CASE a = k.id BY <1>6, <1>11, <2>1, <3>1
    <3>2. CASE a # k.id
      <4>1. Has(Addon(a)) /\ items'[Addon(a)] = items[Addon(a)] BY <1>9, <2>2, <3>2 DEF SameAt, Has
      <4> QED BY <1>11, <4>1 DEF CommunityInv, Addons, AddonRows
    <3> QED BY <3>1, <3>2
  <2>3. \A row : AddonRow(row) => AddonRow(row)' BY DEF AddonRow, Kinds
  <2> QED BY <2>2, <2>3 DEF AddonRows, AddonRow, Kinds
<1>13. MarkdownOf'
  <2>1. \A a : Has(Addon(a)) => Has(Addon(a))' BY <1>6 DEF Has
  <2>2. \A a : Has(Markdown(a))' => Has(Markdown(a)) BY <1>10 DEF SameAt, Has
  <2> QED BY <2>1, <2>2 DEF CommunityInv, Addons, MarkdownOf, Nothing
<1>14. AddonsGrow(k)
  <2>1. \A a : Has(Addon(a)) => a # k.id BY <1>1
  <2>2. \A a : Has(Addon(a)) => Has(Addon(a))' /\ items'[Addon(a)] = items[Addon(a)]
    BY <1>9, <2>1 DEF SameAt, Has
  <2>3. \A a : Has(Addon(a))' => Has(Addon(a)) \/ a = k.id BY <1>9 DEF SameAt, Has
  <2> QED BY <2>2, <2>3 DEF AddonsGrow
<1>15. \A a : \/ DeckSame(a)
              \/ k.op = "addon" /\ a = k.id /\ ~Has(Addon(a)) /\ ~Has(Markdown(a))'
  <2>1. ~Has(Markdown(k.id)) BY <1>1, <1>11 DEF CommunityInv, Addons, MarkdownOf
  <2>2. ~Has(Markdown(k.id))' BY <1>10, <2>1 DEF SameAt, Has
  <2> QED BY <1>1, <1>9, <1>10, <2>2 DEF DeckSame
<1>16. Addons'
  <2>1. AddonFacts(n)' BY <1>7 DEF Facts
  <2>2. \A a : AddonDeck(a) \notin k.on BY <1>1
  <2>3. Step(w, k, n) BY DEF Writing
  <2> QED BY <1>11, <1>12, <1>13, <1>14, <1>15, <2>1, <2>2, <2>3, AddonsKept DEF CommunityInv
<1> QED BY <1>1, <1>3, <1>4, <1>5, <1>7, <1>8, <1>16, DeckWritten

LEMMA CountSet ==
    ASSUME NEW row, AddonRow(row), NEW c \in 0..MaxCards, NEW u,
           u = Updated(row, [set |-> [count |-> c], add |-> <<>>])
    PROVE  AddonRow(u) /\ u.author = row.author /\ u.kind = row.kind /\ u.count = c
<1>1. PICK attributes : attributes = [count |-> c] OBVIOUS
<1>2. Overlaid(u, row, attributes) BY <1>1, OverlaidAt
<1>3. row = [author |-> row.author, kind |-> row.kind, count |-> row.count] BY DEF AddonRow
<1>4. DOMAIN row = {"author", "kind", "count"} BY <1>3
<1>5. DOMAIN attributes = {"count"} /\ attributes["count"] = c BY <1>1
<1>6. /\ u = [a \in DOMAIN u |-> u[a]] /\ DOMAIN u = {"author", "kind", "count"}
      /\ u["author"] = row["author"] /\ u["kind"] = row["kind"] /\ u["count"] = c
  BY <1>2, <1>4, <1>5 DEF Overlaid
<1>7. u = [author |-> u.author, kind |-> u.kind, count |-> u.count] BY <1>6
<1> QED BY <1>6, <1>7 DEF AddonRow

DeckOps == ByHandOps \cup {"deck"}

LEMMA DeckOn ==
    ASSUME NEW k, k.op \in DeckOps, Request(k), AddonFacts(k)
    PROVE  /\ k.on = {AddonDeck(k.arg[1])} /\ k.op \notin {"reply", "thread", "addon"}
           /\ \A s \in k.on : s[1] = "addon" /\ s[2] = k.arg[1]
           /\ Has(Addon(k.arg[1])) \/ k.arg[1] = Nothing
           /\ \A a : AddonDeck(a) \in k.on => a = k.arg[1]
<1>1. k.on = {AddonDeck(k.arg[1])} BY DEF DeckOps, ByHandOps, Request, HandCall, DeckCall
<1>2. k.op \notin {"reply", "thread", "addon"} BY DEF DeckOps, ByHandOps
<1>3. Has(Addon(k.arg[1])) \/ k.arg[1] = Nothing BY DEF DeckOps, AddonFacts
<1> QED BY <1>1, <1>2, <1>3, Subjects

\* The count of the cards is set.
LEMMA CountWritten ==
    ASSUME CommunityInv, NEW w \in Worker, NEW k, NEW n, NEW x, Writing(w, k, n, x),
           k.op \in DeckOps, NEW c \in 0..MaxCards, k.todo = <<{SetCount(k.arg[1], c)}>>, k.at = "done",
           Has(Addon(k.arg[1])),
           AddonDeck(k.arg[1]) \notin spoiled /\ Has(Markdown(k.arg[1]))
              => items[Markdown(k.arg[1])] = c
    PROVE  CommunityInv'
<1>1. PICK a, y : a = k.arg[1] /\ y = SetCount(a, c) OBVIOUS
<1>2. k.todo = <<{y}>> BY <1>1
<1>3. n = Idle /\ x = y /\ items' = After(y) BY <1>2, LastWrite
<1>4. y.do = "update" /\ y.key = Addon(a) /\ y.val = [set |-> [count |-> c], add |-> <<>>]
  BY <1>1 DEF SetCount, Update
<1>5. Elsewhere(y.key) BY <1>3, <1>4, WritesElsewhere
<1>6. /\ DOMAIN items' = DOMAIN items \cup {Addon(a)}
      /\ items'[Addon(a)] = Updated(items[Addon(a)], [set |-> [count |-> c], add |-> <<>>])
  BY ZenonT(60), <1>1, <1>3, <1>4, UpdateFacts DEF UpdatesItem, Has
<1>7. AddonRow(items[Addon(a)]) /\ a \in Known BY <1>1 DEF CommunityInv, Addons, AddonRows
<1>8. /\ AddonRow(items'[Addon(a)])
      /\ items'[Addon(a)].author = items[Addon(a)].author
      /\ items'[Addon(a)].kind = items[Addon(a)].kind
      /\ items'[Addon(a)].count = c
  BY <1>6, <1>7, CountSet
<1>9. Request(n)' /\ Facts(n)' BY <1>3, IdleFacts
<1>10. \A b : /\ Addon(b)[1] = "ADDON" /\ Addon(b)[2] = b
              /\ Markdown(b)[1] = "MARKDOWN"
  BY DEF Addon, Markdown
<1>11. \A b : b # a => SameAt(Addon(b)) BY <1>4, <1>5, <1>10 DEF Elsewhere
<1>12. \A b : SameAt(Markdown(b)) BY <1>4, <1>5, <1>10 DEF Elsewhere
<1>13. \A b : Has(Addon(b))' <=> Has(Addon(b)) BY <1>1, <1>6 DEF Has
<1>14. Known \subseteq Known' BY MovesKnown DEF Writing, Step
<1>15. AddonRows'
  <2>1. ASSUME NEW b, Has(Addon(b))' PROVE b \in Known' /\ AddonRow(items'[Addon(b)])
    <3>1. CASE b = a BY <1>7, <1>8, <1>14, <3>1
    <3>2. CASE b # a
      <4>1. Has(Addon(b)) /\ items'[Addon(b)] = items[Addon(b)] BY <1>11, <2>1, <3>2 DEF SameAt, Has
      <4> QED BY <1>14, <4>1 DEF CommunityInv, Addons, AddonRows
    <3> QED BY <3>1, <3>2
  <2> QED BY <2>1 DEF AddonRows, AddonRow, Kinds
<1>16. MarkdownOf'
  <2>1. \A b : Has(Markdown(b))' => Has(Markdown(b)) BY <1>12 DEF SameAt, Has
  <2> QED BY <1>13, <2>1 DEF CommunityInv, Addons, MarkdownOf, Nothing
<1>17. AddonsGrow(k)
  <2>1. \A b : Has(Addon(b)) => /\ items'[Addon(b)].author = items[Addon(b)].author
                                /\ items'[Addon(b)].kind = items[Addon(b)].kind
    <3> SUFFICES ASSUME NEW b, Has(Addon(b))
                 PROVE  /\ items'[Addon(b)].author = items[Addon(b)].author
                        /\ items'[Addon(b)].kind = items[Addon(b)].kind
      OBVIOUS
    <3>1. CASE b = a BY <1>8, <3>1
    <3>2. CASE b # a BY <1>11, <3>2 DEF SameAt, Has
    <3> QED BY <3>1, <3>2
  <2> QED BY <1>13, <2>1 DEF AddonsGrow
<1>18. /\ \A s \in k.on : s[1] = "addon"
       /\ \A b : b # a => AddonDeck(b) \notin k.on
       /\ k.op \notin {"reply", "thread", "addon"}
  BY <1>1, DeckOn DEF Writing, Facts
<1>19. Addons'
  <2>1. AddonFacts(n)' BY <1>9 DEF Facts
  <2>2. ASSUME NEW b PROVE AddonDeck(b) \in k.on \/ DeckSame(b)
    <3>1. CASE b = a
      <4>1. k.on = {AddonDeck(a)} BY <1>1, DeckOn DEF Writing, Facts
      <4> QED BY <3>1, <4>1
    <3>2. CASE b # a BY <1>11, <1>12, <3>2 DEF DeckSame
    <3> QED BY <3>1, <3>2
  <2>3. ASSUME NEW b, AddonDeck(b) \in k.on, AddonDeck(b) \notin spoiled' PROVE CardsCounted(b)'
    <3>1. b = a BY <1>18, <2>3
    <3>2. AddonDeck(a) \notin spoiled BY <2>3, <3>1 DEF Writing
    <3>3. Has(Markdown(a))' => items'[Markdown(a)] = c BY <1>1, <1>12, <3>2 DEF SameAt, Has
    <3> QED BY <1>8, <3>1, <3>3 DEF CardsCounted, Addon, Markdown
  <2>4. Step(w, k, n) BY DEF Writing
  <2> QED BY <1>15, <1>16, <1>17, <1>18, <2>1, <2>2, <2>3, <2>4, AddonsKept DEF CommunityInv
<1> QED BY <1>3, <1>4, <1>5, <1>9, <1>10, <1>18, <1>19, DeckWritten

\* The deck itself is stored or deleted.
LEMMA MarkdownWritten ==
    ASSUME CommunityInv, NEW w \in Worker, NEW k, NEW n, NEW x, Writing(w, k, n, x),
           k.op \in DeckOps, x.key = Markdown(k.arg[1]), x.do \in {"put", "delete"},
           Request(n)', Facts(n)', n = Idle => AddonDeck(k.arg[1]) \in spoiled
    PROVE  CommunityInv'
<1>1. PICK a : a = k.arg[1] OBVIOUS
<1>2. Elsewhere(x.key) /\ items' = After(x) BY WritesElsewhere DEF Writing
<1>3. \A b : /\ Addon(b)[1] = "ADDON"
             /\ Markdown(b)[1] = "MARKDOWN" /\ Markdown(b)[2] = b
  BY DEF Addon, Markdown
<1>4. \A b : SameAt(Addon(b)) BY <1>2, <1>3 DEF Elsewhere
<1>5. \A b : b # a => SameAt(Markdown(b)) BY <1>1, <1>2, <1>3 DEF Elsewhere
<1>6. /\ \A s \in k.on : s[1] = "addon"
      /\ k.on = {AddonDeck(a)} /\ \A b : AddonDeck(b) \in k.on => b = a
      /\ k.op \notin {"reply", "thread", "addon"}
      /\ Has(Addon(a)) \/ a = Nothing
  BY <1>1, DeckOn DEF Writing, Facts
<1>7. \A b : (Has(Addon(b))' <=> Has(Addon(b))) /\ (Has(Addon(b)) => items'[Addon(b)] = items[Addon(b)])
  BY <1>4 DEF SameAt, Has
<1>8. Known \subseteq Known' BY MovesKnown DEF Writing, Step
<1>9. AddonRows'
  <2>1. \A b : Has(Addon(b))' => b \in Known' /\ AddonRow(items'[Addon(b)])
    BY <1>7, <1>8 DEF CommunityInv, Addons, AddonRows
  <2> QED BY <2>1 DEF AddonRows, AddonRow, Kinds
<1>10. MarkdownOf'
  <2>1. \A b : Has(Markdown(b))' => Has(Markdown(b)) \/ b = a BY <1>5 DEF SameAt, Has
  <2> QED BY <1>6, <1>7, <2>1 DEF CommunityInv, Addons, MarkdownOf, Nothing
<1>11. AddonsGrow(k) BY <1>7 DEF AddonsGrow
<1>12. Addons'
  <2>1. AddonFacts(n)' BY DEF Facts
  <2>2. \A b : AddonDeck(b) \in k.on \/ DeckSame(b) BY <1>4, <1>5, <1>6 DEF DeckSame
  <2>3. \A b : ~(AddonDeck(b) \in k.on /\ n = Idle /\ AddonDeck(b) \notin spoiled')
    BY <1>1, <1>6 DEF Writing
  <2>4. Step(w, k, n) BY DEF Writing
  <2> QED BY <1>6, <1>9, <1>10, <1>11, <2>1, <2>2, <2>3, <2>4, AddonsKept DEF CommunityInv
<1> QED BY <1>2, <1>3, <1>6, <1>12, DeckWritten

LEMMA HandWritten ==
    ASSUME CommunityInv, NEW w \in Worker, NEW k, NEW n, NEW x, Writing(w, k, n, x),
           k.op \in ByHandOps
    PROVE  CommunityInv'
<1>1. /\ Request(k) /\ Facts(k) /\ AddonDeck(k.arg[1]) \in spoiled /\ k.op \in DeckOps
      /\ k.at = "done" /\ HandCall(k)
  BY DEF Writing, Request, HandCall, Facts, AddonFacts, DeckOps, ByHandOps
<1>2. CASE k.op = "patch" /\ k.todo = <<{SetCount(k.arg[1], k.arg[3])}>>
  <2>1. Has(Addon(k.arg[1])) BY <1>1, <1>2 DEF Facts, AddonFacts
  <2>2. k.arg[3] \in 0..MaxCards BY <1>1, <1>2 DEF HandCall
  <2> QED BY <1>1, <1>2, <2>1, <2>2, CountWritten
<1>3. ASSUME NEW y, y.key = Markdown(k.arg[1]), y.do \in {"put", "delete"}, k.todo = <<{y}>>
      PROVE  CommunityInv'
  <2>1. x = y /\ n = Idle
    <3>1. k.at = "done" BY <1>1
    <3>2. k.todo = <<{y}>> BY <1>3
    <3> QED BY <3>1, <3>2, LastWrite
  <2>2. Request(n)' /\ Facts(n)' BY <2>1, IdleFacts
  <2> QED BY <1>1, <1>3, <2>1, <2>2, MarkdownWritten
<1>4. CASE k.todo = <<{Put(Markdown(k.arg[1]), k.arg[2])}>>
  <2>1. PICK y : y = Put(Markdown(k.arg[1]), k.arg[2]) OBVIOUS
  <2>2. y.key = Markdown(k.arg[1]) /\ y.do = "put" /\ k.todo = <<{y}>> BY <1>4, <2>1 DEF Put
  <2> QED BY <1>3, <2>2
<1>5. CASE k.todo = <<{Delete(Markdown(k.arg[1]))}>>
  <2>1. PICK y : y = Delete(Markdown(k.arg[1])) OBVIOUS
  <2>2. y.key = Markdown(k.arg[1]) /\ y.do = "delete" /\ k.todo = <<{y}>> BY <1>5, <2>1 DEF Delete
  <2> QED BY <1>3, <2>2
<1> QED BY <1>1, <1>2, <1>4, <1>5 DEF HandCall

LEMMA StoreWritten ==
    ASSUME CommunityInv, NEW w \in Worker, NEW k, NEW n, NEW x, Writing(w, k, n, x), k.op = "deck"
    PROVE  CommunityInv'
<1>1. /\ Request(k) /\ Facts(k) /\ k.op \in DeckOps /\ k.at = "done" /\ DeckCall(k)
      /\ Has(Addon(k.arg[1])) /\ k.arg[3] \in 0..MaxCards
  BY DEF Writing, Request, DeckCall, Facts, AddonFacts, DeckOps, ByHandOps
<1>2. PICK a, c : a = k.arg[1] /\ c = k.arg[3] OBVIOUS
<1>3. AddonDeck(a) \notin spoiled => DeckFacts(k) BY <1>1, <1>2 DEF Facts, AddonFacts
<1>4. CASE k.todo = CountLeft(k)
  <2>1. AddonDeck(a) \notin spoiled => items[Markdown(a)] = c
    BY <1>2, <1>3, <1>4 DEF DeckFacts
  <2>2. k.todo = <<{SetCount(a, c)}>> BY <1>2, <1>4 DEF CountLeft
  <2> QED BY <1>1, <1>2, <2>1, <2>2, CountWritten
<1>5. CASE k.todo = StoreAndCount(a, c)
  <2>1. PICK y, z : y = Put(Markdown(a), c) /\ z = SetCount(a, c) OBVIOUS
  <2>2. k.todo = <<{y}, {z}>> BY <1>5, <2>1 DEF StoreAndCount
  <2>3. x = y /\ items' = After(y) /\ Continues(k, n, <<{z}>>) BY <2>2, FirstOfTwo
  <2>4. y.do = "put" /\ y.key = Markdown(a) /\ y.val = c BY <2>1 DEF Put
  <2>5. /\ n.op = "deck" /\ n.at = "done" /\ n.id = k.id /\ n.on = k.on /\ n.arg = k.arg
        /\ n.todo = <<{z}>>
    BY <1>1, <2>3 DEF Continues
  <2>6. Request(n)
    <3>1. DeckCall(n) BY <1>1, <1>2, <2>1, <2>5 DEF DeckCall, CountLeft
    <3> QED BY <1>1, <2>5, <3>1 DEF Request, ByHandOps
  <2>7. Request(n)' BY <2>6, RequestStays DEF Writing
  <2>8. DOMAIN items' = DOMAIN items \cup {Markdown(a)} /\ items'[Markdown(a)] = c
    BY <2>3, <2>4, PutFacts
  <2>9. SameAt(Addon(a))
    <3>1. Elsewhere(Markdown(a)) BY <2>3, <2>4, WritesElsewhere
    <3>2. Addon(a) # Markdown(a) BY DEF Addon, Markdown
    <3> QED BY <3>1, <3>2 DEF Elsewhere
  <2>10. AddonFacts(n)'
    <3>1. Has(Addon(a))' BY <1>1, <1>2, <2>9 DEF SameAt, Has
    <3>2. AddonDeck(a) \notin spoiled' => DeckFacts(n)'
      <4>1. ASSUME AddonDeck(a) \notin spoiled' PROVE MayPutDeck(k.arg[2], a)
        <5>1. DeckFacts(k) BY <1>3, <4>1 DEF Writing
        <5> QED BY <1>1, <1>2, <5>1 DEF DeckFacts
      <4>2. MayPutDeck(k.arg[2], a) => MayPutDeck(k.arg[2], a)'
        BY <2>9 DEF MayPutDeck, Owns, SameAt, Has
      <4>3. Has(Markdown(a))' /\ items'[Markdown(a)] = k.arg[3] BY <1>2, <2>8 DEF Has
      <4> QED BY <1>2, <2>5, <4>1, <4>2, <4>3 DEF DeckFacts, CountLeft, SetCount
    <3> QED BY <1>2, <2>5, <3>1, <3>2 DEF AddonFacts, ByHandOps, AddonDeck
  <2>11. Facts(n)'
    BY <2>5, <2>10 DEF Facts, ThreadFacts, PostFacts, TextFacts, VoteFacts, LinkFacts, ByHandOps
  <2>12. n # Idle BY <2>5, IdleCall
  <2> QED BY <1>1, <1>2, <2>3, <2>4, <2>7, <2>11, <2>12, MarkdownWritten
<1> QED BY <1>1, <1>2, <1>4, <1>5 DEF DeckCall

-----------------------------------------------------------------------------
(* Rows of threads.                                                        *)

\* Of all there is only the row of one thread is written.
OnlyThread(t) ==
    /\ KeptOwn /\ KeptCopies /\ KeptVotes /\ KeptAddons /\ KeptLinks
    /\ \A o : o # t => SameAt(Thread(o))

LEMMA ThreadKey ==
    ASSUME NEW t, Elsewhere(Thread(t))
    PROVE  OnlyThread(t)
<1>1. \A o : Thread(o)[1] = "THREAD" /\ Thread(o)[2] = o BY DEF Thread
<1>2. KeptOwn /\ KeptCopies /\ KeptVotes /\ KeptAddons /\ KeptLinks BY <1>1, Families
<1>3. \A o : o # t => SameAt(Thread(o)) BY <1>1 DEF Elsewhere
<1> QED BY <1>2, <1>3 DEF OnlyThread

LEMMA UpdateOldFacts ==
    ASSUME NEW x, x.do = "updateOld", items' = After(x)
    PROVE  /\ x.key \in DOMAIN items => /\ DOMAIN items' = DOMAIN items
                                        /\ items'[x.key] = Updated(items[x.key], x.val)
           /\ x.key \notin DOMAIN items => items' = items
BY DEF After, AfterIn

LEMMA ThreadAttributes ==
    ASSUME NEW row, ThreadRow(row)
    PROVE  DOMAIN row = {"text", "replies", "views", "up", "down"}
<1>1. row = [text |-> row.text, replies |-> row.replies, views |-> row.views, up |-> row.up,
             down |-> row.down]
  BY DEF ThreadRow
<1> QED BY <1>1

LEMMA ThreadRowOf ==
    ASSUME NEW u, u = [a \in DOMAIN u |-> u[a]],
           DOMAIN u = {"text", "replies", "views", "up", "down"},
           u.text \in {"new", "edited"}, u.replies \in Nat, u.views \in Nat,
           u.up \in 0..Cardinality(User), u.down \in 0..Cardinality(User)
    PROVE  ThreadRow(u)
<1>1. u = [text |-> u.text, replies |-> u.replies, views |-> u.views, up |-> u.up, down |-> u.down]
  OBVIOUS
<1> QED BY <1>1 DEF ThreadRow

\* One is added to an attribute.
LEMMA RowAdded ==
    ASSUME NEW row, ThreadRow(row), NEW b \in {"views", "replies"}, NEW add,
           DOMAIN add = {b}, add[b] = 1,
           NEW u, u = Updated(row, [set |-> <<>>, add |-> add])
    PROVE  /\ ThreadRow(u) /\ u.up = row.up /\ u.down = row.down
           /\ u[b] = row[b] + 1
           /\ b = "views" => u.replies = row.replies
           /\ b = "replies" => u.views = row.views
<1>1. PICK change : change = [set |-> <<>>, add |-> add] OBVIOUS
<1>2. change.add = add /\ DOMAIN change.set = {} BY <1>1, NoAttributes
<1>3. ChangedTo(u, row, change) BY <1>1, <1>2, UpdatedAt DEF SetsApart
<1>4. DOMAIN row = {"text", "replies", "views", "up", "down"} BY ThreadAttributes
<1>5. row["views"] \in Nat /\ row["replies"] \in Nat BY DEF ThreadRow
<1>6. /\ u = [a \in DOMAIN u |-> u[a]] /\ DOMAIN u = DOMAIN row
      /\ \A a \in DOMAIN row \ {b} : u[a] = row[a]
      /\ u[b] = row[b] + 1
  <2>1. u = [a \in DOMAIN u |-> u[a]] BY <1>3 DEF ChangedTo
  <2>2. DOMAIN u = DOMAIN row BY <1>2, <1>3, <1>4 DEF ChangedTo
  <2>3. \A a \in DOMAIN row \ {b} : u[a] = row[a] BY <1>2, <1>3 DEF ChangedTo
  <2>4. b \in DOMAIN change.add \cap DOMAIN row BY <1>2, <1>4
  <2>5. change.add[b] = 1 /\ row[b] \in Nat BY <1>2, <1>5
  <2>6. change.add[b] \in Int /\ row[b] \in Int BY <2>5
  <2>7. u[b] = row[b] + change.add[b] BY <1>3, <2>4, <2>6 DEF ChangedTo
  <2> QED BY <2>1, <2>2, <2>3, <2>5, <2>7
<1>7. u[b] \in Nat BY <1>5, <1>6
<1>8. u.text = row.text /\ u.up = row.up /\ u.down = row.down BY <1>4, <1>6
<1>9. b = "views" => u.replies = row.replies BY <1>4, <1>6
<1>10. b = "replies" => u.views = row.views BY <1>4, <1>6
<1>11. u.replies \in Nat /\ u.views \in Nat BY <1>5, <1>7, <1>9, <1>10
<1>12. ThreadRow(u) BY <1>4, <1>6, <1>8, <1>11, ThreadRowOf DEF ThreadRow
<1> QED BY <1>6, <1>8, <1>9, <1>10, <1>12

LEMMA RowEdited ==
    ASSUME NEW row, ThreadRow(row), NEW u,
           u = Updated(row, [set |-> [text |-> "edited"], add |-> <<>>])
    PROVE  ThreadRow(u) /\ u.up = row.up /\ u.down = row.down /\ u.replies = row.replies
           /\ u.views = row.views
<1>1. PICK attributes : attributes = [text |-> "edited"] OBVIOUS
<1>2. Overlaid(u, row, attributes) BY <1>1, OverlaidAt
<1>3. DOMAIN row = {"text", "replies", "views", "up", "down"} BY ThreadAttributes
<1>4. DOMAIN attributes = {"text"} /\ attributes["text"] = "edited" BY <1>1
<1>5. /\ u = [a \in DOMAIN u |-> u[a]] /\ DOMAIN u = {"text", "replies", "views", "up", "down"}
      /\ u["text"] = "edited" /\ u["replies"] = row["replies"] /\ u["views"] = row["views"]
      /\ u["up"] = row["up"] /\ u["down"] = row["down"]
  BY <1>2, <1>3, <1>4 DEF Overlaid
<1> QED BY <1>5, ThreadRowOf DEF ThreadRow

LEMMA RowCounted ==
    ASSUME NEW row, ThreadRow(row), NEW c, Counts(c), NEW u,
           u = Updated(row, [set |-> c, add |-> <<>>])
    PROVE  ThreadRow(u) /\ u.up = c.up /\ u.down = c.down /\ u.replies = row.replies
           /\ u.views = row.views
<1>1. Overlaid(u, row, c) BY OverlaidAt
<1>2. DOMAIN row = {"text", "replies", "views", "up", "down"} BY ThreadAttributes
<1>3. DOMAIN c = {"up", "down"}
  <2>1. c = [up |-> c.up, down |-> c.down] BY DEF Counts
  <2> QED BY <2>1
<1>4. /\ u = [a \in DOMAIN u |-> u[a]] /\ DOMAIN u = {"text", "replies", "views", "up", "down"}
      /\ u["text"] = row["text"] /\ u["replies"] = row["replies"] /\ u["views"] = row["views"]
      /\ u["up"] = c["up"] /\ u["down"] = c["down"]
  BY <1>1, <1>2, <1>3 DEF Overlaid
<1> QED BY <1>4, ThreadRowOf DEF ThreadRow, Counts

\* The row of a thread that is there is written.
LEMMA ThreadChanged ==
    ASSUME CommunityInv, NEW w \in Worker, NEW k, NEW n, NEW x, Writing(w, k, n, x),
           Request(n)', Facts(n)', NEW t, Has(Thread(t)), OnlyThread(t), DOMAIN items' = DOMAIN items,
           ThreadRow(items'[Thread(t)]), items'[Thread(t)].views <= Cardinality(Viewed(t)'),
           RepliesCounted', Texts', VotesInv',
           n = Idle => k.op # "thread" /\ \A s \in k.on : s[1] # "addon",
           n = Idle /\ k.op = "reply" => Has(Post(k.id))
    PROVE  CommunityInv'
<1>1. KeptOwn /\ KeptCopies /\ KeptVotes /\ KeptAddons /\ KeptLinks BY DEF OnlyThread
<1>2. \A o : Has(Thread(o))' <=> Has(Thread(o)) BY DEF Has
<1>3. GrowThreads BY <1>2 DEF GrowThreads
<1>4. Moves(w, k, n) BY DEF Writing, Step
<1>5. Threads'
  <2>1. ASSUME NEW o, Has(Thread(o))'
        PROVE  /\ o \in Known' /\ ThreadRow(items'[Thread(o)])
               /\ items'[Thread(o)].views <= Cardinality(Viewed(o)')
    <3>1. o \in Known /\ ThreadRow(items[Thread(o)]) BY <1>2, <2>1 DEF CommunityInv, Threads, ThreadRows
    <3>2. o \in Known' BY <1>4, <3>1, MovesKnown
    <3>3. CASE o = t BY <3>2, <3>3
    <3>4. CASE o # t
      <4>1. items'[Thread(o)] = items[Thread(o)] BY <1>2, <2>1, <3>4 DEF OnlyThread, SameAt, Has
      <4>2. items[Thread(o)].views \in Nat BY <3>1 DEF ThreadRow
      <4>3. items[Thread(o)].views <= Cardinality(Viewed(o))
        BY <1>2, <2>1 DEF CommunityInv, Threads, Views
      <4>4. items[Thread(o)].views <= Cardinality(Viewed(o)')
        BY <1>4, <4>2, <4>3, ViewedMore DEF CommunityInv
      <4> QED BY <3>1, <3>2, <4>1, <4>4
    <3> QED BY <3>3, <3>4
  <2>2. ThreadFacts(n)' BY DEF Facts
  <2> QED BY <1>2, <1>4, <2>1, <2>2, ThreadsKept DEF CommunityInv
<1>6. Posts'
  <2>1. PostFacts(n)' BY DEF Facts
  <2> QED BY <1>1, <1>3, <1>4, <2>1, PostsFrame DEF CommunityInv
<1>7. CopyHasPost'
  <2>1. SamePlaces BY <1>1, PostsSame
  <2>2. PlacesGrow(k) BY <2>1, PlacesStay
  <2>3. \A o, p : Has(PostIn(o, p))' => Has(PostIn(o, p)) BY <2>1 DEF SamePlaces
  <2> QED BY <1>4, <2>2, <2>3, CopyFrame DEF CommunityInv
<1>8. Addons' BY <1>1, AddonsRest
<1>9. Links' BY <1>1, LinksRest
<1> QED BY <1>5, <1>6, <1>7, <1>8, <1>9, Together

\* What such a write leaves alone.
LEMMA RepliesRest ==
    ASSUME CommunityInv, NEW w \in Worker, NEW k, NEW n, NEW x, Writing(w, k, n, x),
           KeptOwn, KeptCopies, KeptReplies, n = Idle => k.op # "reply"
    PROVE  RepliesCounted'
<1>1. SamePlaces BY PostsSame
<1> QED BY <1>1, RepliesFrame DEF CommunityInv, Posts, Threads, Writing, Step

LEMMA TextsRest ==
    ASSUME CommunityInv, NEW w \in Worker, NEW k, NEW n, NEW x, Writing(w, k, n, x), Facts(n)',
           KeptOwn, KeptCopies,
           \A p : PostText(p) \in k.on /\ n = Idle /\ Has(Post(p)) /\ PostText(p) \notin spoiled
              => TextAgrees(p)
    PROVE  Texts'
<1>1. SamePlaces /\ KeptTexts BY PostsSame
<1>2. \A p : TextSame(p) BY <1>1, TextsSame
<1>3. ASSUME NEW p, PostText(p) \in k.on, n = Idle, Has(Post(p))', PostText(p) \notin spoiled'
      PROVE  TextAgrees(p)'
  <2>1. TextSame(p) BY <1>2
  <2>2. Has(Post(p)) /\ ThreadOf(p)' = ThreadOf(p) BY <1>3, <2>1 DEF TextSame, ThreadOf
  <2>3. TextAgrees(p) BY <1>3, <2>2 DEF Writing
  <2> QED BY <2>1, <2>2, <2>3 DEF TextSame, TextAgrees
<1>4. TextFacts(n)' /\ Step(w, k, n) BY DEF Facts, Writing
<1> QED BY <1>2, <1>3, <1>4, TextsKept DEF CommunityInv

LEMMA VotesRest ==
    ASSUME CommunityInv, NEW w \in Worker, NEW k, NEW n, NEW x, Writing(w, k, n, x), Facts(n)',
           GrowThreads, KeptOwn, KeptCopies, KeptVotes,
           \A t : ThreadVotes(t) \in k.on \/ TallySame(t) \/ Born(t),
           \A p : PostVotes(p) \in k.on /\ n = Idle /\ Has(Post(p)) /\ PostVotes(p) \notin spoiled
              => BothCounted(p),
           \A t : /\ ThreadVotes(t) \in k.on /\ n = Idle
                  /\ Has(Thread(t))' /\ ThreadVotes(t) \notin spoiled'
                  => VotesCounted(items'[Thread(t)], ThreadVotes(t))
    PROVE  VotesInv'
<1>1. SamePlaces /\ KeptPostTallies BY PostsSame
<1>2. PlacesGrow(k) BY <1>1, PlacesStay
<1>3. VotedThreads' /\ VotedPosts' /\ \A s : VotesSame(s) BY <1>2, VotedStay DEF CommunityInv
<1>4. \A p : PostTallySame(p) BY <1>1, TalliesSame
<1>5. ASSUME NEW p, PostVotes(p) \in k.on, n = Idle, Has(Post(p))', PostVotes(p) \notin spoiled'
      PROVE  BothCounted(p)'
  <2>1. Has(Post(p)) /\ items'[Post(p)] = items[Post(p)] BY <1>5 DEF KeptOwn, SameAt, Has
  <2>2. BothCounted(p) BY <1>5, <2>1 DEF Writing
  <2>3. PICK s, t, row, copy : /\ s = PostVotes(p) /\ t = ThreadOf(p) /\ row = items[Post(p)]
                               /\ copy = items[PostIn(t, p)]
    OBVIOUS
  <2>4. VotesCounted(row, s) /\ (Has(PostIn(t, p)) => VotesCounted(copy, s))
    BY <2>2, <2>3 DEF BothCounted
  <2>5. VotesCounted(row, s)' /\ (Has(PostIn(t, p)) => VotesCounted(copy, s)')
    BY <1>3, <2>4, SameVotes
  <2>6. t = ThreadOf(p)' /\ row = items'[Post(p)] BY <2>1, <2>3 DEF ThreadOf
  <2>7. Has(PostIn(t, p))' => Has(PostIn(t, p)) /\ copy = items'[PostIn(t, p)]
    BY <2>3 DEF KeptCopies, SameAt, Has
  <2> QED BY <2>3, <2>5, <2>6, <2>7 DEF BothCounted, PostVotes, Post, PostIn
<1>6. ASSUME NEW t, ThreadVotes(t) \in k.on, n = Idle, Has(Thread(t))',
             ThreadVotes(t) \notin spoiled'
      PROVE  VotesCounted(items[Thread(t)], ThreadVotes(t))'
  <2>1. PICK row, s : row = items'[Thread(t)] /\ s = ThreadVotes(t) OBVIOUS
  <2>2. VotesCounted(row, s) BY <1>6, <2>1
  <2>3. VotesCounted(row, s)' BY <1>3, <2>2, SameVotes
  <2> QED BY <2>1, <2>3 DEF ThreadVotes, Thread
<1>7. VoteFacts(n)' /\ Step(w, k, n) BY DEF Facts, Writing
<1> QED BY <1>3, <1>4, <1>5, <1>6, <1>7, VotesKept DEF CommunityInv

LEMMA BornWritten ==
    ASSUME CommunityInv, NEW w \in Worker, NEW k, NEW n, NEW x, Writing(w, k, n, x),
           k.op = "thread", k.at # "done"
    PROVE  CommunityInv'
<1>1. /\ k.on = {Replies(k.id)} /\ k.at = "tags" /\ k.todo = <<{Put(Thread(k.id), NewThread)}>>
      /\ ~Has(Thread(k.id)) /\ ~HasLinks(k.id) /\ ThreadCall(k)
  BY DEF Writing, Request, ThreadCall, Facts, ThreadFacts, LinkFacts, Unborn
<1>2. PICK y : y = Put(Thread(k.id), NewThread) OBVIOUS
<1>3. k.todo = <<{y}>> BY <1>1, <1>2
<1>30. k.at # "done" BY <1>1
<1>4. x = y /\ items' = After(y) /\ Continues(k, n, <<>>)
  <2>1. /\ x = y /\ items' = After(y)
        /\ k.at = "done" => n = Idle
        /\ k.at # "done" => Continues(k, n, <<>>)
    BY <1>3, LastWrite
  <2> QED BY <1>30, <2>1
<1>5. y.do = "put" /\ y.key = Thread(k.id) /\ y.val = NewThread BY <1>2 DEF Put
<1>6. OnlyThread(k.id) BY <1>4, <1>5, WritesElsewhere, ThreadKey
<1>7. DOMAIN items' = DOMAIN items \cup {Thread(k.id)} /\ items'[Thread(k.id)] = NewThread
  BY <1>4, <1>5, PutFacts
<1>8. KeptOwn /\ KeptCopies /\ KeptVotes /\ KeptAddons /\ KeptLinks BY <1>6 DEF OnlyThread
<1>9. /\ n.op = "thread" /\ n.at = "tags" /\ n.id = k.id /\ n.on = k.on /\ n.arg = k.arg /\ n.todo = <<>>
  BY <1>1, <1>4 DEF Continues
<1>10. n # Idle BY <1>9, IdleCall
<1>11. Request(n)
  <2>1. ThreadCall(n) BY <1>1, <1>9 DEF ThreadCall
  <2> QED BY <1>9, <2>1 DEF Request, ByHandOps, Writing
<1>12. Request(n)' BY <1>11, RequestStays DEF Writing
<1>13. ThreadFacts(n)' BY <1>7, <1>9 DEF ThreadFacts, Unborn, Has
<1>14. LinkFacts(n)'
  <2>1. HasLinks(k.id)' => HasLinks(k.id)
    <3> SUFFICES ASSUME HasLinks(k.id)' PROVE HasLinks(k.id)
      OBVIOUS
    <3>1. PICK key \in LinkKeys(k.id) : Has(key)'
      BY DEF HasLinks, LinkKeys, TagOf, Tagged, Link, Linked
    <3> QED BY <1>8, <3>1 DEF KeptLinks, SameAt, Has, HasLinks
  <2> QED BY <1>1, <1>9, <2>1 DEF LinkFacts, HasLinks, LinkKeys, TagOf, Tagged, Link, Linked
<1>15. Facts(n)'
  BY <1>9, <1>13, <1>14 DEF Facts, PostFacts, TextFacts, VoteFacts, AddonFacts, ByHandOps
<1>16. Moves(w, k, n) BY DEF Writing, Step
<1>17. \A o : Has(Thread(o)) => o # k.id /\ Has(Thread(o))' /\ items'[Thread(o)] = items[Thread(o)]
  BY <1>1, <1>6 DEF OnlyThread, SameAt, Has
<1>18. \A o : Has(Thread(o))' => Has(Thread(o)) \/ o = k.id BY <1>6 DEF OnlyThread, SameAt, Has
<1>19. GrowThreads BY <1>17 DEF GrowThreads
<1>20. k.id \in Known' /\ k.id # Nothing BY <1>16, WriterId, MovesKnown
<1>21. /\ NewThread.text = "new" /\ NewThread.replies = 0 /\ NewThread.views = 0
       /\ NewThread.up = 0 /\ NewThread.down = 0 /\ ThreadRow(NewThread)
  <2>1. 0 \in 0..Cardinality(User)
    <3>1. Cardinality(User) \in Nat BY VotesFinite
    <3> QED BY <3>1
  <2> QED BY <2>1 DEF NewThread, ThreadRow
<1>22. Threads'
  <2>1. ASSUME NEW o, Has(Thread(o))'
        PROVE  /\ o \in Known' /\ ThreadRow(items'[Thread(o)])
               /\ items'[Thread(o)].views <= Cardinality(Viewed(o)')
    <3>1. CASE o = k.id
      <4>1. Cardinality(Viewed(o)') \in Nat BY <1>16, ViewedMore DEF CommunityInv
      <4>2. 0 <= Cardinality(Viewed(o)') BY <4>1
      <4> QED BY <1>7, <1>20, <1>21, <3>1, <4>2
    <3>2. CASE Has(Thread(o))
      <4>1. o \in Known /\ ThreadRow(items[Thread(o)]) BY <3>2 DEF CommunityInv, Threads, ThreadRows
      <4>2. items[Thread(o)].views \in Nat BY <4>1 DEF ThreadRow
      <4>3. items[Thread(o)].views <= Cardinality(Viewed(o)) BY <3>2 DEF CommunityInv, Threads, Views
      <4>4. items[Thread(o)].views <= Cardinality(Viewed(o)')
        BY <1>16, <4>2, <4>3, ViewedMore DEF CommunityInv
      <4> QED BY <1>16, <1>17, <3>2, <4>1, <4>4, MovesKnown
    <3> QED BY <1>18, <2>1, <3>1, <3>2
  <2>2. \A t : Has(Thread(t)) => Has(Thread(t))' BY <1>17
  <2>3. \A t : Has(Thread(t))' /\ ~Has(Thread(t)) => k.op = "thread" /\ k.id = t BY <1>18
  <2> QED BY <1>13, <1>16, <2>1, <2>2, <2>3, ThreadsKept DEF CommunityInv
<1>23. Posts'
  <2>1. PostFacts(n)' BY <1>15 DEF Facts
  <2> QED BY <1>8, <1>16, <1>19, <2>1, PostsFrame DEF CommunityInv
<1>24. SamePlaces BY <1>8, PostsSame
<1>25. RepliesCounted'
  <2> SUFFICES ASSUME NEW t, Has(Thread(t))'
               PROVE  /\ items'[Thread(t)].replies <= Cardinality(CountedIn(t)')
                      /\ Replies(t) \notin torn'
                            => items'[Thread(t)].replies = Cardinality(CountedIn(t)')
    BY DEF RepliesCounted, Replies
  <2>1. CountedIn(t)' = CountedIn(t)
    <3>1. /\ CountedIn(t) \subseteq CountedIn(t)'
          /\ \A p \in CountedIn(t)' \ CountedIn(t) : n = Idle
      BY <1>16, <1>24, CountedStay DEF CommunityInv, Posts
    <3> QED BY <1>10, <3>1
  <2>2. CASE t = k.id
    <3>1. CountedIn(t) = {}
      <4> SUFFICES ASSUME NEW p \in CountedIn(t) PROVE FALSE
        OBVIOUS
      <4>1. Has(Post(p)) /\ ThreadOf(p) = t BY DEF CountedIn
      <4> QED BY <1>1, <2>2, <4>1 DEF CommunityInv, Posts, OwnRows
    <3>2. Cardinality(CountedIn(t)') = 0 BY <2>1, <3>1, FS_EmptySet
    <3> QED BY <1>7, <1>21, <2>2, <3>2
  <2>3. CASE t # k.id
    <3>1. Has(Thread(t)) /\ items'[Thread(t)] = items[Thread(t)] BY <1>17, <1>18, <2>3
    <3>2. /\ items[Thread(t)].replies <= Cardinality(CountedIn(t))
          /\ Replies(t) \notin torn => items[Thread(t)].replies = Cardinality(CountedIn(t))
      BY <3>1 DEF CommunityInv, RepliesCounted
    <3> QED BY <2>1, <3>1, <3>2 DEF Writing
  <2> QED BY <2>2, <2>3
<1>26. CopyHasPost'
  <2>1. PlacesGrow(k) BY <1>24, PlacesStay
  <2>2. \A o, p : Has(PostIn(o, p))' => Has(PostIn(o, p)) BY <1>24 DEF SamePlaces
  <2> QED BY <1>10, <1>16, <2>1, <2>2, CopyFrame DEF CommunityInv
<1>27. Texts' BY <1>8, <1>10, <1>15, TextsRest
<1>28. VotesInv'
  <2>1. ASSUME NEW t PROVE TallySame(t) \/ Born(t)
    <3>1. CASE t = k.id BY <1>1, <1>7, <1>20, <1>21, <3>1 DEF Born, NoVotes
    <3>2. CASE t # k.id BY <1>6, <3>2 DEF OnlyThread, SameAt, TallySame, Has
    <3> QED BY <3>1, <3>2
  <2> QED BY <1>8, <1>10, <1>15, <1>19, <2>1, VotesRest
<1>29. Addons' /\ Links' BY <1>8, <1>10, <1>15, AddonsRest, LinksRest
<1> QED BY <1>12, <1>22, <1>23, <1>25, <1>26, <1>27, <1>28, <1>29, Together

-----------------------------------------------------------------------------

\* The row of a thread is there, and one of its attributes is written.
LEMMA RowThere ==
    ASSUME CommunityInv, NEW t, Has(Thread(t))
    PROVE  ThreadRow(items[Thread(t)]) /\ items[Thread(t)].views \in Nat
           /\ items[Thread(t)].views <= Cardinality(Viewed(t))
BY DEF CommunityInv, Threads, ThreadRows, Views, ThreadRow

LEMMA ViewWritten ==
    ASSUME CommunityInv, NEW w \in Worker, NEW k, NEW n, NEW x, Writing(w, k, n, x), k.op = "view"
    PROVE  CommunityInv'
<1>1. PICK t, y, add : t = k.arg[1] /\ y = UpdateOld(Thread(t), <<>>, [views |-> 1])
                       /\ add = [views |-> 1]
  OBVIOUS
<1>2. k.on = {} /\ k.at = "done" /\ k.todo = <<{y}>> /\ Has(Thread(t))
  BY <1>1 DEF Writing, Request, ViewCall, Facts, ThreadFacts
<1>3. n = Idle /\ x = y /\ items' = After(y) BY <1>2, LastWrite
<1>4. y.do = "updateOld" /\ y.key = Thread(t) /\ y.val = [set |-> <<>>, add |-> add]
  BY <1>1 DEF UpdateOld, Update
<1>5. OnlyThread(t) BY <1>3, <1>4, WritesElsewhere, ThreadKey
<1>6. /\ DOMAIN items' = DOMAIN items
      /\ items'[Thread(t)] = Updated(items[Thread(t)], [set |-> <<>>, add |-> add])
  BY <1>2, <1>3, <1>4, UpdateOldFacts DEF Has
<1>7. PICK row, u : row = items[Thread(t)] /\ u = items'[Thread(t)] OBVIOUS
<1>8. ThreadRow(row) /\ row.views \in Nat /\ row.views <= Cardinality(Viewed(t))
  BY <1>2, <1>7, RowThere
<1>9. /\ ThreadRow(u) /\ u.up = row.up /\ u.down = row.down /\ u["views"] = row["views"] + 1
      /\ u.replies = row.replies
  <2>1. DOMAIN add = {"views"} /\ add["views"] = 1 BY <1>1
  <2> QED BY <1>6, <1>7, <1>8, <2>1, RowAdded
<1>10. Request(n)' /\ Facts(n)' BY <1>3, IdleFacts
<1>11. Moves(w, k, n) /\ requests \in Nat /\ requests' = requests BY DEF Writing, Step
<1>12. u.views <= Cardinality(Viewed(t)')
  <2>1. Viewed(t) \subseteq Viewed(t)' BY <1>11, ViewedGrows DEF CommunityInv
  <2>2. k.id \in 1..requests BY WriterId
  <2>3. k.id \notin Viewed(t) BY <1>1, <1>11 DEF Viewed, Viewing, Moves, Writing
  <2>4. k.id \in Viewed(t)'
    <3>1. ASSUME NEW v \in Worker, call'[v].op = "view", call'[v].id = k.id PROVE FALSE
      <4>1. v # w BY <1>3, <1>11, <3>1, IdleCall DEF Moves
      <4>2. call[v].op = "view" /\ call[v].id = k.id BY <1>11, <3>1, <4>1 DEF Moves
      <4> QED BY <1>11, <4>1, <4>2 DEF CommunityInv, CallsInv, Busy, Moves
    <3> QED BY <1>11, <2>2, <3>1 DEF Viewed, Viewing
  <2>5. IsFiniteSet(Viewed(t)) /\ Cardinality(Viewed(t)) \in Nat BY <1>11, GiverViewed
  <2>6. IsFiniteSet(Viewed(t)')
    <3>1. IsFiniteSet(1..requests') BY <1>11, FS_Interval
    <3>2. Viewed(t)' \subseteq 1..requests' BY DEF Viewed
    <3> QED BY <3>1, <3>2, FS_Subset
  <2>7. Cardinality(Viewed(t) \cup {k.id}) = Cardinality(Viewed(t)) + 1
        /\ IsFiniteSet(Viewed(t) \cup {k.id})
    BY <2>3, <2>5, FS_AddElement
  <2>8. Viewed(t) \cup {k.id} \subseteq Viewed(t)' BY <2>1, <2>4
  <2>9. Cardinality(Viewed(t) \cup {k.id}) <= Cardinality(Viewed(t)') BY <2>6, <2>8, FS_Subset
  <2>10. Cardinality(Viewed(t)') \in Nat BY <2>6, FS_CardinalityType
  <2> QED BY <1>8, <1>9, <2>5, <2>7, <2>9, <2>10
<1>13. KeptReplies /\ KeptTallies
  <2>1. \A o : o # t => SameAt(Thread(o)) BY <1>5 DEF OnlyThread
  <2>2. \A o : Has(Thread(o))' <=> Has(Thread(o)) BY <1>6 DEF Has
  <2> QED BY <1>7, <1>9, <2>1, <2>2 DEF KeptReplies, KeptTallies, SameAt, Has
<1>14. GrowThreads /\ \A o : TallySame(o) BY <1>13 DEF KeptTallies, GrowThreads, TallySame
<1>15. KeptOwn /\ KeptCopies /\ KeptVotes BY <1>5 DEF OnlyThread
<1>16. RepliesCounted' BY <1>13, <1>15, RepliesRest
<1>17. Texts' BY <1>2, <1>10, <1>15, TextsRest
<1>18. VotesInv' BY <1>2, <1>10, <1>14, <1>15, VotesRest
<1> QED BY <1>2, <1>5, <1>6, <1>7, <1>9, <1>10, <1>12, <1>16, <1>17, <1>18, ThreadChanged

LEMMA EditWritten ==
    ASSUME CommunityInv, NEW w \in Worker, NEW k, NEW n, NEW x, Writing(w, k, n, x), k.op = "edit"
    PROVE  CommunityInv'
<1>1. PICK t, y : t = k.arg[1] /\ y = Update(Thread(t), [text |-> "edited"], <<>>) OBVIOUS
<1>2. k.on = {} /\ k.at = "done" /\ k.todo = <<{y}>> /\ Has(Thread(t))
  BY <1>1 DEF Writing, Request, EditCall, Facts, ThreadFacts
<1>3. n = Idle /\ x = y /\ items' = After(y) BY <1>2, LastWrite
<1>4. y.do = "update" /\ y.key = Thread(t) /\ y.val = [set |-> [text |-> "edited"], add |-> <<>>]
  BY <1>1 DEF Update
<1>5. OnlyThread(t) BY <1>3, <1>4, WritesElsewhere, ThreadKey
<1>6. /\ DOMAIN items' = DOMAIN items
      /\ items'[Thread(t)] = Updated(items[Thread(t)], [set |-> [text |-> "edited"], add |-> <<>>])
  BY <1>2, <1>3, <1>4, UpdateFacts DEF Has, UpdatesItem
<1>7. PICK row, u : row = items[Thread(t)] /\ u = items'[Thread(t)] OBVIOUS
<1>8. ThreadRow(row) /\ row.views \in Nat /\ row.views <= Cardinality(Viewed(t))
  BY <1>2, <1>7, RowThere
<1>9. /\ ThreadRow(u) /\ u.up = row.up /\ u.down = row.down /\ u.views = row.views
      /\ u.replies = row.replies
  BY <1>6, <1>7, <1>8, RowEdited
<1>10. Request(n)' /\ Facts(n)' BY <1>3, IdleFacts
<1>11. Moves(w, k, n) BY DEF Writing, Step
<1>12. u.views <= Cardinality(Viewed(t)') BY <1>8, <1>9, <1>11, ViewedMore DEF CommunityInv
<1>13. KeptReplies /\ KeptTallies
  <2>1. \A o : o # t => SameAt(Thread(o)) BY <1>5 DEF OnlyThread
  <2>2. \A o : Has(Thread(o))' <=> Has(Thread(o)) BY <1>6 DEF Has
  <2> QED BY <1>7, <1>9, <2>1, <2>2 DEF KeptReplies, KeptTallies, SameAt, Has
<1>14. GrowThreads /\ \A o : TallySame(o) BY <1>13 DEF KeptTallies, GrowThreads, TallySame
<1>15. KeptOwn /\ KeptCopies /\ KeptVotes BY <1>5 DEF OnlyThread
<1>16. RepliesCounted' BY <1>13, <1>15, RepliesRest
<1>17. Texts' BY <1>2, <1>10, <1>15, TextsRest
<1>18. VotesInv' BY <1>2, <1>10, <1>14, <1>15, VotesRest
<1> QED BY <1>2, <1>5, <1>6, <1>7, <1>9, <1>10, <1>12, <1>16, <1>17, <1>18, ThreadChanged

-----------------------------------------------------------------------------

LEMMA ReplyAt ==
    ASSUME NEW k, k.op = "reply", Request(k), Facts(k), k.todo # <<>>
    PROVE  /\ k.at = "done" /\ k.on = {Replies(k.arg[1]), PostText(k.id), PostVotes(k.id)}
           /\ Has(Thread(k.arg[1])) /\ ReplyOf(k)
           /\ \/ k.todo = ReplyPlan(k, {PutCopy(k), PutOwn(k)})
              \/ k.todo = ReplyPlan(k, {PutCopy(k)})
              \/ k.todo = ReplyPlan(k, {PutOwn(k)})
              \/ k.todo = ReplyEnd(k)
<1>1. ReplyCall(k) BY DEF Request
<1>2. k.at = "done" BY <1>1 DEF ReplyCall
<1> QED BY <1>1, <1>2 DEF ReplyCall, Facts, ThreadFacts, PostFacts

LEMMA PutsApart ==
    ASSUME NEW k
    PROVE  /\ PutCopy(k) # PutOwn(k) /\ PutCopy(k) # CountReply(k.arg[1])
           /\ PutOwn(k) # CountReply(k.arg[1])
<1>1. PutCopy(k).do = "put" /\ PutOwn(k).do = "put" BY DEF PutCopy, PutOwn, Put
<1>2. CountReply(k.arg[1]).do = "updateOld" BY DEF CountReply, UpdateOld, Update
<1>3. PutCopy(k).key # PutOwn(k).key
  <2>1. PutCopy(k).key[1] = "THREAD_POST" /\ PutOwn(k).key[1] = "POST"
    BY DEF PutCopy, PutOwn, Put, PostIn, Post
  <2> QED BY <2>1
<1> QED BY <1>1, <1>2, <1>3

\* The reply is counted, and nothing else of the thread is touched.
LEMMA ReplyCountWritten ==
    ASSUME CommunityInv, NEW w \in Worker, NEW k, NEW n, NEW x, Writing(w, k, n, x),
           k.op = "reply", k.todo = ReplyEnd(k)
    PROVE  CommunityInv'
<1>1. PICK t, y, add : /\ t = k.arg[1] /\ y = UpdateOld(Thread(t), <<>>, add)
                       /\ add = [replies |-> 1]
  OBVIOUS
<1>2. Request(k) /\ Facts(k) /\ k.todo # <<>> BY DEF Writing
<1>3. /\ k.at = "done" /\ k.on = {Replies(t), PostText(k.id), PostVotes(k.id)} /\ k.todo = <<{y}>>
      /\ Has(Thread(t)) /\ ReplyOf(k)
  BY <1>1, <1>2, ReplyAt DEF ReplyEnd, CountReply
<1>4. n = Idle /\ x = y /\ items' = After(y) BY <1>3, LastWrite
<1>5. y.do = "updateOld" /\ y.key = Thread(t) /\ y.val = [set |-> <<>>, add |-> add]
  BY <1>1 DEF UpdateOld, Update
<1>6. OnlyThread(t) BY <1>4, <1>5, WritesElsewhere, ThreadKey
<1>7. /\ DOMAIN items' = DOMAIN items
      /\ items'[Thread(t)] = Updated(items[Thread(t)], [set |-> <<>>, add |-> add])
  BY <1>3, <1>4, <1>5, UpdateOldFacts DEF Has
<1>8. PICK row, u : row = items[Thread(t)] /\ u = items'[Thread(t)] OBVIOUS
<1>9. ThreadRow(row) /\ row.views \in Nat /\ row.views <= Cardinality(Viewed(t))
  BY <1>3, <1>8, RowThere
<1>10. /\ ThreadRow(u) /\ u.up = row.up /\ u.down = row.down
       /\ u["replies"] = row["replies"] + 1 /\ u.views = row.views
  <2>1. DOMAIN add = {"replies"} /\ add["replies"] = 1 BY <1>1
  <2> QED BY <1>7, <1>8, <1>9, <2>1, RowAdded
<1>11. Request(n)' /\ Facts(n)' BY <1>4, IdleFacts
<1>12. Moves(w, k, n) /\ requests \in Nat /\ requests' = requests /\ torn' = torn BY DEF Writing, Step
<1>13. u.views <= Cardinality(Viewed(t)') BY <1>9, <1>10, <1>12, ViewedMore DEF CommunityInv
<1>14. Has(Post(k.id)) /\ ThreadOf(k.id) = t
  <2>1. Planned(k.todo) = {y} BY <1>3, OneWrite
  <2>2. PutOwn(k) # y BY <1>1, PutsApart DEF CountReply
  <2>3. ~OwnLeft(k) BY <1>3, <2>1, <2>2 DEF OwnLeft
  <2> QED BY <1>1, <1>3, <2>3 DEF ReplyOf
<1>15. KeptOwn /\ KeptCopies /\ KeptVotes BY <1>6 DEF OnlyThread
<1>16. SamePlaces BY <1>15, PostsSame
<1>17. ASSUME NEW o
       PROVE  /\ CountedIn(o) \subseteq CountedIn(o)'
              /\ \A p \in CountedIn(o)' \ CountedIn(o) : p = k.id /\ ThreadOf(p) = o
  BY <1>12, <1>16, CountedStay DEF CommunityInv, Posts
<1>18. k.id \notin CountedIn(t) BY <1>12 DEF CountedIn, InReply, Moves
<1>19. k.id \in CountedIn(t)'
  <2>1. Has(Post(k.id))' /\ items'[Post(k.id)].thread = t
    BY <1>14, <1>16 DEF SamePlaces, ThreadOf
  <2>2. k.id \in Known' BY <1>12, WriterId, MovesKnown
  <2>3. ASSUME NEW v \in Worker, call'[v].op = "reply", call'[v].id = k.id PROVE FALSE
    <3>1. v # w BY <1>4, <1>12, <2>3, IdleCall DEF Moves
    <3>2. call[v].op = "reply" /\ call[v].id = k.id BY <1>12, <2>3, <3>1 DEF Moves
    <3> QED BY <1>12, <3>1, <3>2 DEF CommunityInv, CallsInv, Busy, Moves
  <2> QED BY <2>1, <2>2, <2>3 DEF CountedIn, InReply, ThreadOf, Post
<1>20. RepliesCounted'
  <2> SUFFICES ASSUME NEW o, Has(Thread(o))'
               PROVE  /\ items'[Thread(o)].replies <= Cardinality(CountedIn(o)')
                      /\ Replies(o) \notin torn'
                            => items'[Thread(o)].replies = Cardinality(CountedIn(o)')
    BY DEF RepliesCounted, Replies
  <2>1. Has(Thread(o)) BY <1>7 DEF Has
  <2>2. /\ items[Thread(o)].replies <= Cardinality(CountedIn(o))
        /\ Replies(o) \notin torn => items[Thread(o)].replies = Cardinality(CountedIn(o))
    BY <2>1 DEF CommunityInv, RepliesCounted
  <2>3. CASE o = t
    <3>1. CountedIn(t)' = CountedIn(t) \cup {k.id} BY <1>17, <1>19
    <3>2. IsFiniteSet(CountedIn(t)) /\ Cardinality(CountedIn(t)) \in Nat BY <1>12, CountedFinite
    <3>3. Cardinality(CountedIn(t)') = Cardinality(CountedIn(t)) + 1
      BY <1>18, <3>1, <3>2, FS_AddElement
    <3>4. row.replies \in Nat BY <1>9 DEF ThreadRow
    <3>5. u.replies = row.replies + 1 BY <1>10
    <3>6. /\ row.replies <= Cardinality(CountedIn(t))
          /\ Replies(t) \notin torn => row.replies = Cardinality(CountedIn(t))
      BY <1>8, <2>2, <2>3
    <3>7. u.replies <= Cardinality(CountedIn(t)') BY <3>2, <3>3, <3>4, <3>5, <3>6
    <3>8. Replies(t) \notin torn => u.replies = Cardinality(CountedIn(t)')
      BY <3>2, <3>3, <3>4, <3>5, <3>6
    <3> QED BY <1>8, <1>12, <2>3, <3>7, <3>8
  <2>4. CASE o # t
    <3>1. CountedIn(o)' = CountedIn(o) BY <1>14, <1>17, <2>4
    <3>2. items'[Thread(o)] = items[Thread(o)] BY <1>6, <2>1, <2>4 DEF OnlyThread, SameAt, Has
    <3> QED BY <1>12, <2>2, <3>1, <3>2
  <2> QED BY <2>3, <2>4
<1>21. KeptTallies
  <2>1. \A o : o # t => SameAt(Thread(o)) BY <1>6 DEF OnlyThread
  <2>2. \A o : Has(Thread(o))' <=> Has(Thread(o)) BY <1>7 DEF Has
  <2> QED BY <1>8, <1>10, <2>1, <2>2 DEF KeptTallies, SameAt, Has
<1>22. GrowThreads /\ \A o : TallySame(o) BY <1>21 DEF KeptTallies, GrowThreads, TallySame
<1>23. \A p : PostText(p) \in k.on \/ PostVotes(p) \in k.on => p = k.id BY <1>3, Subjects
<1>24. \A o : ThreadVotes(o) \notin k.on BY <1>3, Subjects
<1>25. Texts'
  <2>1. PostText(k.id) \notin spoiled => TextAgrees(k.id)
    BY <1>2, <1>14 DEF Facts, TextFacts, TextAgrees
  <2> QED BY <1>11, <1>15, <1>23, <2>1, TextsRest
<1>26. VotesInv'
  <2>1. ASSUME PostVotes(k.id) \notin spoiled PROVE BothCounted(k.id)
    <3>1. Unvoted(k.id) BY <1>2, <2>1 DEF Facts, VoteFacts
    <3>2. \A r : NoVotes(r) => VotesCounted(r, PostVotes(k.id)) BY <3>1, NobodyVoted DEF Unvoted
    <3> QED BY <1>14, <3>1, <3>2 DEF Unvoted, BothCounted
  <2> QED BY <1>11, <1>15, <1>22, <1>23, <1>24, <2>1, VotesRest
<1>27. \A s \in k.on : s[1] # "addon" BY <1>3, Subjects
<1> QED BY <1>3, <1>6, <1>7, <1>8, <1>10, <1>11, <1>13, <1>14, <1>20, <1>25, <1>26, <1>27, ThreadChanged


-----------------------------------------------------------------------------

\* What a vote does that has only to write the votes of a thread.
LEMMA ThreadVotesPlanned ==
    ASSUME NEW k, k.op = "vote", Request(k), Facts(k), k.at = "done", k.arg[1][1] = "thread"
    PROVE  \E c : /\ Counts(c) /\ k.todo = <<{SetVotes(k.arg[1][2], c)}>>
                  /\ k.arg[1] \notin spoiled => c = Counted(k.arg[1])
<1>1. CASE k.arg[1] \notin spoiled
  <2>1. k.todo = <<{SetVotes(k.arg[1][2], Counted(k.arg[1]))}>>
    BY <1>1 DEF Facts, VoteFacts, Counting
  <2> QED BY <2>1, CountsGood
<1>2. CASE k.arg[1] \in spoiled
  <2>1. PICK c : Counts(c) /\ k.todo = <<{SetVotes(k.arg[1][2], c)}>> BY DEF Request, VoteCall
  <2> QED BY <1>2, <2>1
<1> QED BY <1>1, <1>2

LEMMA ThreadVoted ==
    ASSUME CommunityInv, NEW w \in Worker, NEW k, NEW n, NEW x, Writing(w, k, n, x),
           k.op = "vote", k.at = "done", k.arg[1][1] = "thread"
    PROVE  CommunityInv'
<1>1. Request(k) /\ Facts(k) BY DEF Writing
<1>2. PICK s, t : s = k.arg[1] /\ t = s[2] OBVIOUS
<1>3. PICK c : /\ Counts(c) /\ k.todo = <<{SetVotes(t, c)}>>
               /\ s \notin spoiled => c = Counted(s)
  BY <1>1, <1>2, ThreadVotesPlanned
<1>4. k.on = {s} /\ s = ThreadVotes(t) BY <1>1, <1>2, VoteTarget
<1>5. PICK y : y = SetVotes(t, c) OBVIOUS
<1>6. k.todo = <<{y}>> BY <1>3, <1>5
<1>7. n = Idle /\ x = y /\ items' = After(y) BY <1>6, LastWrite
<1>8. y.do = "updateOld" /\ y.key = Thread(t) /\ y.val = [set |-> c, add |-> <<>>]
  BY <1>5 DEF SetVotes, UpdateOld, Update
<1>9. Request(n)' /\ Facts(n)' BY <1>7, IdleFacts
<1>10. \A o : ThreadVotes(o) \in k.on => o = t BY <1>4, Subjects
<1>11. \A o : PostText(o) \notin k.on /\ PostVotes(o) \notin k.on /\ AddonDeck(o) \notin k.on
  BY <1>4, Subjects
<1>12. CASE ~Has(Thread(t))
  <2>1. items' = items BY <1>7, <1>8, <1>12, UpdateOldFacts DEF Has
  <2>2. EndsWell(k) BY <1>10, <1>11, <1>12 DEF EndsWell
  <2> QED BY <1>9, <2>1, <2>2, MoveKept DEF Writing
<1>13. CASE Has(Thread(t))
  <2>1. OnlyThread(t) BY <1>7, <1>8, WritesElsewhere, ThreadKey
  <2>2. /\ DOMAIN items' = DOMAIN items
        /\ items'[Thread(t)] = Updated(items[Thread(t)], [set |-> c, add |-> <<>>])
    BY <1>7, <1>8, <1>13, UpdateOldFacts DEF Has
  <2>3. PICK row, u : row = items[Thread(t)] /\ u = items'[Thread(t)] OBVIOUS
  <2>4. ThreadRow(row) /\ row.views \in Nat /\ row.views <= Cardinality(Viewed(t))
    BY <1>13, <2>3, RowThere
  <2>5. /\ ThreadRow(u) /\ u.up = c.up /\ u.down = c.down /\ u.views = row.views
        /\ u.replies = row.replies
    BY <1>3, <2>2, <2>3, <2>4, RowCounted
  <2>6. Moves(w, k, n) BY DEF Writing, Step
  <2>7. u.views <= Cardinality(Viewed(t)') BY <2>4, <2>5, <2>6, ViewedMore DEF CommunityInv
  <2>8. KeptOwn /\ KeptCopies /\ KeptVotes BY <2>1 DEF OnlyThread
  <2>9. KeptReplies
    <3>1. \A o : o # t => SameAt(Thread(o)) BY <2>1 DEF OnlyThread
    <3>2. \A o : Has(Thread(o))' <=> Has(Thread(o)) BY <2>2 DEF Has
    <3> QED BY <2>3, <2>5, <3>1, <3>2 DEF KeptReplies, SameAt, Has
  <2>10. RepliesCounted' BY <2>8, <2>9, RepliesRest
  <2>11. Texts' BY <1>9, <1>11, <2>8, TextsRest
  <2>12. VotesInv'
    <3>1. GrowThreads BY <2>2 DEF GrowThreads, Has
    <3>2. \A o : ThreadVotes(o) \in k.on \/ TallySame(o)
      <4>1. \A o : o # t => SameAt(Thread(o)) BY <2>1 DEF OnlyThread
      <4> QED BY <1>4, <4>1 DEF TallySame, SameAt, Has
    <3>3. s \notin spoiled => VotesCounted(u, s)
      BY <1>3, <2>5 DEF VotesCounted, Counted
    <3>4. spoiled' = spoiled BY DEF Writing
    <3>5. \A o : /\ ThreadVotes(o) \in k.on /\ n = Idle
                 /\ Has(Thread(o))' /\ ThreadVotes(o) \notin spoiled'
                 => VotesCounted(items'[Thread(o)], ThreadVotes(o))
      BY <1>4, <1>10, <2>3, <3>3, <3>4
    <3> QED BY <1>9, <1>11, <2>8, <3>1, <3>2, <3>5, VotesRest
  <2>13. \A z \in k.on : z[1] # "addon" BY <1>4, Subjects
  <2> QED BY <1>9, <1>13, <2>1, <2>2, <2>3, <2>5, <2>7, <2>10, <2>11, <2>12, <2>13, ThreadChanged
<1> QED BY <1>12, <1>13


-----------------------------------------------------------------------------

\* The vote itself is written: the votes of one subject change, and nothing else.
LEMMA VoteWritten ==
    ASSUME CommunityInv, NEW w \in Worker, NEW k, NEW n, NEW x, Writing(w, k, n, x),
           k.op = "vote", k.at = "count"
    PROVE  CommunityInv'
<1>1. Request(k) /\ Facts(k) /\ Step(w, k, n) /\ Moves(w, k, n) /\ k.todo # <<>>
  BY DEF Writing, Step
<1>2. PICK s, u, key : s = k.arg[1] /\ u = k.arg[2] /\ key = Vote(s, u) OBVIOUS
<1>3. VoteCall(k) BY <1>1 DEF Request
<1>4. PICK y : /\ y = Delete(key) \/ y = Put(key, k.arg[3])
               /\ k.todo = <<{y}>>
  BY <1>1, <1>2, <1>3 DEF VoteCall
<1>5. /\ x = y /\ items' = After(y)
      /\ k.at = "done" => n = Idle
      /\ k.at # "done" => Continues(k, n, <<>>)
  BY <1>4, LastWrite
<1>6. /\ n.op = "vote" /\ n.at = "count" /\ n.id = k.id /\ n.on = k.on /\ n.arg = k.arg /\ n.todo = <<>>
  BY <1>5 DEF Continues
<1>7. n # Idle BY <1>6, IdleCall
<1>8. y.do \in {"put", "delete"} /\ y.key = key BY <1>4 DEF Put, Delete
<1>9. Elsewhere(key) BY <1>5, <1>8, WritesElsewhere
<1>10. KeptThreads /\ KeptOwn /\ KeptCopies /\ KeptAddons /\ KeptLinks
  <2>1. key[1] = "VOTE" BY <1>2 DEF Vote
  <2> QED BY <1>9, <2>1, Families
<1>11. k.on = {s} /\ s[1] \in {"thread", "post"}
       /\ (s[1] = "thread" => s = ThreadVotes(s[2])) /\ (s[1] = "post" => s = PostVotes(s[2]))
  BY <1>1, <1>2, VoteTarget
<1>12. Request(n)'
  <2>1. VoteCall(n) BY <1>3, <1>6 DEF VoteCall
  <2>2. Request(n) BY <1>1, <1>6, <2>1 DEF Request, ByHandOps
  <2> QED BY <1>1, <2>2, RequestStays DEF Writing, Moves
<1>13. GrowThreads /\ KeptReplies /\ KeptTallies /\ SamePlaces /\ KeptPostTallies
  BY <1>10, ThreadsSame, PostsSame
<1>14. s[1] = "post" => \E t : Has(PostIn(t, s[2]))
  BY <1>1, <1>2 DEF Facts, PostFacts, SetsRows
<1>15. s[1] = "thread" => Has(Thread(s[2])) \/ s[2] = Nothing
  BY <1>1, <1>2 DEF Facts, VoteFacts
<1>16. PostFacts(n)'
  <2>1. PostFacts(n) BY <1>2, <1>6, <1>14 DEF PostFacts, SetsRows
  <2>2. ~(n.op = "reply" /\ k.op = "reply" /\ n.id = k.id) BY <1>6
  <2> QED BY <1>13, <2>1, <2>2, PlacesStay, PostFactsStay
<1>17. VoteFacts(n)'
  <2>1. n.arg[1][1] = "thread" => Has(Thread(n.arg[1][2]))' \/ n.arg[1][2] = Nothing
    BY <1>2, <1>6, <1>13, <1>15 DEF GrowThreads
  <2> QED BY <1>6, <2>1 DEF VoteFacts, Counting, Thread
<1>18. Facts(n)'
  BY <1>6, <1>16, <1>17 DEF Facts, ThreadFacts, TextFacts, AddonFacts, LinkFacts, ByHandOps
<1>19. \A o, v : Has(Vote(o, v))' => Has(Vote(o, v)) \/ o = s
  <2>1. \A o, v : Vote(o, v) = key => o = s BY <1>2 DEF Vote
  <2> QED BY <1>9, <2>1 DEF Elsewhere, SameAt, Has
<1>20. \A o : o = s \/ VotesSame(o)
  <2>1. \A o, v : Vote(o, v) = key => o = s BY <1>2 DEF Vote
  <2> QED BY <1>9, <2>1 DEF Elsewhere, VotesSame
<1>21. VotedThreads'
  <2> SUFFICES ASSUME NEW t, NEW v, Has(Vote(ThreadVotes(t), v))'
               PROVE  Has(Thread(t))' \/ t = Nothing
    BY DEF VotedThreads, Nothing
  <2>1. CASE Has(Vote(ThreadVotes(t), v))
    BY <1>13, <2>1 DEF CommunityInv, VotesInv, VotedThreads, GrowThreads
  <2>2. CASE ThreadVotes(t) = s
    <3>1. s[1] = "thread" /\ s[2] = t BY <2>2, Subjects
    <3> QED BY <1>13, <1>15, <3>1 DEF GrowThreads
  <2> QED BY <1>19, <2>1, <2>2 DEF ThreadVotes
<1>22. VotedPosts'
  <2> SUFFICES ASSUME NEW p, NEW v, Has(Vote(PostVotes(p), v))'
               PROVE  \E t : Has(PostIn(t, p))'
    BY DEF VotedPosts
  <2>1. \E t : Has(PostIn(t, p))
    <3>1. CASE Has(Vote(PostVotes(p), v)) BY <3>1 DEF CommunityInv, VotesInv, VotedPosts
    <3>2. CASE PostVotes(p) = s
      <4>1. s[1] = "post" /\ s[2] = p BY <3>2, Subjects
      <4> QED BY <1>14, <4>1
    <3> QED BY <1>19, <3>1, <3>2 DEF PostVotes
  <2> QED BY <1>13, <2>1 DEF SamePlaces
<1>23. VotesInv'
  <2>1. \A t : \/ ThreadVotes(t) \in k.on
               \/ VotesSame(ThreadVotes(t)) /\ (TallySame(t) \/ Born(t))
    BY <1>11, <1>13, <1>20 DEF KeptTallies, TallySame
  <2>2. \A p : PostVotes(p) \in k.on \/ (VotesSame(PostVotes(p)) /\ PostTallySame(p))
    BY <1>11, <1>13, <1>20, TalliesSame
  <2> QED BY <1>1, <1>7, <1>13, <1>17, <1>21, <1>22, <2>1, <2>2, VotesKept DEF CommunityInv
<1>24. Threads' BY <1>1, <1>10, <1>18, ThreadsFrame DEF CommunityInv, Facts
<1>25. Posts' BY <1>1, <1>10, <1>13, <1>16, PostsFrame DEF CommunityInv
<1>26. RepliesCounted' BY <1>7, <1>10, <1>13, RepliesRest
<1>27. CopyHasPost'
  <2>1. PlacesGrow(k) BY <1>13, PlacesStay
  <2>2. \A o, p : Has(PostIn(o, p))' => Has(PostIn(o, p)) BY <1>13 DEF SamePlaces
  <2> QED BY <1>1, <1>7, <2>1, <2>2, CopyFrame DEF CommunityInv
<1>28. Texts' BY <1>7, <1>10, <1>18, TextsRest
<1>29. Addons' /\ Links' BY <1>7, <1>10, <1>18, AddonsRest, LinksRest
<1> QED BY <1>12, <1>23, <1>24, <1>25, <1>26, <1>27, <1>28, <1>29, Together


-----------------------------------------------------------------------------
(* A row of a post gets attributes.                                        *)

LEMMA PostRowOf ==
    ASSUME NEW u, u = [a \in DOMAIN u |-> u[a]], DOMAIN u = {"thread", "text", "up", "down"},
           u.thread \in Known, u.text \in Known,
           u.up \in 0..Cardinality(User), u.down \in 0..Cardinality(User)
    PROVE  PostRow(u)
BY DEF PostRow

LEMMA PostAttributes ==
    ASSUME NEW row, PostRow(row)
    PROVE  DOMAIN row = {"thread", "text", "up", "down"}
BY DEF PostRow

LEMMA TextSet ==
    ASSUME NEW row, PostRow(row), NEW i \in Known, NEW u,
           u = Updated(row, [set |-> [text |-> i], add |-> <<>>])
    PROVE  PostRow(u) /\ u.thread = row.thread /\ u.up = row.up /\ u.down = row.down /\ u.text = i
<1> DEFINE attributes == [text |-> i]
<1>1. Overlaid(u, row, attributes) BY OverlaidAt
<1>2. DOMAIN row = {"thread", "text", "up", "down"} BY PostAttributes
<1>3. DOMAIN attributes = {"text"} /\ attributes["text"] = i OBVIOUS
<1> HIDE DEF attributes
<1>4. DOMAIN u = {"thread", "text", "up", "down"} /\ u = [a \in DOMAIN u |-> u[a]]
  BY <1>1, <1>2, <1>3 DEF Overlaid
<1>5. u["thread"] = row["thread"] /\ u["up"] = row["up"] /\ u["down"] = row["down"] /\ u["text"] = i
  BY <1>1, <1>3, <1>4 DEF Overlaid
<1> QED BY <1>4, <1>5, PostRowOf DEF PostRow

LEMMA TallySet ==
    ASSUME NEW row, PostRow(row), NEW c, Counts(c), NEW u,
           u = Updated(row, [set |-> c, add |-> <<>>])
    PROVE  PostRow(u) /\ u.thread = row.thread /\ u.text = row.text /\ u.up = c.up /\ u.down = c.down
<1>1. Overlaid(u, row, c) BY OverlaidAt
<1>2. DOMAIN row = {"thread", "text", "up", "down"} BY PostAttributes
<1>3. DOMAIN c = {"up", "down"} BY DEF Counts
<1>4. DOMAIN u = {"thread", "text", "up", "down"} /\ u = [a \in DOMAIN u |-> u[a]]
  BY <1>1, <1>2, <1>3 DEF Overlaid
<1>5. u["thread"] = row["thread"] /\ u["text"] = row["text"] /\ u["up"] = c["up"] /\ u["down"] = c["down"]
  BY <1>1, <1>3, <1>4 DEF Overlaid
<1> QED BY <1>4, <1>5, PostRowOf DEF PostRow, Counts

\* One row of a post changed, and kept its thread.
RowSet(p, key) ==
    /\ key = Post(p) \/ \E t : key = PostIn(t, p)
    /\ Has(key) /\ Elsewhere(key) /\ DOMAIN items' = DOMAIN items
    /\ PostRow(items'[key]) /\ items'[key].thread = items[key].thread

LEMMA RowKeys ==
    ASSUME NEW p, NEW key, key = Post(p) \/ \E t : key = PostIn(t, p)
    PROVE  /\ key[1] \in {"POST", "THREAD_POST"}
           /\ \A q : Post(q) = key => q = p
           /\ \A o, q : PostIn(o, q) = key => q = p
           /\ \A o, q : Post(p) # PostIn(o, q)
BY DEF Post, PostIn

LEMMA RowSetPlaces ==
    ASSUME NEW p, NEW key, RowSet(p, key)
    PROVE  /\ KeptThreads /\ KeptVotes /\ KeptAddons /\ KeptLinks /\ SamePlaces
           /\ \A q : q = p \/ (TextSame(q) /\ PostTallySame(q))
           /\ items'[key].text = items[key].text => KeptTexts
           /\ items'[key].up = items[key].up /\ items'[key].down = items[key].down => KeptPostTallies
<1>1. key[1] \in {"POST", "THREAD_POST"} BY RowKeys DEF RowSet
<1>2. KeptThreads /\ KeptVotes /\ KeptAddons /\ KeptLinks BY <1>1, Families DEF RowSet
<1>3. \A o : Has(o)' <=> Has(o) BY DEF RowSet, Has
<1>4. \A o : o # key /\ Has(o) => items'[o] = items[o] BY DEF RowSet, Elsewhere, SameAt, Has
<1>5. \A o : Has(o) => items'[o].thread = items[o].thread \/ o # key BY DEF RowSet
<1>6. SamePlaces BY <1>3, <1>4, <1>5 DEF SamePlaces
<1>7. ASSUME NEW q, q # p PROVE TextSame(q) /\ PostTallySame(q)
  <2>1. Post(q) # key /\ \A o : PostIn(o, q) # key BY <1>7, RowKeys DEF RowSet
  <2> QED BY <1>3, <1>4, <2>1 DEF TextSame, PostTallySame
<1>8. ASSUME items'[key].text = items[key].text PROVE KeptTexts BY <1>4, <1>8 DEF KeptTexts
<1>9. ASSUME items'[key].up = items[key].up, items'[key].down = items[key].down
      PROVE  KeptPostTallies
  BY <1>4, <1>9 DEF KeptPostTallies
<1> QED BY <1>2, <1>6, <1>7, <1>8, <1>9

LEMMA PostChanged ==
    ASSUME CommunityInv, NEW w \in Worker, NEW k, NEW n, NEW x, Writing(w, k, n, x),
           k.op \in {"rewrite", "vote"}, \A s \in k.on : s[1] # "addon",
           Request(n)', Facts(n)', NEW p, NEW key, RowSet(p, key), Texts', VotesInv'
    PROVE  CommunityInv'
<1>1. KeptThreads /\ KeptVotes /\ KeptAddons /\ KeptLinks /\ SamePlaces BY RowSetPlaces
<1>2. Step(w, k, n) /\ Moves(w, k, n) BY DEF Writing, Step
<1>3. GrowThreads /\ KeptReplies BY <1>1, ThreadsSame
<1>4. PlacesGrow(k) BY <1>1, PlacesStay
<1>5. Threads' BY <1>1, <1>2, ThreadsFrame DEF CommunityInv, Facts
<1>6. \A o : Has(o)' <=> Has(o) BY DEF RowSet, Has
<1>7. ASSUME NEW o, Has(o), PostRow(items[o]) PROVE PostRow(items'[o])
  <2>1. CASE o = key BY <2>1 DEF RowSet
  <2>2. CASE o # key BY <1>7, <2>2 DEF RowSet, Elsewhere, SameAt, Has
  <2> QED BY <2>1, <2>2
<1>8. \A row : PostRow(row) => PostRow(row)' BY <1>2, PostRowStays
<1>9. OwnRows'
  <2> SUFFICES ASSUME NEW q, Has(Post(q))'
               PROVE  /\ q \in Known' /\ PostRow(items[Post(q)])' /\ Has(Thread(ThreadOf(q)))'
    BY DEF OwnRows, Post, ThreadOf
  <2>1. Has(Post(q)) /\ q \in Known /\ PostRow(items[Post(q)]) /\ Has(Thread(ThreadOf(q)))
    BY <1>6 DEF CommunityInv, Posts, OwnRows
  <2>2. PICK row : row = items'[Post(q)] OBVIOUS
  <2>3. PostRow(row) BY <1>7, <2>1, <2>2
  <2>4. PostRow(row)' BY <1>8, <2>3
  <2>5. items'[Post(q)].thread = ThreadOf(q) BY <1>1, <2>1 DEF SamePlaces, ThreadOf
  <2>6. Has(Thread(ThreadOf(q)))' BY <1>3, <2>1, <2>5 DEF GrowThreads, ThreadOf, Post, Thread
  <2>7. PostRow(items[Post(q)])' BY <2>2, <2>4 DEF Post
  <2> QED BY <1>2, <2>1, <2>6, <2>7, MovesKnown
<1>10. CopyRows'
  <2> SUFFICES ASSUME NEW o, NEW q, Has(PostIn(o, q))'
               PROVE  /\ q \in Known' /\ Has(Thread(o))' /\ PostRow(items[PostIn(o, q)])'
                      /\ Has(Post(q))' => ThreadOf(q)' = o
    BY DEF CopyRows, Post, PostIn, ThreadOf, Thread
  <2>1. /\ Has(PostIn(o, q)) /\ q \in Known /\ PostRow(items[PostIn(o, q)]) /\ Has(Thread(o))
        /\ Has(Post(q)) => ThreadOf(q) = o
    BY <1>6 DEF CommunityInv, Posts, CopyRows
  <2>2. PICK row : row = items'[PostIn(o, q)] OBVIOUS
  <2>3. PostRow(row) BY <1>7, <2>1, <2>2
  <2>4. PostRow(row)' BY <1>8, <2>3
  <2>5. PostRow(items[PostIn(o, q)])' BY <2>2, <2>4 DEF PostIn
  <2>6. Has(Post(q))' => ThreadOf(q)' = o
    BY <1>1, <2>1 DEF SamePlaces, ThreadOf, Post
  <2> QED BY <1>2, <1>3, <2>1, <2>5, <2>6, MovesKnown DEF GrowThreads
<1>11. Posts'
  <2>1. PostFacts(n)' BY DEF Facts
  <2> QED BY <1>2, <1>4, <1>9, <1>10, <2>1, PostsKept DEF CommunityInv
<1>12. RepliesCounted' BY <1>1, <1>2, <1>3, RepliesFrame DEF CommunityInv, Posts, Threads
<1>13. CopyHasPost'
  <2>1. \A o, q : Has(PostIn(o, q))' => Has(PostIn(o, q)) BY <1>1 DEF SamePlaces
  <2> QED BY <1>2, <1>4, <2>1, CopyFrame DEF CommunityInv
<1>14. Addons' /\ Links' BY <1>1, AddonsRest, LinksRest
<1> QED BY <1>5, <1>11, <1>12, <1>13, <1>14, Together


-----------------------------------------------------------------------------

\* A planned write of both rows, and what it leaves to do.
Attributes(key, attributes) ==
    /\ Has(key) /\ PostRow(items[key]) /\ Elsewhere(key) /\ DOMAIN items' = DOMAIN items
    /\ items'[key] = Updated(items[key], [set |-> attributes, add |-> <<>>])

LEMMA AttributesSet ==
    ASSUME NEW x, NEW key, NEW attributes, x = Update(key, attributes, <<>>), items' = After(x),
           Has(key), PostRow(items[key])
    PROVE  Attributes(key, attributes)
<1>1. x.do = "update" /\ x.key = key /\ x.val = [set |-> attributes, add |-> <<>>] BY DEF Update
<1>2. UpdatesItem(x) BY <1>1, UpdateFacts
<1>3. Elsewhere(key) BY <1>1, WritesElsewhere
<1>4. DOMAIN items' = DOMAIN items BY <1>1, <1>2 DEF UpdatesItem, Has
<1>5. items'[key] = Updated(items[key], [set |-> attributes, add |-> <<>>])
  BY <1>1, <1>2 DEF UpdatesItem, Has
<1> QED BY <1>3, <1>4, <1>5 DEF Attributes

LEMMA CopyThere ==
    ASSUME CommunityInv, NEW p, \E t : Has(PostIn(t, p)), Has(Post(p))
    PROVE  /\ Has(PostIn(ThreadOf(p), p)) /\ PostRow(items[Post(p)])
           /\ PostRow(items[PostIn(ThreadOf(p), p)])
BY DEF CommunityInv, Posts, OwnRows, CopyRows

LEMMA RowsWritten ==
    ASSUME CommunityInv, NEW w \in Worker, NEW k, NEW n, NEW x, Writing(w, k, n, x),
           NEW p, NEW attributes, k.at = "done", SetsRows(k, p, attributes)
    PROVE  /\ Has(Post(p))
           /\ \/ /\ k.todo = BothRows(p, attributes)
                 /\ Attributes(Post(p), attributes) /\ Continues(k, n, LastRow(p, attributes))
              \/ /\ k.todo = LastRow(p, attributes)
                 /\ Attributes(PostIn(ThreadOf(p), p), attributes) /\ n = Idle
<1>1. /\ Has(Post(p)) /\ \E t : Has(PostIn(t, p))
      /\ k.todo = BothRows(p, attributes) \/ k.todo = LastRow(p, attributes)
  BY DEF SetsRows
<1>2. /\ Has(PostIn(ThreadOf(p), p)) /\ PostRow(items[Post(p)])
      /\ PostRow(items[PostIn(ThreadOf(p), p)])
  BY <1>1, CopyThere
<1>3. PICK y, z : y = SetPost(p, attributes) /\ z = SetCopy(ThreadOf(p), p, attributes) OBVIOUS
<1>4. CASE k.todo = BothRows(p, attributes)
  <2>1. k.todo = <<{y}, {z}>> BY <1>3, <1>4 DEF BothRows
  <2>2. items' = After(y) /\ Continues(k, n, <<{z}>>) BY <2>1, FirstOfTwo
  <2>3. Attributes(Post(p), attributes) BY <1>1, <1>2, <1>3, <2>2, AttributesSet DEF SetPost
  <2> QED BY <1>1, <1>3, <1>4, <2>2, <2>3 DEF LastRow
<1>5. CASE k.todo = LastRow(p, attributes)
  <2>1. k.todo = <<{z}>> BY <1>3, <1>5 DEF LastRow
  <2>2. items' = After(z) /\ n = Idle BY <2>1, LastWrite
  <2>3. Attributes(PostIn(ThreadOf(p), p), attributes) BY <1>2, <1>3, <2>2, AttributesSet DEF SetCopy
  <2> QED BY <1>1, <1>5, <2>2, <2>3
<1> QED BY <1>1, <1>4, <1>5

LEMMA SetsLastRow ==
    ASSUME NEW p, NEW attributes, NEW n, SamePlaces, Has(Post(p)), \E t : Has(PostIn(t, p)),
           n.todo = LastRow(p, attributes)
    PROVE  SetsRows(n, p, attributes)' /\ LastRow(p, attributes)' = LastRow(p, attributes)
<1>1. ThreadOf(p)' = ThreadOf(p) BY DEF SamePlaces, ThreadOf, Post
<1>2. LastRow(p, attributes)' = LastRow(p, attributes)
  BY <1>1 DEF LastRow, SetCopy, Update, PostIn
<1>3. Has(Post(p))' BY DEF SamePlaces
<1>4. \E t : Has(PostIn(t, p))' BY DEF SamePlaces
<1> QED BY <1>2, <1>3, <1>4 DEF SetsRows, Post, PostIn

\* The text of a post, in one row and then in the other.
LEMMA TextWritten ==
    ASSUME CommunityInv, NEW w \in Worker, NEW k, NEW n, NEW x, Writing(w, k, n, x), k.op = "rewrite"
    PROVE  CommunityInv'
<1>1. /\ Request(k) /\ Facts(k) /\ Step(w, k, n) /\ Moves(w, k, n) /\ k.todo # <<>>
      /\ spoiled' = spoiled
  BY DEF Writing, Step
<1>2. PICK p, attributes : p = k.arg[1] /\ attributes = [text |-> k.id] OBVIOUS
<1>3. RewriteCall(k) /\ SetsRows(k, p, attributes)
  BY <1>1, <1>2 DEF Request, Facts, PostFacts
<1>4. k.at = "done" /\ k.on = {PostText(p)} BY <1>1, <1>2, <1>3 DEF RewriteCall
<1>5. \A i : /\ PostText(i) \in k.on => i = p
             /\ PostVotes(i) \notin k.on /\ ThreadVotes(i) \notin k.on
  BY <1>4, Subjects
<1>6. \A s \in k.on : s[1] # "addon" BY <1>4, Subjects
<1>7. k.id \in Known BY WriterId
<1>8. ASSUME NEW key, Attributes(key, attributes), key = Post(p) \/ \E t : key = PostIn(t, p)
      PROVE  RowSet(p, key) /\ items'[key].text = k.id /\ KeptPostTallies
  <2>1. PICK row, u : row = items[key] /\ u = items'[key] OBVIOUS
  <2>2. PostRow(u) /\ u.thread = row.thread /\ u.up = row.up /\ u.down = row.down /\ u.text = k.id
    <3>1. PostRow(row) /\ u = Updated(row, [set |-> [text |-> k.id], add |-> <<>>])
      BY <1>2, <1>8, <2>1 DEF Attributes
    <3> QED BY <1>7, <3>1, TextSet
  <2>3. RowSet(p, key) BY <1>8, <2>1, <2>2 DEF RowSet, Attributes
  <2> QED BY <2>1, <2>2, <2>3, RowSetPlaces
<1>9. ASSUME NEW key, RowSet(p, key), KeptPostTallies, Facts(n)' PROVE VotesInv'
  <2>1. KeptThreads /\ KeptVotes /\ SamePlaces BY <1>9, RowSetPlaces
  <2>2. GrowThreads /\ KeptTallies BY <2>1, ThreadsSame
  <2>3. PlacesGrow(k) BY <2>1, PlacesStay
  <2>4. VotedThreads' /\ VotedPosts' /\ \A s : VotesSame(s) BY <2>1, <2>2, <2>3, VotedStay DEF CommunityInv
  <2>5. \A q : PostTallySame(q) BY <1>9, <2>1, TalliesSame
  <2>6. \A t : TallySame(t) BY <2>2 DEF KeptTallies, TallySame
  <2>7. VoteFacts(n)' BY <1>9 DEF Facts
  <2> QED BY <1>1, <1>5, <2>2, <2>4, <2>5, <2>6, <2>7, VotesKept DEF CommunityInv
<1>10. ASSUME Attributes(Post(p), attributes), Continues(k, n, LastRow(p, attributes)), Has(Post(p))
       PROVE  CommunityInv'
  <2>1. RowSet(p, Post(p)) /\ items'[Post(p)].text = k.id /\ KeptPostTallies BY <1>8, <1>10
  <2>2. /\ n.op = "rewrite" /\ n.at = "done" /\ n.id = k.id /\ n.on = k.on /\ n.arg = k.arg
        /\ n.todo = LastRow(p, attributes)
    BY <1>4, <1>10 DEF Continues
  <2>3. n # Idle BY <2>2, IdleCall
  <2>4. Request(n)'
    <3>1. RewriteCall(n) BY <1>3, <1>4, <2>2 DEF RewriteCall
    <3>2. Request(n) BY <1>1, <2>2, <3>1 DEF Request, ByHandOps
    <3> QED BY <1>1, <3>2, RequestStays DEF Writing, Moves
  <2>5. SamePlaces BY <2>1, RowSetPlaces
  <2>6. SetsRows(n, p, attributes)' BY <1>3, <1>10, <2>2, <2>5, SetsLastRow DEF SetsRows
  <2>7. PostFacts(n)' BY <1>2, <2>2, <2>6 DEF PostFacts
  <2>8. TextFacts(n)' BY <1>2, <2>1, <2>2 DEF TextFacts, Post
  <2>9. Facts(n)'
    BY <2>2, <2>7, <2>8 DEF Facts, ThreadFacts, VoteFacts, AddonFacts, LinkFacts, ByHandOps
  <2>10. VotesInv' BY <1>9, <2>1, <2>9
  <2>11. Texts'
    <3>1. \A q : PostText(q) \in k.on \/ TextSame(q) BY <1>4, <2>1, RowSetPlaces
    <3> QED BY <1>1, <2>3, <2>8, <3>1, TextsKept DEF CommunityInv
  <2> QED BY <1>6, <2>1, <2>4, <2>9, <2>10, <2>11, PostChanged
<1>11. ASSUME k.todo = LastRow(p, attributes), Attributes(PostIn(ThreadOf(p), p), attributes),
              n = Idle, Has(Post(p))
       PROVE  CommunityInv'
  <2>1. PICK t, key : t = ThreadOf(p) /\ key = PostIn(t, p) OBVIOUS
  <2>2. RowSet(p, key) /\ items'[key].text = k.id /\ KeptPostTallies BY <1>8, <1>11, <2>1
  <2>3. Request(n)' /\ Facts(n)' BY <1>11, IdleFacts
  <2>4. VotesInv' BY <1>9, <2>2, <2>3
  <2>5. Texts'
    <3>1. \A q : PostText(q) \in k.on \/ TextSame(q) BY <1>4, <2>2, RowSetPlaces
    <3>2. PostText(p) \notin spoiled => items[Post(p)].text = k.id
      BY <1>1, <1>2, <1>4, <1>11 DEF Facts, TextFacts
    <3>3. items'[Post(p)] = items[Post(p)] BY <1>11, <2>1, <2>2, RowKeys DEF RowSet, Elsewhere, SameAt, Has
    <3>4. ThreadOf(p)' = t BY <2>1, <3>3 DEF ThreadOf, Post
    <3>5. PostText(p) \notin spoiled => items'[PostIn(t, p)].text = items'[Post(p)].text
      BY <2>1, <2>2, <3>2, <3>3
    <3>6. PostText(p) \notin spoiled => TextAgrees(p)'
      BY <3>4, <3>5 DEF TextAgrees, Post, PostIn
    <3>7. \A q : /\ PostText(q) \in k.on /\ n = Idle /\ Has(Post(q))' /\ PostText(q) \notin spoiled'
                 => TextAgrees(q)'
      <4> SUFFICES ASSUME NEW q, PostText(q) \in k.on, PostText(q) \notin spoiled'
                   PROVE  TextAgrees(q)'
        BY DEF PostText
      <4>1. q = p BY <1>5
      <4> QED BY <1>1, <3>6, <4>1 DEF PostText
    <3>8. TextFacts(n)' BY <2>3 DEF Facts
    <3> QED BY <1>1, <3>1, <3>7, <3>8, TextsKept DEF CommunityInv
  <2> QED BY <1>6, <2>2, <2>3, <2>4, <2>5, PostChanged
<1> QED BY <1>3, <1>4, <1>10, <1>11, RowsWritten


-----------------------------------------------------------------------------

\* The votes of a post, in one row and then in the other.
LEMMA TallyWritten ==
    ASSUME CommunityInv, NEW w \in Worker, NEW k, NEW n, NEW x, Writing(w, k, n, x),
           k.op = "vote", k.at = "done", k.arg[1][1] = "post"
    PROVE  CommunityInv'
<1>1. /\ Request(k) /\ Facts(k) /\ Step(w, k, n) /\ Moves(w, k, n) /\ k.todo # <<>>
      /\ spoiled' = spoiled
  BY DEF Writing, Step
<1>2. PICK s, p, c : s = k.arg[1] /\ p = s[2] /\ c = k.arg[4] OBVIOUS
<1>3. VoteCall(k) /\ SetsRows(k, p, c) BY <1>1, <1>2 DEF Request, Facts, PostFacts
<1>4. Counts(c) BY <1>2, <1>3 DEF VoteCall
<1>5. k.on = {s} /\ s = PostVotes(p) BY <1>1, <1>2, VoteTarget
<1>6. \A i : /\ PostVotes(i) \in k.on => i = p
             /\ PostText(i) \notin k.on /\ ThreadVotes(i) \notin k.on
  BY <1>5, Subjects
<1>7. \A z \in k.on : z[1] # "addon" BY <1>5, Subjects
<1>8. s \notin spoiled => c = Counted(s) BY <1>1, <1>2 DEF Facts, VoteFacts, Counting
<1>9. \A row : row.up = c.up /\ row.down = c.down /\ s \notin spoiled => VotesCounted(row, s)
  BY <1>8 DEF VotesCounted, Counted
<1>10. ASSUME NEW key, Attributes(key, c), key = Post(p) \/ \E t : key = PostIn(t, p)
       PROVE  /\ RowSet(p, key) /\ KeptTexts
              /\ items'[key].up = c.up /\ items'[key].down = c.down
  <2>1. PICK row, u : row = items[key] /\ u = items'[key] OBVIOUS
  <2>2. PostRow(u) /\ u.thread = row.thread /\ u.text = row.text /\ u.up = c.up /\ u.down = c.down
    <3>1. PostRow(row) /\ u = Updated(row, [set |-> c, add |-> <<>>])
      BY <1>10, <2>1 DEF Attributes
    <3> QED BY <1>4, <3>1, TallySet
  <2>3. RowSet(p, key) BY <1>10, <2>1, <2>2 DEF RowSet, Attributes
  <2> QED BY <2>1, <2>2, <2>3, RowSetPlaces
<1>11. ASSUME NEW key, RowSet(p, key), KeptTexts, Facts(n)' PROVE Texts'
  <2>1. SamePlaces BY <1>11, RowSetPlaces
  <2>2. \A q : TextSame(q) BY <1>11, <2>1, TextsSame
  <2>3. TextFacts(n)' BY <1>11 DEF Facts
  <2> QED BY <1>1, <1>6, <2>2, <2>3, TextsKept DEF CommunityInv
<1>12. ASSUME NEW key, RowSet(p, key), Facts(n)',
              n = Idle /\ s \notin spoiled => BothCounted(p)'
       PROVE  VotesInv'
  <2>1. KeptThreads /\ KeptVotes /\ SamePlaces BY <1>12, RowSetPlaces
  <2>2. GrowThreads /\ KeptTallies BY <2>1, ThreadsSame
  <2>3. PlacesGrow(k) BY <2>1, PlacesStay
  <2>4. VotedThreads' /\ VotedPosts' /\ \A o : VotesSame(o) BY <2>1, <2>2, <2>3, VotedStay DEF CommunityInv
  <2>5. \A q : PostVotes(q) \in k.on \/ PostTallySame(q) BY <1>5, <1>12, RowSetPlaces
  <2>6. \A t : TallySame(t) BY <2>2 DEF KeptTallies, TallySame
  <2>7. VoteFacts(n)' BY <1>12 DEF Facts
  <2>8. \A q : /\ PostVotes(q) \in k.on /\ n = Idle /\ Has(Post(q))' /\ PostVotes(q) \notin spoiled'
               => BothCounted(q)'
    <3> SUFFICES ASSUME NEW q, PostVotes(q) \in k.on, n = Idle, PostVotes(q) \notin spoiled'
                 PROVE  BothCounted(q)'
      BY DEF PostVotes
    <3>1. q = p BY <1>6
    <3>2. BothCounted(p)' BY <1>1, <1>5, <1>12, <3>1 DEF PostVotes
    <3> QED BY <3>1, <3>2
  <2> QED BY <1>1, <1>6, <2>2, <2>4, <2>5, <2>6, <2>7, <2>8, VotesKept DEF CommunityInv
<1>13. ASSUME Attributes(Post(p), c), Continues(k, n, LastRow(p, c)), Has(Post(p))
       PROVE  CommunityInv'
  <2>1. /\ RowSet(p, Post(p)) /\ KeptTexts
        /\ items'[Post(p)].up = c.up /\ items'[Post(p)].down = c.down
    BY <1>10, <1>13
  <2>2. /\ n.op = "vote" /\ n.at = "done" /\ n.id = k.id /\ n.on = k.on /\ n.arg = k.arg
        /\ n.todo = LastRow(p, c)
    BY <1>13 DEF Continues
  <2>3. n # Idle BY <2>2, IdleCall
  <2>4. Request(n)'
    <3>1. VoteCall(n) BY <1>2, <1>3, <1>4, <2>2 DEF VoteCall
    <3>2. Request(n) BY <1>1, <2>2, <3>1 DEF Request, ByHandOps
    <3> QED BY <1>1, <3>2, RequestStays DEF Writing, Moves
  <2>5. SamePlaces /\ KeptVotes BY <2>1, RowSetPlaces
  <2>6. SetsRows(n, p, c)' BY <1>3, <1>13, <2>2, <2>5, SetsLastRow DEF SetsRows
  <2>7. PostFacts(n)' BY <1>2, <2>2, <2>6 DEF PostFacts
  <2>8. VoteFacts(n)'
    <3>1. VotesSame(s) BY <2>5 DEF KeptVotes, VotesSame
    <3>2. s \notin spoiled => c = Counted(s)' BY <1>8, <3>1, SameVotes
    <3>3. PICK row : row = items'[Post(p)] OBVIOUS
    <3>4. s \notin spoiled => VotesCounted(row, s) BY <1>9, <2>1, <3>3
    <3>5. s \notin spoiled => VotesCounted(row, s)' BY <3>1, <3>4, SameVotes
    <3>6. s \notin spoiled => Counting(n)'
      BY <1>2, <2>2, <3>2, <3>3, <3>5 DEF Counting, Post
    <3> QED BY <1>1, <1>2, <2>2, <3>6 DEF VoteFacts
  <2>9. Facts(n)'
    BY <2>2, <2>7, <2>8 DEF Facts, ThreadFacts, TextFacts, AddonFacts, LinkFacts, ByHandOps
  <2>10. Texts' BY <1>11, <2>1, <2>9
  <2>11. VotesInv' BY <1>12, <2>1, <2>3, <2>9
  <2> QED BY <1>7, <2>1, <2>4, <2>9, <2>10, <2>11, PostChanged
<1>14. ASSUME k.todo = LastRow(p, c), Attributes(PostIn(ThreadOf(p), p), c),
              n = Idle, Has(Post(p))
       PROVE  CommunityInv'
  <2>1. PICK t, key : t = ThreadOf(p) /\ key = PostIn(t, p) OBVIOUS
  <2>2. RowSet(p, key) /\ KeptTexts /\ items'[key].up = c.up /\ items'[key].down = c.down
    BY <1>10, <1>14, <2>1
  <2>3. Request(n)' /\ Facts(n)' BY <1>14, IdleFacts
  <2>4. Texts' BY <1>11, <2>2, <2>3
  <2>5. ASSUME s \notin spoiled PROVE BothCounted(p)'
    <3>1. VotesSame(s) BY <2>2, RowSetPlaces DEF KeptVotes, VotesSame
    <3>2. items'[Post(p)] = items[Post(p)] BY <1>14, <2>1, <2>2, RowKeys DEF RowSet, Elsewhere, SameAt, Has
    <3>3. PICK row, copy : row = items'[Post(p)] /\ copy = items'[key] OBVIOUS
    <3>4. VotesCounted(row, s)
      BY <1>1, <1>2, <1>14, <2>5, <3>2, <3>3 DEF Facts, VoteFacts, Counting
    <3>5. VotesCounted(copy, s) BY <1>9, <2>2, <2>5, <3>3
    <3>6. VotesCounted(row, s)' /\ VotesCounted(copy, s)' BY <3>1, <3>4, <3>5, SameVotes
    <3>7. ThreadOf(p)' = t BY <2>1, <3>2 DEF ThreadOf, Post
    <3> QED BY <1>5, <2>1, <3>3, <3>6, <3>7 DEF BothCounted, Post, PostIn, PostVotes
  <2>6. VotesInv' BY <1>12, <2>2, <2>3, <2>5
  <2> QED BY <1>7, <2>2, <2>3, <2>4, <2>6, PostChanged
<1> QED BY <1>3, <1>13, <1>14, RowsWritten


-----------------------------------------------------------------------------
(* A reply puts the post and its copy, in either order.                    *)

ReplyTodos(k) == {ReplyPlan(k, {PutCopy(k), PutOwn(k)}), ReplyPlan(k, {PutCopy(k)}),
                  ReplyPlan(k, {PutOwn(k)}), ReplyEnd(k)}

ReplyGoesOn(k, n, x) ==
    /\ x \in {PutCopy(k), PutOwn(k)} /\ x \in Planned(k.todo) /\ items' = After(x)
    /\ n.op = k.op /\ n.at = k.at /\ n.id = k.id /\ n.on = k.on /\ n.arg = k.arg
    /\ n.todo \in ReplyTodos(k)
    /\ PutOwn(k) \in Planned(n.todo) <=> PutOwn(k) \in Planned(k.todo) /\ x # PutOwn(k)
    /\ PutCopy(k) \in Planned(n.todo) <=> PutCopy(k) \in Planned(k.todo) /\ x # PutCopy(k)

LEMMA ReplyGoes ==
    ASSUME NEW w, NEW k, NEW n, NEW x, Writing(w, k, n, x), k.op = "reply", k.todo # ReplyEnd(k)
    PROVE  ReplyGoesOn(k, n, x)
<1>1. PICK c, o, e : c = PutCopy(k) /\ o = PutOwn(k) /\ e = CountReply(k.arg[1]) OBVIOUS
<1>2. c # o /\ c # e /\ o # e BY <1>1, PutsApart
<1>3. /\ ReplyPlan(k, {c, o}) = <<{c, o}, {e}>> /\ ReplyPlan(k, {c}) = <<{c}, {e}>>
      /\ ReplyPlan(k, {o}) = <<{o}, {e}>> /\ ReplyEnd(k) = <<{e}>>
  BY <1>1 DEF ReplyPlan, ReplyEnd
<1>4. /\ Planned(<<{c, o}, {e}>>) = {c, o, e} /\ Planned(<<{c}, {e}>>) = {c, e}
      /\ Planned(<<{o}, {e}>>) = {o, e} /\ Planned(<<{e}>>) = {e}
  <2>1. Planned(<<{c, o}, {e}>>) = {c, o, e} BY ReplyPlanned
  <2>2. Planned(<<{c}, {e}>>) = {c, e} /\ Planned(<<{o}, {e}>>) = {o, e} BY TwoSets
  <2>3. Planned(<<{e}>>) = {e} BY OneWrite
  <2> QED BY <2>1, <2>2, <2>3
<1>5. ReplyTodos(k) = {<<{c, o}, {e}>>, <<{c}, {e}>>, <<{o}, {e}>>, <<{e}>>}
  BY <1>1, <1>3 DEF ReplyTodos
<1>6. k.todo \in {<<{c, o}, {e}>>, <<{c}, {e}>>, <<{o}, {e}>>}
  BY <1>1, <1>3, ReplyAt DEF Writing
<1>7. CASE k.todo = <<{c, o}, {e}>>
  <2>1. /\ x \in {c, o} /\ items' = After(x)
        /\ x = c => Continues(k, n, <<{o}, {e}>>)
        /\ x = o => Continues(k, n, <<{c}, {e}>>)
    BY SMTT(30), <1>2, <1>7, FirstOfPair
  <2>2. CASE x = c
    <3>1. n.todo = <<{o}, {e}>> BY <2>1, <2>2 DEF Continues
    <3> QED BY <1>1, <1>2, <1>4, <1>5, <1>7, <2>1, <2>2, <3>1 DEF ReplyGoesOn, Continues
  <2>3. CASE x = o
    <3>1. n.todo = <<{c}, {e}>> BY <2>1, <2>3 DEF Continues
    <3> QED BY <1>1, <1>2, <1>4, <1>5, <1>7, <2>1, <2>3, <3>1 DEF ReplyGoesOn, Continues
  <2> QED BY <2>1, <2>2, <2>3
<1>8. CASE k.todo = <<{c}, {e}>>
  <2>1. x = c /\ items' = After(c) /\ Continues(k, n, <<{e}>>) BY <1>8, FirstOfTwo
  <2>2. n.todo = <<{e}>> BY <2>1 DEF Continues
  <2> QED BY <1>1, <1>2, <1>4, <1>5, <1>8, <2>1, <2>2 DEF ReplyGoesOn, Continues
<1>9. CASE k.todo = <<{o}, {e}>>
  <2>1. x = o /\ items' = After(o) /\ Continues(k, n, <<{e}>>) BY <1>9, FirstOfTwo
  <2>2. n.todo = <<{e}>> BY <2>1 DEF Continues
  <2> QED BY <1>1, <1>2, <1>4, <1>5, <1>9, <2>1, <2>2 DEF ReplyGoesOn, Continues
<1> QED BY <1>6, <1>7, <1>8, <1>9

\* A row of the reply k was put that was not there.
RowBorn(k, key) ==
    /\ key = Post(k.id) \/ key = PostIn(k.arg[1], k.id)
    /\ ~Has(key) /\ Elsewhere(key) /\ DOMAIN items' = DOMAIN items \cup {key}
    /\ items'[key] = NewPost(k.arg[1], k.id)

LEMMA RowPut ==
    ASSUME NEW k, NEW n, NEW x, ReplyGoesOn(k, n, x), ReplyOf(k)
    PROVE  RowBorn(k, x.key) /\ x.key = (IF x = PutOwn(k) THEN Post(k.id) ELSE PostIn(k.arg[1], k.id))
<1>1. /\ x \in {PutCopy(k), PutOwn(k)} /\ x \in Planned(k.todo) /\ items' = After(x)
  BY DEF ReplyGoesOn
<1>2. /\ PutOwn(k).do = "put" /\ PutOwn(k).key = Post(k.id) /\ PutOwn(k).val = NewPost(k.arg[1], k.id)
      /\ PutCopy(k).do = "put" /\ PutCopy(k).key = PostIn(k.arg[1], k.id)
      /\ PutCopy(k).val = NewPost(k.arg[1], k.id)
  BY DEF PutOwn, PutCopy, Put
<1>3. /\ x.do = "put" /\ x.val = NewPost(k.arg[1], k.id)
      /\ x.key = (IF x = PutOwn(k) THEN Post(k.id) ELSE PostIn(k.arg[1], k.id))
  BY <1>1, <1>2
<1>4. ~Has(x.key) BY <1>1, <1>3 DEF ReplyOf, OwnLeft, CopyLeft
<1>5. Elsewhere(x.key) BY <1>1, <1>3, WritesElsewhere
<1>6. DOMAIN items' = DOMAIN items \cup {x.key} /\ items'[x.key] = x.val BY <1>1, <1>3, PutFacts
<1> QED BY <1>3, <1>4, <1>5, <1>6 DEF RowBorn

LEMMA RowBornPlaces ==
    ASSUME NEW k, k.op = "reply", NEW key, RowBorn(k, key)
    PROVE  /\ KeptThreads /\ KeptVotes /\ KeptAddons /\ KeptLinks /\ PlacesGrow(k)
           /\ \A q : q = k.id \/ (TextSame(q) /\ PostTallySame(q))
           /\ \A o : Has(o) => Has(o)' /\ items'[o] = items[o]
           /\ \A o : Has(o)' /\ ~Has(o) => o = key
<1>1. key[1] \in {"POST", "THREAD_POST"} BY RowKeys DEF RowBorn
<1>2. KeptThreads /\ KeptVotes /\ KeptAddons /\ KeptLinks BY <1>1, Families DEF RowBorn
<1>3. \A o : Has(o) => Has(o)' /\ items'[o] = items[o]
  BY DEF RowBorn, Elsewhere, SameAt, Has
<1>4. \A o : Has(o)' /\ ~Has(o) => o = key BY DEF RowBorn, Has
<1>5. /\ \A q : Post(q) = key => q = k.id
      /\ \A o, q : PostIn(o, q) = key => q = k.id
  BY RowKeys DEF RowBorn
<1>6. PlacesGrow(k) BY <1>3, <1>4, <1>5 DEF PlacesGrow
<1>7. ASSUME NEW q, q # k.id PROVE TextSame(q) /\ PostTallySame(q)
  <2>1. Post(q) # key /\ \A o : PostIn(o, q) # key BY <1>5, <1>7
  <2> QED BY <1>3, <1>4, <2>1 DEF TextSame, PostTallySame
<1> QED BY <1>2, <1>3, <1>4, <1>6, <1>7

LEMMA NewPostRow ==
    ASSUME NEW t \in Known, NEW p \in Known
    PROVE  PostRow(NewPost(t, p)) /\ NewPost(t, p).thread = t /\ NewPost(t, p).text = p
           /\ NoVotes(NewPost(t, p))
<1>1. Cardinality(User) \in Nat BY VotesFinite
<1>2. 0 \in 0..Cardinality(User) BY <1>1
<1> QED BY <1>2 DEF NewPost, PostRow, NoVotes


LEMMA RepliesStill ==
    ASSUME CommunityInv, NEW w \in Worker, NEW k, NEW n, NEW x, Writing(w, k, n, x),
           k.op = "reply", n.op = "reply", n.id = k.id, NEW key, RowBorn(k, key)
    PROVE  RepliesCounted'
<1>1. Moves(w, k, n) /\ requests' = requests /\ torn' = torn BY DEF Writing, Step
<1>2. /\ KeptThreads
      /\ \A o : Has(o) => Has(o)' /\ items'[o] = items[o]
      /\ \A o : Has(o)' /\ ~Has(o) => o = key
  BY RowBornPlaces
<1>3. \A q : InReply(q)' <=> InReply(q)
  <2>1. call[w].op = call'[w].op /\ call[w].id = call'[w].id BY <1>1 DEF Moves
  <2>2. \A v \in Worker : call'[v].op = call[v].op /\ call'[v].id = call[v].id
    BY <1>1, <2>1 DEF Moves
  <2> QED BY <2>2 DEF InReply
<1>4. InReply(k.id) BY <1>1 DEF InReply, Moves
<1>5. ASSUME NEW t PROVE CountedIn(t)' = CountedIn(t)
  <2>1. ASSUME NEW q, ~InReply(q)
        PROVE  /\ Has(Post(q))' <=> Has(Post(q))
               /\ Has(Post(q)) => items'[Post(q)] = items[Post(q)]
    <3>1. Post(q) = key => q = k.id BY SMTT(30), RowKeys DEF RowBorn
    <3> QED BY <1>2, <1>4, <2>1, <3>1
  <2>2. Known' = Known BY <1>1 DEF Known
  <2>3. \A q : q \in CountedIn(t)' <=> q \in CountedIn(t)
    BY <1>3, <2>1, <2>2 DEF CountedIn, ThreadOf, Post
  <2> QED BY <2>3
<1> SUFFICES ASSUME NEW t, Has(Thread(t))'
             PROVE  /\ items'[Thread(t)].replies <= Cardinality(CountedIn(t)')
                    /\ Replies(t) \notin torn'
                          => items'[Thread(t)].replies = Cardinality(CountedIn(t)')
  BY DEF RepliesCounted, Replies
<1>6. Has(Thread(t)) /\ items'[Thread(t)] = items[Thread(t)] BY <1>2 DEF KeptThreads, SameAt, Has
<1>7. /\ items[Thread(t)].replies <= Cardinality(CountedIn(t))
      /\ Replies(t) \notin torn => items[Thread(t)].replies = Cardinality(CountedIn(t))
  BY <1>6 DEF CommunityInv, RepliesCounted
<1> QED BY <1>1, <1>5, <1>6, <1>7

LEMMA ReplyPutWritten ==
    ASSUME CommunityInv, NEW w \in Worker, NEW k, NEW n, NEW x, Writing(w, k, n, x),
           k.op = "reply", k.todo # ReplyEnd(k)
    PROVE  CommunityInv'
<1>1. /\ Request(k) /\ Facts(k) /\ Step(w, k, n) /\ Moves(w, k, n) /\ k.todo # <<>>
      /\ spoiled' = spoiled
  BY DEF Writing, Step
<1>2. PICK t, p, key : t = k.arg[1] /\ p = k.id /\ key = x.key OBVIOUS
<1>3. /\ k.at = "done" /\ k.on = {Replies(t), PostText(p), PostVotes(p)}
      /\ Has(Thread(t)) /\ ReplyOf(k)
  BY <1>1, <1>2, ReplyAt
<1>4. ReplyGoesOn(k, n, x) BY ReplyGoes
<1>5. /\ RowBorn(k, key)
      /\ key = (IF x = PutOwn(k) THEN Post(p) ELSE PostIn(t, p))
  BY <1>2, <1>3, <1>4, RowPut
<1>6. /\ n.op = "reply" /\ n.at = "done" /\ n.id = p /\ n.on = k.on /\ n.arg = k.arg
      /\ n.todo \in ReplyTodos(k)
  BY <1>2, <1>3, <1>4 DEF ReplyGoesOn
<1>7. n # Idle BY <1>6, IdleCall
<1>8. /\ KeptThreads /\ KeptVotes /\ KeptAddons /\ KeptLinks /\ PlacesGrow(k)
      /\ \A q : q = p \/ (TextSame(q) /\ PostTallySame(q))
      /\ \A o : Has(o) => Has(o)' /\ items'[o] = items[o]
      /\ \A o : Has(o)' /\ ~Has(o) => o = key
  BY <1>2, <1>5, RowBornPlaces
<1>9. PICK row : row = NewPost(t, p) OBVIOUS
<1>10. t \in Known /\ p \in Known
  BY <1>2, <1>3, WriterId DEF CommunityInv, Threads, ThreadRows
<1>11. PostRow(row) /\ row.thread = t /\ row.text = p /\ NoVotes(row) BY <1>9, <1>10, NewPostRow
<1>12. items'[key] = row /\ (key = Post(p) \/ key = PostIn(t, p)) BY <1>2, <1>5, <1>9 DEF RowBorn
<1>13. GrowThreads /\ KeptReplies /\ KeptTallies BY <1>8, ThreadsSame
<1>14. /\ Has(Post(p)) => ThreadOf(p) = t
       /\ \A o : Has(PostIn(o, p)) => o = t
  BY <1>2, <1>3 DEF ReplyOf
\* What the new row may be.
<1>15. ASSUME NEW q, Has(Post(q))', ~Has(Post(q))
       PROVE  q = p /\ items'[Post(q)] = row
  <2>1. Post(q) = key BY <1>8, <1>15
  <2>2. q = p BY <1>12, <2>1 DEF PostIn, Post
  <2> QED BY <1>12, <2>1, <2>2
<1>16. ASSUME NEW o, NEW q, Has(PostIn(o, q))', ~Has(PostIn(o, q))
       PROVE  o = t /\ q = p /\ items'[PostIn(o, q)] = row
  <2>1. PostIn(o, q) = key BY <1>8, <1>16
  <2>2. o = t /\ q = p BY <1>12, <2>1 DEF PostIn, Post
  <2> QED BY <1>12, <2>1, <2>2
<1>17. \A r : PostRow(r) => PostRow(r)' BY <1>1, PostRowStays
<1>18. OwnRows'
  <2> SUFFICES ASSUME NEW q, Has(Post(q))'
               PROVE  /\ q \in Known' /\ PostRow(items[Post(q)])' /\ Has(Thread(ThreadOf(q)))'
    BY DEF OwnRows, Post, ThreadOf
  <2>1. PICK r : r = items'[Post(q)] OBVIOUS
  <2>2. q \in Known /\ PostRow(r) /\ Has(Thread(r.thread))
    <3>1. CASE Has(Post(q))
      BY <1>8, <2>1, <3>1 DEF CommunityInv, Posts, OwnRows, ThreadOf
    <3>2. CASE ~Has(Post(q)) BY <1>3, <1>10, <1>11, <1>15, <2>1, <3>2
    <3> QED BY <3>1, <3>2
  <2>3. PostRow(r)' /\ Has(Thread(r.thread))' BY <1>13, <1>17, <2>2 DEF GrowThreads
  <2>4. PostRow(items[Post(q)])' BY <2>1, <2>3 DEF Post
  <2>5. Has(Thread(ThreadOf(q)))' BY <2>1, <2>3 DEF ThreadOf, Post, Thread
  <2> QED BY <1>1, <2>2, <2>4, <2>5, MovesKnown
<1>19. \A o, q : Has(PostIn(o, q))' /\ Has(Post(q))' => items'[Post(q)].thread = o
  <2> SUFFICES ASSUME NEW o, NEW q, Has(PostIn(o, q))', Has(Post(q))'
               PROVE  items'[Post(q)].thread = o
    OBVIOUS
  <2>1. CASE q # p
    <3>1. Has(Post(q)) /\ Has(PostIn(o, q)) BY <1>15, <1>16, <2>1
    <3> QED BY <1>8, <3>1 DEF CommunityInv, Posts, CopyRows, ThreadOf
  <2>2. CASE q = p
    <3>1. o = t BY <1>14, <1>16, <2>2
    <3>2. items'[Post(p)].thread = t BY <1>8, <1>11, <1>14, <1>15, <2>2 DEF ThreadOf
    <3> QED BY <2>2, <3>1, <3>2
  <2> QED BY <2>1, <2>2
<1>20. CopyRows'
  <2> SUFFICES ASSUME NEW o, NEW q, Has(PostIn(o, q))'
               PROVE  /\ q \in Known' /\ Has(Thread(o))' /\ PostRow(items[PostIn(o, q)])'
                      /\ Has(Post(q))' => ThreadOf(q)' = o
    BY DEF CopyRows, Post, PostIn, ThreadOf, Thread
  <2>1. PICK r : r = items'[PostIn(o, q)] OBVIOUS
  <2>2. q \in Known /\ PostRow(r) /\ Has(Thread(o))
    <3>1. CASE Has(PostIn(o, q))
      BY <1>8, <2>1, <3>1 DEF CommunityInv, Posts, CopyRows
    <3>2. CASE ~Has(PostIn(o, q)) BY <1>3, <1>10, <1>11, <1>16, <2>1, <3>2
    <3> QED BY <3>1, <3>2
  <2>3. PostRow(r)' /\ Has(Thread(o))' BY <1>13, <1>17, <2>2 DEF GrowThreads
  <2>4. PostRow(items[PostIn(o, q)])' BY <2>1, <2>3 DEF PostIn
  <2>5. Has(Post(q))' => ThreadOf(q)' = o BY <1>19 DEF ThreadOf, Post
  <2> QED BY <1>1, <2>2, <2>3, <2>4, <2>5, MovesKnown
<1>21. PutOwn(n) = PutOwn(k) /\ PutCopy(n) = PutCopy(k) /\ ReplyTodos(n) = ReplyTodos(k)
  BY <1>2, <1>6 DEF PutOwn, PutCopy, ReplyTodos, ReplyPlan, ReplyEnd
<1>22. Request(n)'
  <2>1. n.on = {Replies(n.arg[1]), PostText(n.id), PostVotes(n.id)} /\ n.arg[1] \in KnownOrNothing
    BY <1>2, <1>3, <1>6, <1>10 DEF KnownOrNothing
  <2>2. ReplyCall(n) BY <1>6, <1>21, <2>1 DEF ReplyCall, ReplyTodos
  <2>3. Request(n) BY <1>1, <1>2, <1>6, <2>2 DEF Request, ByHandOps
  <2> QED BY <1>1, <2>3, RequestStays DEF Writing, Moves
<1>23. PostFacts(n)'
  <2>1. Has(Post(p))' <=> PutOwn(n) \notin Planned(n.todo)
    <3>1. Has(Post(p)) <=> PutOwn(k) \notin Planned(k.todo) BY <1>2, <1>3 DEF ReplyOf, OwnLeft
    <3>2. Has(Post(p))' <=> Has(Post(p)) \/ x = PutOwn(k)
      <4>1. Post(p) = key <=> x = PutOwn(k) BY <1>5 DEF Post, PostIn
      <4>2. Has(key)' BY <1>5 DEF RowBorn, Has
      <4> QED BY <1>8, <4>1, <4>2
    <3> QED BY <1>4, <1>21, <3>1, <3>2 DEF ReplyGoesOn
  <2>2. ASSUME NEW o, Has(PostIn(o, p))' PROVE o = t /\ PutCopy(n) \notin Planned(n.todo)
    <3>1. CASE Has(PostIn(o, p))
      <4>1. o = t /\ PutCopy(k) \notin Planned(k.todo) BY <1>2, <1>3, <3>1 DEF ReplyOf, CopyLeft
      <4> QED BY <1>4, <1>21, <4>1 DEF ReplyGoesOn
    <3>2. CASE ~Has(PostIn(o, p))
      <4>1. PostIn(o, p) = key BY <1>8, <2>2, <3>2
      <4>2. x # PutOwn(k) BY <1>5, <4>1 DEF Post, PostIn
      <4>3. x = PutCopy(k) BY <1>4, <4>2 DEF ReplyGoesOn
      <4> QED BY <1>4, <1>16, <1>21, <2>2, <3>2, <4>3 DEF ReplyGoesOn
    <3> QED BY <3>1, <3>2
  <2>3. Has(Post(p))' => items'[Post(p)].thread = t
    BY <1>8, <1>11, <1>14, <1>15 DEF ThreadOf
  <2>4. (OwnLeft(n))' <=> PutOwn(n) \in Planned(n.todo)
    BY <1>6 DEF OwnLeft, PutOwn, Put, Post, NewPost
  <2>5. (CopyLeft(n))' <=> PutCopy(n) \in Planned(n.todo)
    BY <1>6 DEF CopyLeft, PutCopy, Put, PostIn, NewPost
  <2>6. ReplyOf(n)' BY <1>2, <1>6, <2>1, <2>2, <2>3, <2>4, <2>5 DEF ReplyOf, ThreadOf, Post, PostIn
  <2> QED BY <1>6, <2>6 DEF PostFacts
<1>24. TextFacts(n)'
  <2>1. ASSUME PostText(p) \notin spoiled
        PROVE  /\ Has(Post(p))' => items'[Post(p)].text = p
               /\ \A o : Has(PostIn(o, p))' => items'[PostIn(o, p)].text = p
    <3>1. /\ Has(Post(p)) => items[Post(p)].text = p
          /\ \A o : Has(PostIn(o, p)) => items[PostIn(o, p)].text = p
      BY <1>1, <1>2, <2>1 DEF Facts, TextFacts
    <3> QED BY <1>8, <1>11, <1>15, <1>16, <3>1
  <2> QED BY <1>1, <1>6, <2>1 DEF TextFacts, Post, PostIn, PostText
<1>25. VoteFacts(n)'
  <2>1. ASSUME PostVotes(p) \notin spoiled
        PROVE  /\ \A u : ~Has(Vote(PostVotes(p), u))'
               /\ Has(Post(p))' => NoVotes(items'[Post(p)])
               /\ \A o : Has(PostIn(o, p))' => NoVotes(items'[PostIn(o, p)])
    <3>1. /\ \A u : ~Has(Vote(PostVotes(p), u))
          /\ Has(Post(p)) => NoVotes(items[Post(p)])
          /\ \A o : Has(PostIn(o, p)) => NoVotes(items[PostIn(o, p)])
      BY <1>1, <1>2, <2>1 DEF Facts, VoteFacts, Unvoted
    <3>2. \A u : ~Has(Vote(PostVotes(p), u))' BY <1>8, <3>1 DEF KeptVotes, SameAt, Has
    <3> QED BY <1>8, <1>11, <1>15, <1>16, <3>1, <3>2
  <2>2. PostVotes(p) \notin spoiled => Unvoted(p)'
    BY <2>1 DEF Unvoted, NoVotes, Post, PostIn, PostVotes, Vote
  <2> QED BY <1>1, <1>6, <2>2 DEF VoteFacts, PostVotes
<1>26. ThreadFacts(n)' BY <1>2, <1>3, <1>6, <1>13 DEF ThreadFacts, GrowThreads, Thread
<1>27. Facts(n)'
  BY <1>6, <1>23, <1>24, <1>25, <1>26 DEF Facts, AddonFacts, LinkFacts, ByHandOps
<1>28. Threads' BY <1>1, <1>8, <1>26, ThreadsFrame DEF CommunityInv
<1>29. Posts' BY <1>1, <1>8, <1>18, <1>20, <1>23, PostsKept DEF CommunityInv
<1>30. RepliesCounted' BY <1>2, <1>5, <1>6, RepliesStill
<1>31. CopyHasPost'
  <2>1. \A o, q : Has(PostIn(o, q))' /\ ~Has(PostIn(o, q)) => n.op = "reply" /\ n.id = q
    BY <1>6, <1>16
  <2> QED BY <1>1, <1>7, <1>8, <2>1, CopyFrame DEF CommunityInv
<1>32. Texts'
  <2>1. \A q : PostText(q) \in k.on \/ TextSame(q) BY <1>3, <1>8
  <2> QED BY <1>1, <1>7, <1>24, <2>1, TextsKept DEF CommunityInv
<1>33. VotesInv'
  <2>1. VotedThreads' /\ VotedPosts' /\ \A s : VotesSame(s) BY <1>8, <1>13, VotedStay DEF CommunityInv
  <2>2. \A q : PostVotes(q) \in k.on \/ (VotesSame(PostVotes(q)) /\ PostTallySame(q))
    BY <1>3, <1>8, <2>1
  <2>3. \A o : TallySame(o) BY <1>13 DEF KeptTallies, TallySame
  <2> QED BY <1>1, <1>7, <1>13, <1>25, <2>1, <2>2, <2>3, VotesKept DEF CommunityInv
<1>34. Addons' /\ Links' BY <1>7, <1>8, <1>27, AddonsRest, LinksRest
<1> QED BY <1>22, <1>28, <1>29, <1>30, <1>31, <1>32, <1>33, <1>34, Together


-----------------------------------------------------------------------------
(* Every step.                                                             *)

LEMMA WriteKept ==
    ASSUME CommunityInv, NEW w \in Worker, Write(w), spoiled' = spoiled
    PROVE  CommunityInv'
<1>1. PICK k, n, x : Writing(w, k, n, x) BY WritesOn
<1>2. /\ Request(k) /\ k.op \in Ops /\ k.todo # <<>>
  BY <1>1 DEF Writing, Request
<1>3. CASE k.op = "tag" BY <1>1, <1>3, TagWritten
<1>4. CASE k.op = "thread" BY <1>1, <1>4, BornWritten, LinkWritten
<1>5. CASE k.op = "view" BY <1>1, <1>5, ViewWritten
<1>6. CASE k.op = "edit" BY <1>1, <1>6, EditWritten
<1>7. CASE k.op = "reply" BY <1>1, <1>7, ReplyCountWritten, ReplyPutWritten
<1>8. CASE k.op = "rewrite" BY <1>1, <1>8, TextWritten
<1>9. CASE k.op = "vote"
  <2>1. k.at \in {"count", "done"} BY <1>2, <1>9 DEF Request, VoteCall
  <2>2. k.arg[1][1] \in {"thread", "post"} BY <1>2, <1>9, VoteTarget
  <2> QED BY <1>1, <1>9, <2>1, <2>2, VoteWritten, ThreadVoted, TallyWritten
<1>10. CASE k.op = "addon" BY <1>1, <1>10, AddonWritten
<1>11. CASE k.op \in ByHandOps BY <1>1, <1>11, HandWritten
<1>12. CASE k.op = "deck" BY <1>1, <1>12, StoreWritten
<1> QED BY <1>2, <1>3, <1>4, <1>5, <1>6, <1>7, <1>8, <1>9, <1>10, <1>11, <1>12 DEF Ops, ByHandOps

LEMMA NothingMoves ==
    ASSUME CommunityInv, UNCHANGED vars
    PROVE  CommunityInv'
<1>1. /\ items' = items /\ call' = call /\ requests' = requests /\ torn' = torn /\ spoiled' = spoiled
      /\ requests \in Nat /\ requests <= MaxRequests
  BY DEF vars, tableVars, CommunityInv, CallsInv
<1>2. Stays BY <1>1 DEF Stays
<1>3. ASSUME NEW w \in Worker PROVE Request(call[w])' /\ Facts(call[w])'
  <2>1. PICK k : k = call[w] OBVIOUS
  <2>2. Request(k) /\ Facts(k)
    BY <2>1 DEF CommunityInv, CallsInv, Facts, Threads, Posts, Texts, VotesInv, Addons, Links
  <2>3. Request(k)' /\ Facts(k)' BY <1>1, <1>2, <2>2, FactsStand
  <2>4. call'[w] = k BY <1>1, <2>1
  <2> QED BY <2>3, <2>4
<1>4. CallsInv'
  <2>1. CallsOK' BY <1>1 DEF CommunityInv, CallsInv, CallsOK
  <2>2. \A v, w \in Worker : (Busy(v) /\ Busy(w) /\ call[v].id = call[w].id => v = w)'
    BY <1>1 DEF CommunityInv, CallsInv, Busy
  <2> QED BY <1>1, <1>3, <2>1, <2>2 DEF CallsInv
<1>5. Alone' BY <1>1 DEF CommunityInv, Alone
<1>6. KeptThreads /\ KeptOwn /\ KeptCopies /\ KeptVotes /\ KeptAddons /\ KeptLinks
  BY <1>1, NothingWritten
<1>7. Known' = Known BY <1>1 DEF Known
<1>8. Threads'
  <2>1. ThreadRows' BY <1>1, <1>7 DEF CommunityInv, Threads, ThreadRows, Has, ThreadRow
  <2>2. ASSUME NEW t PROVE Viewed(t)' = Viewed(t) BY <1>1 DEF Viewed, Viewing
  <2>3. Views' BY <1>1, <2>2 DEF CommunityInv, Threads, Views, Has
  <2> QED BY <1>3, <2>1, <2>3 DEF Threads, Facts
<1>9. Posts'
  <2>1. OwnRows' BY <1>1, <1>7 DEF CommunityInv, Posts, OwnRows, Has, PostRow, ThreadOf
  <2>2. CopyRows' BY <1>1, <1>7 DEF CommunityInv, Posts, CopyRows, Has, PostRow, ThreadOf
  <2> QED BY <1>3, <2>1, <2>2 DEF Posts, Facts
<1>10. \A q : InReply(q)' <=> InReply(q) BY <1>1 DEF InReply
<1>11. RepliesCounted'
  <2>1. ASSUME NEW t PROVE CountedIn(t)' = CountedIn(t)
    <3>1. \A q : q \in CountedIn(t)' <=> q \in CountedIn(t)
      BY <1>1, <1>7, <1>10 DEF CountedIn, Has, ThreadOf
    <3> QED BY <3>1
  <2> QED BY <1>1, <2>1 DEF CommunityInv, RepliesCounted, Has
<1>12. CopyHasPost' BY <1>1, <1>10 DEF CommunityInv, CopyHasPost, Has
<1>13. \A s : Settled(s)' <=> Settled(s) BY <1>1 DEF Settled, AtRest
<1>14. Texts'
  <2>1. TextsAgree'
    BY <1>1, <1>13 DEF CommunityInv, Texts, TextsAgree, TextAgrees, Has, ThreadOf
  <2> QED BY <1>3, <2>1 DEF Texts, Facts
<1>15. VotesInv'
  <2>1. \A s : VotesSame(s) BY <1>6 DEF KeptVotes, VotesSame
  <2>2. \A s, row : VotesCounted(row, s)' <=> VotesCounted(row, s) BY <2>1, SameVotes
  <2>3. VotedThreads' /\ VotedPosts' BY <1>1 DEF CommunityInv, VotesInv, VotedThreads, VotedPosts, Has
  <2>4. ThreadsCounted'
    <3> SUFFICES ASSUME NEW t, Has(Thread(t))', Settled(ThreadVotes(t))'
                 PROVE  VotesCounted(items[Thread(t)], ThreadVotes(t))'
      BY DEF ThreadsCounted
    <3>1. PICK s, row : s = ThreadVotes(t) /\ row = items'[Thread(t)] OBVIOUS
    <3>2. Settled(s)' BY <3>1 DEF ThreadVotes
    <3>3. VotesCounted(row, s)
      BY <1>1, <1>13, <3>1, <3>2 DEF CommunityInv, VotesInv, ThreadsCounted, Has
    <3>4. VotesCounted(row, s)' BY <2>2, <3>3
    <3> QED BY <3>1, <3>4 DEF ThreadVotes, Thread
  <2>5. PostsCounted'
    <3> SUFFICES ASSUME NEW p, Has(Post(p))', Settled(PostVotes(p))'
                 PROVE  BothCounted(p)'
      BY DEF PostsCounted
    <3>1. PICK s, t, row, copy : /\ s = PostVotes(p) /\ t = ThreadOf(p) /\ row = items[Post(p)]
                                 /\ copy = items[PostIn(t, p)]
      OBVIOUS
    <3>2. Settled(s)' BY <3>1 DEF PostVotes
    <3>3. BothCounted(p)
      BY <1>1, <1>13, <3>1, <3>2 DEF CommunityInv, VotesInv, PostsCounted, Has
    <3>4. VotesCounted(row, s) /\ (Has(PostIn(t, p)) => VotesCounted(copy, s))
      BY <3>1, <3>3 DEF BothCounted
    <3>5. VotesCounted(row, s)' /\ (Has(PostIn(t, p)) => VotesCounted(copy, s)')
      BY <2>2, <3>4
    <3>6. t = ThreadOf(p)' /\ row = items'[Post(p)] /\ copy = items'[PostIn(t, p)]
          /\ (Has(PostIn(t, p))' <=> Has(PostIn(t, p)))
      BY <1>1, <3>1 DEF ThreadOf, Has
    <3> QED BY <3>1, <3>5, <3>6 DEF BothCounted, PostVotes, Post, PostIn
  <2> QED BY <1>3, <2>3, <2>4, <2>5 DEF VotesInv, Facts
<1>16. Addons'
  <2>1. AddonRows' /\ MarkdownOf'
    BY <1>1, <1>7 DEF CommunityInv, Addons, AddonRows, MarkdownOf, AddonRow, Has
  <2>2. DecksCounted' BY <1>1, <1>13 DEF CommunityInv, Addons, DecksCounted, CardsCounted, Has
  <2> QED BY <1>3, <2>1, <2>2 DEF Addons, Facts
<1>17. Links'
  <2>1. \A t : HasLinks(t)' => HasLinks(t)
    BY <1>1 DEF HasLinks, LinkKeys, Has, TagOf, Tagged, Link, Linked
  <2>2. \A t : BothOrNone(t) => BothOrNone(t)' BY <1>1 DEF BothOrNone, Has
  <2>3. \A t : Creating(t)' <=> Creating(t) BY <1>1 DEF Creating
  <2>4. \A t : HasLinks(t)' => t \in Known' BY <1>7, <2>1 DEF CommunityInv, Links
  <2>5. \A t : (Replies(t) \notin torn /\ ~Creating(t) => BothOrNone(t))'
    BY <1>1, <2>2, <2>3 DEF CommunityInv, Links, Replies
  <2> QED BY <1>3, <2>4, <2>5 DEF Links, Facts
<1> QED BY <1>4, <1>5, <1>8, <1>9, <1>11, <1>12, <1>14, <1>15, <1>16, <1>17 DEF CommunityInv

LEMMA CommunityInvStep == CommunityInv /\ [Next]_vars => CommunityInv'
<1> SUFFICES ASSUME CommunityInv, [Next]_vars PROVE CommunityInv'
  OBVIOUS
<1>1. CASE UNCHANGED vars BY <1>1, NothingMoves
<1>2. ASSUME NEW w \in Worker, CreateNext(w) PROVE CommunityInv'
  <2>1. CASE \E g \in Tag : CreateTag(w, g) BY <2>1, CreateTagKept
  <2>2. CASE \E tags \in SUBSET Tag : CreateThread(w, tags, {})
    <3>1. {} \subseteq Content OBVIOUS
    <3> QED BY <2>2, <3>1, CreateThreadKept
  <2>3. CASE \E tags \in SUBSET Tag, c \in Content : CreateThread(w, tags, {c})
    <3>1. \A c \in Content : {c} \subseteq Content OBVIOUS
    <3> QED BY <2>3, <3>1, CreateThreadKept
  <2>4. CASE PutRow(w) BY <2>4, PutRowKept
  <2>5. CASE TagAndLink(w) BY <2>5, TagAndLinkKept
  <2> QED BY <1>2, <2>1, <2>2, <2>3, <2>4, <2>5 DEF CreateNext
<1>3. ASSUME NEW w \in Worker, ThreadsNext(w) PROVE CommunityInv'
  <2>1. CASE \E t \in Named(Thread) : ReadThread(w, t) \/ UpdateThread(w, t) BY <2>1, ReadKept
  <2>2. CASE \E u \in User, t \in Named(Thread), v \in {"up", "down", "none"} :
                VoteOn(w, u, ThreadVotes(t), v)
    BY <2>2, VoteOnKept
  <2>3. CASE TouchThread(w) BY <2>3, TouchThreadKept
  <2> QED BY <1>3, <2>1, <2>2, <2>3 DEF ThreadsNext
<1>4. ASSUME NEW w \in Worker, PostsNext(w) PROVE CommunityInv'
  <2>1. CASE \E t \in Named(Thread) : CreatePost(w, t) BY <2>1, CreatePostKept
  <2>2. CASE \E p \in Shown : UpdatePost(w, p) BY <2>2, UpdatePostKept
  <2>3. CASE \E u \in User, p \in Shown, v \in {"up", "down"} : VoteOn(w, u, PostVotes(p), v)
    BY <2>3, VoteOnKept
  <2>4. CASE PutPost(w) BY <2>4, PutPostKept
  <2>5. CASE RewritePost(w) BY <2>5, RewritePostKept
  <2>6. CASE WritePostCounts(w) BY <2>6, WritePostCountsKept
  <2> QED BY <1>4, <2>1, <2>2, <2>3, <2>4, <2>5, <2>6 DEF PostsNext
<1>5. ASSUME NEW w \in Worker, VotesNext(w) PROVE CommunityInv'
  BY <1>5, UpsertVoteKept, RecomputeVoteCountsKept DEF VotesNext
<1>6. ASSUME NEW w \in Worker, AddonsNext(w) PROVE CommunityInv'
  <2>1. CASE \E u \in User, kind \in Kinds : CreateAddon(w, u, kind) BY <2>1, CreateAddonKept
  <2>2. CASE \E u \in User, a \in Named(Addon), c \in 0..MaxCards :
                \/ UpdateAddon(w, u, a, c)
                \/ StoreMarkdown(w, a, c)
                \/ PutAddonDeck(w, u, a, c)
    BY <2>2, HandsKept, PutAddonDeckKept
  <2>3. CASE \E a \in Named(Addon) : DeleteMarkdown(w, a)
    <3>1. 0 \in 0..MaxCards BY CommunityConstants
    <3> QED BY <2>3, <3>1, HandsKept
  <2>4. CASE PutAddon(w) BY <2>4, PutAddonKept
  <2>5. CASE WriteByHand(w) BY <2>5, WriteByHandKept
  <2>6. CASE StoreDeck(w) BY <2>6, StoreDeckKept
  <2> QED BY <1>6, <2>1, <2>2, <2>3, <2>4, <2>5, <2>6 DEF AddonsNext, Kinds
<1>7. ASSUME NEW w \in Worker, Work(w) PROVE CommunityInv'
  BY <1>7, WriteKept, CrashKept DEF Work
<1> QED BY <1>1, <1>2, <1>3, <1>4, <1>5, <1>6, <1>7 DEF Next


-----------------------------------------------------------------------------
(* The beginning.                                                          *)

LEMMA InitItems ==
    ASSUME Init
    PROVE  /\ \E u \in User : items[Addon(0)] = NewAddon(u, "flashcard_pack")
           /\ DOMAIN items = {Thread(0), Post(0), PostIn(0, 0), Addon(0)}
           /\ items[Thread(0)] = [NewThread EXCEPT !.replies = 1]
           /\ items[Post(0)] = NewPost(0, 0) /\ items[PostIn(0, 0)] = NewPost(0, 0)
           /\ call = [w \in Worker |-> Idle] /\ requests = 0 /\ torn = {} /\ spoiled = {}
<1>1. PICK u \in User :
         TableInit(
            [k \in {Thread(0), Post(0), PostIn(0, 0), Addon(0)} |->
               CASE k = Thread(0) -> [NewThread EXCEPT !.replies = 1]
                 [] k = Addon(0) -> NewAddon(u, "flashcard_pack")
                 [] OTHER -> NewPost(0, 0)])
  BY DEF Init
<1>2. /\ Thread(0) # Addon(0) /\ Post(0) # Thread(0) /\ Post(0) # Addon(0)
      /\ PostIn(0, 0) # Thread(0) /\ PostIn(0, 0) # Addon(0)
  BY DEF Thread, Addon, Post, PostIn
<1>3. PICK a, b, c, d : a = Thread(0) /\ b = Post(0) /\ c = PostIn(0, 0) /\ d = Addon(0) OBVIOUS
<1>4. PICK x, y, z : /\ x = [NewThread EXCEPT !.replies = 1] /\ y = NewAddon(u, "flashcard_pack")
                     /\ z = NewPost(0, 0)
  OBVIOUS
<1>5. items = [k \in {a, b, c, d} |-> CASE k = a -> x [] k = d -> y [] OTHER -> z]
  BY <1>1, <1>3, <1>4 DEF TableInit
<1>6. DOMAIN items = {a, b, c, d} /\ items[a] = x /\ items[d] = y /\ items[b] = z /\ items[c] = z
  BY <1>2, <1>3, <1>5
<1>7. call = [w \in Worker |-> Idle] /\ requests = 0 /\ torn = {} BY <1>1 DEF TableInit
<1> QED BY <1>3, <1>4, <1>6, <1>7 DEF Init

LEMMA InitKeys ==
    ASSUME Init
    PROVE  /\ \A t : Has(Thread(t)) <=> t = 0
           /\ \A p : Has(Post(p)) <=> p = 0
           /\ \A t, p : Has(PostIn(t, p)) <=> t = 0 /\ p = 0
           /\ \A a : Has(Addon(a)) <=> a = 0
           /\ \A a : ~Has(Markdown(a))
           /\ \A s, u : ~Has(Vote(s, u))
           /\ \A t : ~HasLinks(t)
<1>1. DOMAIN items = {Thread(0), Post(0), PostIn(0, 0), Addon(0)} BY InitItems
<1>2. /\ \A t : Has(Thread(t)) <=> t = 0
      /\ \A p : Has(Post(p)) <=> p = 0
      /\ \A t, p : Has(PostIn(t, p)) <=> t = 0 /\ p = 0
      /\ \A a : Has(Addon(a)) <=> a = 0
  BY <1>1 DEF Has, Thread, Post, PostIn, Addon
<1>3. \A key : Has(key) => key[1] \in {"THREAD", "POST", "THREAD_POST", "ADDON"}
  BY <1>1 DEF Has, Thread, Post, PostIn, Addon
<1>4. \A a : ~Has(Markdown(a))
  <2>1. \A a : Markdown(a)[1] = "MARKDOWN" BY DEF Markdown
  <2> QED BY <1>3, <2>1
<1>5. \A s, u : ~Has(Vote(s, u))
  <2>1. \A s, u : Vote(s, u)[1] = "VOTE" BY DEF Vote
  <2> QED BY <1>3, <2>1
<1>6. ASSUME NEW t PROVE ~HasLinks(t)
  <2>1. \A key \in LinkKeys(t) : key[1] \in {"THREAD_TAG", "TAG_THREAD", "LINK", "CONTENT_THREAD"}
    BY DEF LinkKeys, TagOf, Tagged, Link, Linked
  <2> QED BY <1>3, <2>1 DEF HasLinks
<1> QED BY <1>2, <1>4, <1>5, <1>6

LEMMA CommunityInvInit == Init => CommunityInv
<1> SUFFICES ASSUME Init PROVE CommunityInv
  OBVIOUS
<1>1. /\ call = [w \in Worker |-> Idle] /\ requests = 0 /\ torn = {} /\ spoiled = {} BY InitItems
<1>2. \A w \in Worker : call[w] = Idle BY <1>1
<1>3. /\ Idle.op = "idle" /\ Idle.on = {} /\ Idle.id = 0 /\ Idle.at = "done"
      /\ Shaped(Idle) /\ Sequence(Idle.todo)
  BY IdleCall
<1>4. /\ \A t : Has(Thread(t)) <=> t = 0
      /\ \A p : Has(Post(p)) <=> p = 0
      /\ \A t, p : Has(PostIn(t, p)) <=> t = 0 /\ p = 0
      /\ \A a : Has(Addon(a)) <=> a = 0
      /\ \A a : ~Has(Markdown(a))
      /\ \A s, u : ~Has(Vote(s, u))
      /\ \A t : ~HasLinks(t)
  BY InitKeys
<1>5. /\ items[Thread(0)] = [NewThread EXCEPT !.replies = 1]
      /\ items[Post(0)] = NewPost(0, 0) /\ items[PostIn(0, 0)] = NewPost(0, 0)
  BY InitItems
<1>6. PICK u \in User : items[Addon(0)] = NewAddon(u, "flashcard_pack") BY InitItems
<1>7. 0 \in 0..Cardinality(User)
  <2>1. Cardinality(User) \in Nat BY VotesFinite
  <2> QED BY <2>1
<1>8. Known = {0} BY <1>1 DEF Known
<1>9. CallsInv
  <2>1. CallsOK
    <3>1. call = [w \in Worker |-> call[w]] BY <1>1, <1>2
    <3>2. \A w \in Worker : /\ Shaped(call[w]) /\ Sequence(call[w].todo)
                            /\ call[w].op = "idle" => call[w] = Idle
      BY <1>2, <1>3
    <3> QED BY <3>1, <3>2 DEF CallsOK
  <2>2. requests \in Nat /\ requests <= MaxRequests BY <1>1, TableConstants
  <2>3. \A w \in Worker : Request(call[w]) BY <1>2, <1>3 DEF Request
  <2>4. \A w \in Worker : ~Busy(w) BY <1>2, <1>3 DEF Busy
  <2> QED BY <2>1, <2>2, <2>3, <2>4 DEF CallsInv
<1>10. Alone BY <1>2, <1>3 DEF Alone
<1>11. PICK row, post, addon : /\ row = items[Thread(0)] /\ post = items[Post(0)]
                               /\ addon = items[Addon(0)]
  OBVIOUS
<1>12. /\ ThreadRow(row) /\ row.replies = 1 /\ row.views = 0 /\ row.up = 0 /\ row.down = 0
  BY <1>5, <1>7, <1>11 DEF NewThread, ThreadRow
<1>13. /\ PostRow(post) /\ post.thread = 0 /\ post.text = 0 /\ post.up = 0 /\ post.down = 0
       /\ items[PostIn(0, 0)] = post
  BY <1>5, <1>7, <1>8, <1>11 DEF NewPost, PostRow
<1>14. \A s, r : r.up = 0 /\ r.down = 0 => VotesCounted(r, s)
  <2> SUFFICES ASSUME NEW s PROVE \A r : r.up = 0 /\ r.down = 0 => VotesCounted(r, s)
    OBVIOUS
  <2>1. \A r : NoVotes(r) => VotesCounted(r, s) BY <1>4, NobodyVoted
  <2> QED BY <2>1 DEF NoVotes
<1>15. Threads
  <2>1. ThreadRows BY <1>4, <1>8, <1>11, <1>12 DEF ThreadRows
  <2>2. Views
    <3> SUFFICES ASSUME NEW t, Has(Thread(t)) PROVE items[Thread(t)].views <= Cardinality(Viewed(t))
      BY DEF Views
    <3>1. Cardinality(Viewed(t)) \in Nat BY <1>1, GiverViewed
    <3>2. items[Thread(t)].views = 0 BY <1>4, <1>11, <1>12
    <3> QED BY <3>1, <3>2
  <2>3. \A w \in Worker : ThreadFacts(call[w]) BY <1>2, <1>3 DEF ThreadFacts
  <2> QED BY <2>1, <2>2, <2>3 DEF Threads
<1>16. Posts
  <2>1. ThreadOf(0) = 0 BY <1>11, <1>13 DEF ThreadOf
  <2>2. OwnRows BY <1>4, <1>8, <1>11, <1>13, <2>1 DEF OwnRows
  <2>3. CopyRows BY <1>4, <1>8, <1>13, <2>1 DEF CopyRows
  <2>4. \A w \in Worker : PostFacts(call[w]) BY <1>2, <1>3 DEF PostFacts
  <2> QED BY <2>2, <2>3, <2>4 DEF Posts
<1>17. RepliesCounted
  <2>1. ThreadOf(0) = 0 BY <1>11, <1>13 DEF ThreadOf
  <2>2. \A q : ~InReply(q) BY <1>2, <1>3 DEF InReply
  <2>3. CountedIn(0) = {0} BY <1>4, <1>8, <2>1, <2>2 DEF CountedIn
  <2>4. Cardinality(CountedIn(0)) = 1
    <3>1. Cardinality({0}) = 1 BY FS_Singleton
    <3> QED BY <2>3, <3>1
  <2> SUFFICES ASSUME NEW t, Has(Thread(t))
               PROVE  items[Thread(t)].replies = 1 /\ Cardinality(CountedIn(t)) = 1
    BY DEF RepliesCounted
  <2>5. t = 0 BY <1>4
  <2> QED BY <1>11, <1>12, <2>4, <2>5
<1>18. CopyHasPost BY <1>4 DEF CopyHasPost
<1>19. Texts
  <2>1. TextsAgree
    <3> SUFFICES ASSUME NEW p, Has(Post(p)), Has(PostIn(ThreadOf(p), p))
                 PROVE  items[PostIn(ThreadOf(p), p)].text = items[Post(p)].text
      BY DEF TextsAgree, TextAgrees
    <3>1. p = 0 /\ ThreadOf(p) = 0 BY <1>4
    <3> QED BY <1>11, <1>13, <3>1
  <2>2. \A w \in Worker : TextFacts(call[w]) BY <1>2, <1>3 DEF TextFacts
  <2> QED BY <2>1, <2>2 DEF Texts
<1>20. VotesInv
  <2>1. VotedThreads /\ VotedPosts BY <1>4 DEF VotedThreads, VotedPosts
  <2>2. ThreadsCounted BY <1>4, <1>11, <1>12, <1>14 DEF ThreadsCounted
  <2>3. PostsCounted
    <3> SUFFICES ASSUME NEW p, Has(Post(p)) PROVE BothCounted(p)
      BY DEF PostsCounted
    <3>1. p = 0 BY <1>4
    <3>2. VotesCounted(post, PostVotes(p)) BY <1>13, <1>14
    <3>3. Has(PostIn(ThreadOf(p), p)) => items[PostIn(ThreadOf(p), p)] = post
      <4>1. Has(PostIn(ThreadOf(p), p)) => ThreadOf(p) = 0 BY <1>4
      <4> QED BY <1>13, <3>1, <4>1
    <3> QED BY <1>11, <3>1, <3>2, <3>3 DEF BothCounted
  <2>4. \A w \in Worker : VoteFacts(call[w]) BY <1>2, <1>3 DEF VoteFacts
  <2> QED BY <2>1, <2>2, <2>3, <2>4 DEF VotesInv
<1>21. Addons
  <2>1. AddonRow(addon)
    <3>1. 0 \in 0..MaxCards BY CommunityConstants
    <3> QED BY <1>6, <1>11, <3>1 DEF NewAddon, AddonRow, Kinds
  <2>2. AddonRows BY <1>4, <1>8, <1>11, <2>1 DEF AddonRows
  <2>3. MarkdownOf /\ DecksCounted BY <1>4 DEF MarkdownOf, DecksCounted, CardsCounted
  <2>4. \A w \in Worker : AddonFacts(call[w]) BY <1>2, <1>3 DEF AddonFacts, ByHandOps
  <2> QED BY <2>2, <2>3, <2>4 DEF Addons
<1>22. Links
  <2>1. \A t : BothOrNone(t) BY <1>4, NoLinks
  <2>2. \A w \in Worker : LinkFacts(call[w]) BY <1>2, <1>3 DEF LinkFacts
  <2> QED BY <1>4, <2>1, <2>2 DEF Links
<1> QED BY <1>9, <1>10, <1>15, <1>16, <1>17, <1>18, <1>19, <1>20, <1>21, <1>22 DEF CommunityInv

-----------------------------------------------------------------------------
(* What the invariant says.                                                *)

\* At rest nobody is in a reply to the thread, and nobody is creating it.
LEMMA QuietThread ==
    ASSUME CommunityInv, NEW t, AtRest(Replies(t))
    PROVE  /\ ~Creating(t)
           /\ \A p : Has(Post(p)) /\ ThreadOf(p) = t => ~InReply(p)
           /\ \A p : Has(PostIn(t, p)) => ~InReply(p)
<1>1. ASSUME NEW w \in Worker PROVE Request(call[w]) /\ PostFacts(call[w]) /\ Replies(t) \notin call[w].on
  BY DEF CommunityInv, CallsInv, Posts, AtRest
<1>2. ~Creating(t)
  <2>1. ASSUME NEW w \in Worker, call[w].op = "thread", call[w].id = t PROVE FALSE
    BY <1>1, <2>1 DEF Request, ThreadCall
  <2> QED BY <2>1 DEF Creating
<1>3. ASSUME NEW p, NEW w \in Worker, call[w].op = "reply", call[w].id = p
      PROVE  /\ Has(Post(p)) => ThreadOf(p) # t
             /\ ~Has(PostIn(t, p))
  <2>1. ReplyOf(call[w]) /\ call[w].arg[1] # t
    BY <1>1, <1>3 DEF PostFacts, Request, ReplyCall
  <2> QED BY <1>3, <2>1 DEF ReplyOf
<1> QED BY <1>2, <1>3 DEF InReply

LEMMA PostsFinite ==
    ASSUME NEW t
    PROVE  IsFiniteSet(PostsOf(t)) /\ Cardinality(PostsOf(t)) \in Nat
<1>1. IsFiniteSet(Id) BY FS_Interval, TableConstants DEF Id
<1>2. PostsOf(t) \subseteq Id BY DEF PostsOf
<1> QED BY <1>1, <1>2, FS_Subset, FS_CardinalityType

LEMMA KnownIds ==
    ASSUME CommunityInv
    PROVE  /\ Known \subseteq Id /\ requests \in Nat /\ requests <= MaxRequests /\ MaxRequests \in Nat
<1>1. requests \in Nat /\ requests <= MaxRequests /\ MaxRequests \in Nat
  BY TableConstants DEF CommunityInv, CallsInv
<1> QED BY <1>1 DEF Known, Id

LEMMA RowsWhole == CommunityInv => TypeOK
<1> SUFFICES ASSUME CommunityInv PROVE TypeOK
  OBVIOUS
<1>1. /\ Known \subseteq Id /\ requests \in Nat /\ requests <= MaxRequests /\ MaxRequests \in Nat
  BY KnownIds
<1>2. ASSUME NEW t, Has(Thread(t))
      PROVE  items[Thread(t)] \in [text : {"new", "edited"}, replies : 0..MaxRequests + 1, views : Id,
                                   up : 0..Cardinality(User), down : 0..Cardinality(User)]
  <2>1. PICK row : row = items[Thread(t)] OBVIOUS
  <2>2. /\ ThreadRow(row) /\ row.views <= Cardinality(Viewed(t))
        /\ row.replies <= Cardinality(CountedIn(t))
    BY <1>2, <2>1 DEF CommunityInv, Threads, ThreadRows, Views, RepliesCounted
  <2>3. Cardinality(Viewed(t)) \in Nat /\ Cardinality(Viewed(t)) <= requests BY <1>1, GiverViewed
  <2>4. Cardinality(CountedIn(t)) \in Nat /\ Cardinality(CountedIn(t)) <= requests + 1
    BY <1>1, CountedFinite
  <2>5. row.views \in Nat /\ row.replies \in Nat BY <2>2 DEF ThreadRow
  <2>6. row.views \in Id BY <1>1, <2>2, <2>3, <2>5 DEF Id
  <2>7. row.replies \in 0..MaxRequests + 1 BY <1>1, <2>2, <2>4, <2>5
  <2> QED BY <2>1, <2>2, <2>6, <2>7 DEF ThreadRow
<1>3. ASSUME NEW p, NEW t, NEW key \in {Post(p), PostIn(t, p)} \cap DOMAIN items
      PROVE  items[key] \in [thread : Id, text : Id, up : 0..Cardinality(User),
                             down : 0..Cardinality(User)]
  <2>1. PostRow(items[key]) BY <1>3 DEF CommunityInv, Posts, OwnRows, CopyRows, Has
  <2> QED BY <1>1, <2>1 DEF PostRow
<1>4. ASSUME NEW a, Has(Addon(a))
      PROVE  items[Addon(a)] \in [author : User, kind : {"flashcard_pack", "course"},
                                  count : 0..MaxCards]
  <2>1. AddonRow(items[Addon(a)]) BY <1>4 DEF CommunityInv, Addons, AddonRows
  <2> QED BY <2>1 DEF AddonRow, Kinds
<1> QED BY <1>2, <1>3, <1>4 DEF TypeOK

LEMMA CountsHold == CommunityInv => CountsAreBacked
<1> SUFFICES ASSUME CommunityInv PROVE CountsAreBacked
  OBVIOUS
<1>1. /\ Known \subseteq Id /\ requests \in Nat BY KnownIds
<1>2. ASSUME NEW t, Has(Thread(t)), Settled(ThreadVotes(t))
      PROVE  VotesCounted(items[Thread(t)], ThreadVotes(t))
  BY <1>2 DEF CommunityInv, VotesInv, ThreadsCounted
<1>3. ASSUME NEW p, Has(Post(p)), Settled(PostVotes(p))
      PROVE  VotesCounted(items[Post(p)], PostVotes(p))
  BY <1>3 DEF CommunityInv, VotesInv, PostsCounted, BothCounted
<1>4. ASSUME NEW t, Has(Thread(t))
      PROVE  /\ items[Thread(t)].replies <= Cardinality(PostsOf(t))
             /\ AtRest(Replies(t)) /\ Replies(t) \notin torn =>
                   items[Thread(t)].replies = Cardinality(PostsOf(t))
  <2>1. PICK r : r = items[Thread(t)].replies OBVIOUS
  <2>2. /\ r \in Nat /\ r <= Cardinality(CountedIn(t))
        /\ Replies(t) \notin torn => r = Cardinality(CountedIn(t))
    BY <1>4, <2>1 DEF CommunityInv, Threads, ThreadRows, ThreadRow, RepliesCounted
  <2>3. CountedIn(t) \subseteq PostsOf(t) BY <1>1 DEF CountedIn, PostsOf, ThreadOf
  <2>4. IsFiniteSet(PostsOf(t)) /\ Cardinality(PostsOf(t)) \in Nat BY PostsFinite
  <2>5. Cardinality(CountedIn(t)) \in Nat BY <1>1, CountedFinite
  <2>6. Cardinality(CountedIn(t)) <= Cardinality(PostsOf(t)) BY <2>3, <2>4, FS_Subset
  <2>7. ASSUME AtRest(Replies(t)) PROVE CountedIn(t) = PostsOf(t)
    <3>1. PostsOf(t) \subseteq CountedIn(t)
      <4> SUFFICES ASSUME NEW p \in PostsOf(t) PROVE p \in CountedIn(t)
        OBVIOUS
      <4>1. Has(Post(p)) /\ ThreadOf(p) = t BY DEF PostsOf, ThreadOf
      <4>2. p \in Known BY <4>1 DEF CommunityInv, Posts, OwnRows
      <4>3. ~InReply(p) BY <2>7, <4>1, QuietThread
      <4> QED BY <4>1, <4>2, <4>3 DEF CountedIn
    <3> QED BY <2>3, <3>1
  <2>8. r <= Cardinality(PostsOf(t)) BY <2>2, <2>4, <2>5, <2>6
  <2> QED BY <2>1, <2>2, <2>7, <2>8
<1>5. ASSUME NEW a, Has(Addon(a)), Has(Markdown(a)), Settled(AddonDeck(a))
      PROVE  items[Addon(a)].count = items[Markdown(a)]
  BY <1>5 DEF CommunityInv, Addons, DecksCounted, CardsCounted
<1> QED BY <1>2, <1>3, <1>4, <1>5 DEF CountsAreBacked

LEMMA MirrorsHold == CommunityInv => MirrorsAgree
<1> SUFFICES ASSUME CommunityInv PROVE MirrorsAgree
  OBVIOUS
<1>1. ASSUME NEW p, Has(Post(p)), Has(PostIn(ThreadOf(p), p))
      PROVE  LET post == items[Post(p)]
                 copy == PostIn(ThreadOf(p), p)
             IN  /\ Settled(PostText(p)) => items[copy].text = post.text
                 /\ Settled(PostVotes(p)) => items[copy].up = post.up /\ items[copy].down = post.down
  <2>1. Settled(PostText(p)) => TextAgrees(p) BY <1>1 DEF CommunityInv, Texts, TextsAgree
  <2>2. Settled(PostVotes(p)) => BothCounted(p) BY <1>1 DEF CommunityInv, VotesInv, PostsCounted
  <2> QED BY <1>1, <2>1, <2>2 DEF TextAgrees, BothCounted, VotesCounted
<1>2. ASSUME NEW t, AtRest(Replies(t)), Replies(t) \notin torn
      PROVE  /\ BothOrNone(t)
             /\ \A p : Has(PostIn(t, p)) => Has(Post(p))
  <2>1. ~Creating(t) /\ \A p : Has(PostIn(t, p)) => ~InReply(p) BY <1>2, QuietThread
  <2> QED BY <1>2, <2>1 DEF CommunityInv, Links, CopyHasPost
<1> QED BY <1>1, <1>2 DEF MirrorsAgree, ThreadOf, BothOrNone

-----------------------------------------------------------------------------
(* The theorems.                                                           *)

LEMMA CommunityInvHolds == Spec => []CommunityInv
BY CommunityInvInit, CommunityInvStep, PTL DEF Spec

\* For every number of workers, requests and crashes, and for every finite set of users:
\* rows are whole, and their numbers in range.  No update leaves an item of nothing but
\* the attributes it set (_recompute_vote_counts, update_addon).
THEOREM CommunityTypes == Spec => []TypeOK
BY CommunityInvHolds, RowsWhole, PTL

\* The counters are what they count: the votes once a vote had its subject to itself
\* (_recompute_vote_counts), the replies never more than the posts and all of them once
\* the replies have ended (create_post), the cards of an addon once its deck was put
\* without another write between (put_addon_deck).
THEOREM CountsAreBackedHolds == Spec => []CountsAreBacked
BY CommunityInvHolds, CountsHold, PTL

\* What is kept twice agrees: a post and its copy, in the text and in the votes,
\* although an edit and a vote write the same two rows side by side (update_post,
\* _recompute_vote_counts); the tags and links of a thread, from both sides.
THEOREM MirrorsAgreeHolds == Spec => []MirrorsAgree
BY CommunityInvHolds, MirrorsHold, PTL
=============================================================================
