---------------------------- MODULE SocialGraph ----------------------------
(***************************************************************************)
(* Friends, friend requests, blocks, invites, threads and reactions.  Most *)
(* facts are kept twice, one item for each side, and an operation is a     *)
(* series of reads followed by a series of writes, none of them            *)
(* conditional.                                                            *)
(***************************************************************************)
EXTENDS Table

CONSTANTS
    User,
    Code,       \* invite codes
    MonthlyCap  \* DEFAULT_MONTHLY_CAP: the redemptions an inviter gets

ASSUME SocialConstants ==
    MonthlyCap \in Nat /\ IsFiniteSet(Worker) /\ Worker # {}

VARIABLE
    agreed  \* history: the pairs <<x, y>> where x has asked, or accepted, y

vars == <<tableVars, agreed>>

-----------------------------------------------------------------------------
(* Items.                                                                  *)

Friend(x, y) == <<"FRIEND", x, y>>
RequestIn(from, to) == <<"REQUEST_IN", to, from>>
RequestOut(from, to) == <<"REQUEST_OUT", from, to>>
Block(x, y) == <<"BLOCK", x, y>>
Reaction(x) == <<"REACTION", x>>
InviteOwner(o) == <<"INVITE_OWNER", o>>
Invite(c) == <<"INVITE", c>>
Redemption(c, x) == <<"REDEMPTION", c, x>>
Counted(o, x) == <<"INVITER", o, x>>
Thread(t) == <<"THREAD", t>>
Listed(x, t) == <<"USER_THREAD", x, t>>
Message(t, m) == <<"MESSAGE", t, m>>

\* The writes of the repository's methods.
AddFriendEdge(x, y) ==
    <<{Put(Friend(x, y), TRUE)}, {Put(Friend(y, x), TRUE)}>>

RemoveFriendEdge(x, y) ==
    <<{Delete(Friend(x, y))}, {Delete(Friend(y, x))}>>

\* Mutant: the receiver gets the sender's row.
UpsertSwapped(from, to) ==
    <<{Put(RequestIn(from, to), TRUE)}, {Put(RequestOut(to, from), TRUE)}>>

UpsertFriendRequest(from, to) ==
    <<{Put(RequestIn(from, to), TRUE)}, {Put(RequestOut(from, to), TRUE)}>>

\* Mutant: the sender's row stays.
DeleteIncoming(from, to) == <<{Delete(RequestIn(from, to))}>>

DeleteFriendRequest(from, to) ==
    <<{Delete(RequestIn(from, to))}, {Delete(RequestOut(from, to))}>>

BlockUser(x, y) == <<{Put(Block(x, y), TRUE)}>>

CreateInviteCode(o, c) == <<{Put(InviteOwner(o), c)}, {Put(Invite(c), o)}>>

UpsertRedemption(c, o, x) ==
    <<{Put(Redemption(c, x), TRUE)}, {Put(Counted(o, x), TRUE)}>>

\* Mutant: the thread is listed for the one who opens it.
ListForCaller(t, x, y) ==
    <<{Put(Thread(t), {x, y})}, {Put(Listed(x, t), {x, y})}>>

\* The two rows of the members are written in the order of their ids, which
\* is arbitrary.
PutThread(t, x, y) ==
    <<{Put(Thread(t), {x, y})},
      {Put(Listed(x, t), {x, y}), Put(Listed(y, t), {x, y})}>>

-----------------------------------------------------------------------------
(* Friends and blocks.  me acts, other is whom it is about.                *)

Me(w) == call[w].arg[1]
Other(w) == call[w].arg[2]

Pair(op, w, me, other, at) ==
    /\ me # other
    /\ Begin(w, op, {{me, other}}, <<me, other>>, at)

SendFriendRequest(w, me, other) ==
    Pair("send", w, me, other, "blocked") /\ UNCHANGED agreed

\* Blocked, either way; friends already.
SendStops(w, at, key, onward) ==
    /\ At(w, "send", at)
    /\ IF Has(key) THEN Answer(w) ELSE Goto(w, onward)
    /\ UNCHANGED agreed

\* Both asked, so both agree.
Befriend(me, other) ==
    AddFriendEdge(me, other) \o DeleteFriendRequest(other, me)
                             \o DeleteFriendRequest(me, other)

\* Mutant: the wrong direction is read.
SendMeetsOwn(w) ==
    /\ At(w, "send", "incoming")
    /\ IF Has(RequestIn(Me(w), Other(w)))
       THEN /\ Plan(w, Befriend(Me(w), Other(w)))
            /\ agreed' = agreed \cup {<<Me(w), Other(w)>>}
       ELSE Goto(w, "outgoing") /\ UNCHANGED agreed

\* The other side has asked: accepted at once.
SendMeets(w) ==
    /\ At(w, "send", "incoming")
    /\ IF Has(RequestIn(Other(w), Me(w)))
       THEN /\ Plan(w, Befriend(Me(w), Other(w)))
            /\ agreed' = agreed \cup {<<Me(w), Other(w)>>}
       ELSE Goto(w, "outgoing") /\ UNCHANGED agreed

SendUpserts(w) ==
    /\ At(w, "send", "outgoing")
    /\ IF Has(RequestIn(Me(w), Other(w)))
       THEN Answer(w) /\ UNCHANGED agreed
       ELSE /\ Plan(w, UpsertFriendRequest(Me(w), Other(w)))
            /\ agreed' = agreed \cup {<<Me(w), Other(w)>>}

\* By the user, or by an administrator for the user.
AcceptFriendRequest(w, me, requester) ==
    Pair("accept", w, me, requester, "incoming") /\ UNCHANGED agreed

Accept(w) ==
    /\ At(w, "accept", "incoming")
    /\ IF Has(RequestIn(Other(w), Me(w)))
       THEN /\ Plan(w, Befriend(Me(w), Other(w)))
            /\ agreed' = agreed \cup {<<Me(w), Other(w)>>}
       ELSE Answer(w) /\ UNCHANGED agreed

RemoveRequest(w, me, other) ==
    Pair("reject", w, me, other, "go") /\ UNCHANGED agreed

Unfriend(w, me, friend) ==
    Pair("unfriend", w, me, friend, "go") /\ UNCHANGED agreed

BlockRequest(w, me, other) ==
    Pair("block", w, me, other, "go") /\ UNCHANGED agreed

UnblockUser(w, me, other) ==
    Pair("unblock", w, me, other, "go") /\ UNCHANGED agreed

\* Mutant: only the requests of the one who blocks are removed.
SeverOneWay(me, other) ==
    RemoveFriendEdge(me, other) \o DeleteFriendRequest(me, other)

\* Blocking severs the friendship and any open requests.
Sever(me, other) ==
    RemoveFriendEdge(me, other) \o DeleteFriendRequest(me, other)
                                \o DeleteFriendRequest(other, me)

\* What these four write does not depend on what is there.
WriteBlindly(w) ==
    LET me == Me(w)
        other == Other(w)
    IN  /\ \/ /\ At(w, "reject", "go")
              /\ Plan(w, DeleteFriendRequest(me, other)
                           \o DeleteFriendRequest(other, me))
           \/ At(w, "unfriend", "go") /\ Plan(w, RemoveFriendEdge(me, other))
           \/ /\ At(w, "block", "go")
              /\ Plan(w, BlockUser(me, other) \o Sever(me, other))
           \/ At(w, "unblock", "go") /\ Plan(w, <<{Delete(Block(me, other))}>>)
        /\ UNCHANGED agreed

FriendsNext(w) ==
    \/ \E me, other \in User :
          \/ SendFriendRequest(w, me, other)
          \/ AcceptFriendRequest(w, me, other)
          \/ RemoveRequest(w, me, other)
          \/ Unfriend(w, me, other)
          \/ BlockRequest(w, me, other)
          \/ UnblockUser(w, me, other)
    \/ SendStops(w, "blocked", Block(Me(w), Other(w)), "blockedBy")
    \/ SendStops(w, "blockedBy", Block(Other(w), Me(w)), "friend")
    \/ SendStops(w, "friend", Friend(Me(w), Other(w)), "incoming")
    \/ SendMeets(w)
    \/ SendUpserts(w)
    \/ Accept(w)
    \/ WriteBlindly(w)

-----------------------------------------------------------------------------
(* Invites.                                                                *)

GetInviteOffer(w, o) == Begin(w, "offer", {{o}, User}, <<o>>, "owner")

OfferOwner(w) ==
    /\ At(w, "offer", "owner")
    /\ IF Has(InviteOwner(Me(w))) THEN Answer(w) ELSE Goto(w, "candidate")

\* Mutant: a code is taken whether or not it is in use.
OfferAnyCandidate(w) ==
    /\ At(w, "offer", "candidate")
    /\ \E c \in Code : Keep(w, c, "create")

\* A code that is in use is not taken; after eight of them the request fails.
OfferCandidate(w) ==
    /\ At(w, "offer", "candidate")
    /\ \E c \in Code : IF Has(Invite(c)) THEN Answer(w)
                                         ELSE Keep(w, c, "create")

\* create_invite_code looks for the owner's code once more.
OfferCreate(w) ==
    /\ At(w, "offer", "create")
    /\ IF Has(InviteOwner(Me(w))) THEN Answer(w)
       ELSE Plan(w, CreateInviteCode(Me(w), call[w].arg[2]))

\* The subject of every redemption is the empty set: they share a cap.
RedeemInvite(w, me, c) == Begin(w, "redeem", {{}}, <<me, c>>, "invite")

RedeemLookup(w) ==
    /\ At(w, "redeem", "invite")
    /\ IF Has(Invite(Other(w))) /\ items[Invite(Other(w))] # Me(w)
       THEN Keep(w, items[Invite(Other(w))], "known")
       ELSE Answer(w)

RedeemKnown(w) ==
    /\ At(w, "redeem", "known")
    /\ IF Has(Redemption(Other(w), Me(w))) THEN Answer(w) ELSE Goto(w, "count")

Inviter(w) == call[w].arg[3]

CountedFor(o) == {x \in User : Has(Counted(o, x))}

RedeemCounted(w) ==
    /\ At(w, "redeem", "count")
    /\ IF Cardinality(CountedFor(Inviter(w))) >= MonthlyCap
       THEN Answer(w)
       ELSE Plan(w, UpsertRedemption(Other(w), Inviter(w), Me(w)))

InvitesNext(w) ==
    /\ \/ \E o \in User : GetInviteOffer(w, o)
       \/ \E x \in User, c \in Code : RedeemInvite(w, x, c)
       \/ OfferOwner(w) \/ OfferCandidate(w) \/ OfferCreate(w)
       \/ RedeemLookup(w) \/ RedeemKnown(w) \/ RedeemCounted(w)
    /\ UNCHANGED agreed

-----------------------------------------------------------------------------
(* Threads and reactions.                                                  *)

OpenThread(w, me, other) == Pair("open", w, me, other, "list")

ThreadsOf(x) == {t \in 1..MaxRequests : Has(Listed(x, t))}

ThreadsWith(x, y) == {t \in ThreadsOf(x) : items[Listed(x, t)] = {x, y}}

OpenOrCreateThread(w) ==
    /\ At(w, "open", "list")
    /\ IF ThreadsWith(Me(w), Other(w)) # {}
       THEN Answer(w)
       ELSE Plan(w, PutThread(call[w].id, Me(w), Other(w)))

SendThreadMessage(w, me, t) == Begin(w, "message", {}, <<me, t>>, "thread")

\* Mutant: who is a member is not asked.
PutMessageByAnyone(w) ==
    LET t == Other(w)
    IN  /\ At(w, "message", "thread")
        /\ IF Has(Thread(t))
           THEN Plan(w, <<{Put(Message(t, call[w].id), Me(w))}>>)
           ELSE Answer(w)

PutMessage(w) ==
    LET t == Other(w)
    IN  /\ At(w, "message", "thread")
        /\ IF Has(Thread(t)) /\ Me(w) \in items[Thread(t)]
           THEN Plan(w, <<{Put(Message(t, call[w].id), Me(w))}>>)
           ELSE Answer(w)

ToggleActivityReaction(w, x) == Begin(w, "toggle", {{x}}, <<x>>, "read")

ToggleReaction(w) ==
    /\ At(w, "toggle", "read")
    /\ Plan(w, IF Has(Reaction(Me(w))) THEN <<{Delete(Reaction(Me(w)))}>>
               ELSE <<{Put(Reaction(Me(w)), TRUE)}>>)

ThreadsNext(w) ==
    /\ \/ \E me, other \in User : OpenThread(w, me, other)
       \/ \E x \in User, t \in 1..requests : SendThreadMessage(w, x, t)
       \/ \E x \in User : ToggleActivityReaction(w, x)
       \/ OpenOrCreateThread(w) \/ PutMessage(w) \/ ToggleReaction(w)
    /\ UNCHANGED agreed

-----------------------------------------------------------------------------

Init ==
    /\ TableInit(<<>>)
    /\ agreed = {}

Work(w) == (Write(w) \/ Crash(w)) /\ UNCHANGED agreed

Next ==
    \E w \in Worker : FriendsNext(w) \/ InvitesNext(w) \/ ThreadsNext(w) \/ Work(w)

Spec == Init /\ [][Next]_vars

-----------------------------------------------------------------------------
(* What the reads answer.                                                  *)

FriendshipStatus(me, other) ==
    CASE me = other -> "self"
      [] Has(Block(me, other)) -> "blocked"
      [] Has(Friend(me, other)) -> "friend"
      [] Has(RequestIn(me, other)) -> "request_out"
      [] Has(RequestIn(other, me)) -> "request_in"
      [] OTHER -> "none"

ListFriends(me) == {x \in User : Has(Friend(me, x))}
ListBlocks(me) == {x \in User : Has(Block(me, x))}

\* Incoming, outgoing.
ListFriendRequests(me) ==
    <<{x \in User : Has(RequestIn(x, me))}, {x \in User : Has(RequestOut(me, x))}>>

\* Whose attempts I am shown.
ListActivity(me) == ListFriends(me) \cup {me}

\* With whom I have threads.
ListThreads(me) == {items[Listed(me, t)] \ {me} : t \in ThreadsOf(me)}

\* The senders of the messages of a thread, for its members.
GetThreadDetail(me, t) ==
    IF Has(Thread(t)) /\ me \in items[Thread(t)]
    THEN {items[Message(t, m)] : m \in {n \in 1..MaxRequests : Has(Message(t, n))}}
    ELSE {}

\* The users suggested to me, of those who share my language.  They are picked
\* by my own rows: my friends, both lists of requests, my blocks.
ListFriendSuggestions(me) ==
    LET asked == ListFriendRequests(me)
    IN  {x \in User \ ({me} \cup ListFriends(me) \cup asked[1] \cup asked[2]) :
            ~Has(Block(me, x)) /\ ~Has(Block(x, me))}

-----------------------------------------------------------------------------
(* Properties.                                                             *)

\* An item holds what its key says: a thread has two members and is listed for
\* members only, a message is by a member, a code names its owner.
TypeOK ==
    /\ \A w \in Worker : call[w].on \subseteq SUBSET User
    /\ \A x \in User, t \in 1..MaxRequests :
          Has(Listed(x, t)) => /\ Has(Thread(t))
                               /\ x \in items[Thread(t)]
                               /\ Cardinality(items[Thread(t)]) = 2
    /\ \A t, m \in 1..MaxRequests :
          Has(Message(t, m)) => Has(Thread(t)) /\ items[Message(t, m)] \in items[Thread(t)]
    /\ \A c \in Code : Has(Invite(c)) => items[Invite(c)] \in User
    /\ \A o \in User : Has(InviteOwner(o)) => items[InviteOwner(o)] \in Code

\* Friends are two users who have both said so, whatever overlaps: no
\* interleaving of sends, accepts, removals and blocks makes a friendship of
\* one request (send_friend_request, accept_friend_request).
EdgesWereAgreed ==
    \A x \in User : \A y \in ListFriends(x) :
        <<x, y>> \in agreed /\ <<y, x>> \in agreed

\* Blocking severs the friendship and any open request, and neither can come
\* back while the block stands (block_user, send_friend_request): neither user is
\* shown the other, unless two requests about the pair overlapped, or one ended
\* in the middle.
BlockSevers ==
    \A x \in User : \A y \in ListBlocks(x) :
        AtRest({x, y}) /\ Orderly({x, y}) =>
            /\ x \notin ListActivity(y) /\ y \notin ListActivity(x)
            /\ \A way \in 1..2 :
                  x \notin ListFriendRequests(y)[way] /\ y \notin ListFriendRequests(x)[way]

\* The suggestions are picked by other rows than the status of a friendship is:
\* they agree, as the rows of the two sides do (list_friend_suggestions,
\* _friendship_status), unless requests overlapped or ended in the middle.
SuggestedAreStrangers ==
    \A x \in User :
        LET suggested == ListFriendSuggestions(x)
        IN  \A y \in User \ {x} :
               AtRest({x, y}) /\ Orderly({x, y}) =>
                  (y \in suggested
                     <=> FriendshipStatus(x, y) = "none" /\ ~Has(Block(y, x)))

RedeemedOf(o) == {x \in User : \E c \in Code :
                     Has(Redemption(c, x)) /\ Has(Invite(c)) /\ items[Invite(c)] = o}

\* The cap is compared with a count that was read before.  One at a time, no
\* inviter gets more than the cap; otherwise the cap is exceeded by no more
\* than the redemptions that ran at once (redeem_invite, upsert_redemption).
\* And the code a user is offered leads back to the user
\* (_resolve_or_create_invite): unless the offer ended between its two rows, or
\* two owners were given the same code at once.
InvitesHold ==
    \A o \in User :
        /\ Cardinality(CountedFor(o)) <= MonthlyCap + Cardinality(Worker) - 1
        /\ Orderly({}) /\ User \notin shared => Cardinality(RedeemedOf(o)) <= MonthlyCap
        /\ Has(InviteOwner(o)) /\ AtRest({o}) /\ {o} \notin torn /\ User \notin shared =>
              LET c == items[InviteOwner(o)]
              IN  Has(Invite(c)) /\ items[Invite(c)] = o

\* Two users have one thread, and both see it and what both have written
\* (open_or_create_thread_with, list_threads, get_thread_detail): unless they
\* opened it at the same time, or an opening ended in the middle.
OneThread ==
    \A x, y \in User :
        x # y /\ AtRest({x, y}) /\ Orderly({x, y}) =>
            /\ Cardinality(ThreadsWith(x, y)) <= 1
            /\ {y} \in ListThreads(x) <=> {x} \in ListThreads(y)
            /\ \A t \in ThreadsWith(x, y) :
                  GetThreadDetail(x, t) = GetThreadDetail(y, t)

=============================================================================
