------------------------- MODULE SocialGraphProofs -------------------------
(***************************************************************************)
(* Friends, blocks, threads and invites: the properties of SocialGraph for *)
(* any number of users, codes, workers, requests and crashes.              *)
(*                                                                         *)
(* The first part is about the steps: what a plan writes, in which form    *)
(* every action changes the calls and the items, and that the calls keep   *)
(* that form.  An invariant is then preserved if six kinds of step         *)
(* preserve it, whatever the order of a plan's writes is.  The second part *)
(* has one section for each property.  The third is about SocialStores.    *)
(***************************************************************************)
EXTENDS SocialGraph, SocialStores, TableProofs, FiniteSetTheorems, FunctionTheorems

-----------------------------------------------------------------------------
(* The steps of a request.                                                 *)

PairOps == {"send", "accept", "reject", "unfriend", "block", "unblock"}

\* The writes a request may plan.
PairWrites(x, y) ==
    {Put(Friend(x, y), TRUE), Put(Friend(y, x), TRUE),
     Delete(Friend(x, y)), Delete(Friend(y, x)),
     Put(RequestIn(x, y), TRUE), Put(RequestOut(x, y), TRUE),
     Delete(RequestIn(x, y)), Delete(RequestIn(y, x)),
     Delete(RequestOut(x, y)), Delete(RequestOut(y, x)),
     Put(Block(x, y), TRUE), Delete(Block(x, y))}

ThreadWrites(t, x, y) ==
    {Put(Thread(t), {x, y}), Put(Listed(x, t), {x, y}), Put(Listed(y, t), {x, y})}

RedeemWrites(c, o, x) == {Put(Redemption(c, x), TRUE), Put(Counted(o, x), TRUE)}

ToggleWrites(x) == {Put(Reaction(x), TRUE), Delete(Reaction(x))}

\* The subjects, arguments and plan of a request.
PairCall(k) ==
    /\ k.arg[1] \in User /\ k.arg[2] \in User /\ k.arg[1] # k.arg[2]
    /\ k.on = {{k.arg[1], k.arg[2]}}
    /\ k.op \in PairOps => Planned(k.todo) \subseteq PairWrites(k.arg[1], k.arg[2])
    /\ k.op = "open" => Planned(k.todo) \subseteq ThreadWrites(k.id, k.arg[1], k.arg[2])

OfferCall(k) ==
    /\ k.arg[1] \in User
    /\ k.on = {{k.arg[1]}, User}
    /\ k.at \in {"owner", "candidate"} => k.arg = <<k.arg[1]>>
    /\ k.at \in {"create", "done"} => k.arg[2] \in Code
    /\ Planned(k.todo) \subseteq {Put(InviteOwner(k.arg[1]), k.arg[2]),
                                  Put(Invite(k.arg[2]), k.arg[1])}

RedeemCall(k) ==
    /\ k.arg[1] \in User /\ k.arg[2] \in Code
    /\ k.on = {{}}
    /\ k.at = "invite" => k.arg = <<k.arg[1], k.arg[2]>>
    /\ k.at # "invite" => k.arg[3] \in User
    /\ Planned(k.todo) \subseteq RedeemWrites(k.arg[2], k.arg[3], k.arg[1])

MessageCall(k) ==
    /\ k.arg[1] \in User /\ k.arg[2] \in 1..requests
    /\ k.on = {}
    /\ Planned(k.todo) \subseteq {Put(Message(k.arg[2], k.id), k.arg[1])}

ToggleCall(k) ==
    /\ k.arg[1] \in User
    /\ k.on = {{k.arg[1]}}
    /\ Planned(k.todo) \subseteq ToggleWrites(k.arg[1])

GoodCall(k) ==
    /\ k.op \in PairOps \cup {"open"} => PairCall(k)
    /\ k.op = "offer" => OfferCall(k)
    /\ k.op = "redeem" => RedeemCall(k)
    /\ k.op = "message" => MessageCall(k)
    /\ k.op = "toggle" => ToggleCall(k)
    /\ k.op \in PairOps \cup {"open", "offer", "redeem", "message", "toggle", "idle"}
    /\ k.todo # <<>> => k.at = "done" /\ k.op # "idle"
    /\ k.op # "idle" => k.id \in 1..requests
    /\ Distinct(k.todo)

\* The requests, and the values their reads depend on.
Requests ==
    /\ CallsOK
    /\ \A w \in Worker : GoodCall(call[w])
    /\ \A v, w \in Worker : call[v].op # "idle" /\ call[v].id = call[w].id => v = w
    /\ requests \in 0..MaxRequests
    /\ \A c \in Code : Has(Invite(c)) => items[Invite(c)] \in User

-----------------------------------------------------------------------------
(* The plans.                                                              *)

LEMMA TwoSteps ==
    ASSUME NEW S, NEW T
    PROVE  /\ Sequence(<<S, T>>) /\ Planned(<<S, T>>) = S \cup T
           /\ Head(<<S, T>>) = S /\ <<S, T>> # <<>>
           /\ (/\ \A x, y \in S : x.key = y.key => x = y
               /\ \A x, y \in T : x.key = y.key => x = y
               /\ \A x \in S, y \in T : x.key # y.key)
              => Distinct(<<S, T>>)
<1>1. <<S, T>> \in Seq({S, T}) /\ DOMAIN <<S, T>> = {1, 2}
      /\ <<S, T>>[1] = S /\ <<S, T>>[2] = T
  OBVIOUS
<1>2. Sequence(<<S, T>>) BY <1>1, SequenceOf
<1> QED BY <1>1, <1>2 DEF Planned, Distinct

LEMMA OneStep ==
    ASSUME NEW z
    PROVE  /\ Sequence(<<{z}>>) /\ Planned(<<{z}>>) = {z} /\ <<{z}>> # <<>>
           /\ Head(<<{z}>>) = {z} /\ Distinct(<<{z}>>)
<1>1. DOMAIN <<{z}>> = {1} /\ <<{z}>>[1] = {z} OBVIOUS
<1> QED BY <1>1, OneSet DEF Distinct

\* Two writes, one after the other.
LEMMA TwoWrites ==
    ASSUME NEW x, NEW y, x.key # y.key
    PROVE  /\ Sequence(<<{x}, {y}>>) /\ Planned(<<{x}, {y}>>) = {x, y}
           /\ <<{x}, {y}>> # <<>> /\ Head(<<{x}, {y}>>) = {x} /\ Distinct(<<{x}, {y}>>)
BY TwoSteps

LEMMA FriendPlans ==
    ASSUME NEW x \in User, NEW y \in User, x # y
    PROVE  /\ Sequence(AddFriendEdge(x, y)) /\ Distinct(AddFriendEdge(x, y))
           /\ Planned(AddFriendEdge(x, y)) = {Put(Friend(x, y), TRUE), Put(Friend(y, x), TRUE)}
           /\ Sequence(RemoveFriendEdge(x, y)) /\ Distinct(RemoveFriendEdge(x, y))
           /\ Planned(RemoveFriendEdge(x, y)) = {Delete(Friend(x, y)), Delete(Friend(y, x))}
           /\ Sequence(UpsertFriendRequest(x, y)) /\ Distinct(UpsertFriendRequest(x, y))
           /\ Planned(UpsertFriendRequest(x, y))
                 = {Put(RequestIn(x, y), TRUE), Put(RequestOut(x, y), TRUE)}
           /\ Sequence(DeleteFriendRequest(x, y)) /\ Distinct(DeleteFriendRequest(x, y))
           /\ Planned(DeleteFriendRequest(x, y))
                 = {Delete(RequestIn(x, y)), Delete(RequestOut(x, y))}
<1>1. Put(Friend(x, y), TRUE).key # Put(Friend(y, x), TRUE).key
      /\ Delete(Friend(x, y)).key # Delete(Friend(y, x)).key
  BY DEF Put, Delete, Friend
<1>2. Put(RequestIn(x, y), TRUE).key # Put(RequestOut(x, y), TRUE).key
      /\ Delete(RequestIn(x, y)).key # Delete(RequestOut(x, y)).key
  BY DEF Put, Delete, RequestIn, RequestOut
<1> QED
  BY <1>1, <1>2, TwoWrites
     DEF AddFriendEdge, RemoveFriendEdge, UpsertFriendRequest, DeleteFriendRequest

\* What a plan of friends and requests writes: puts and deletions, each key once.
LEMMA BefriendPlan ==
    ASSUME NEW x \in User, NEW y \in User, x # y
    PROVE  /\ Sequence(Befriend(x, y)) /\ Distinct(Befriend(x, y)) /\ Befriend(x, y) # <<>>
           /\ Planned(Befriend(x, y)) =
                 {Put(Friend(x, y), TRUE), Put(Friend(y, x), TRUE),
                  Delete(RequestIn(y, x)), Delete(RequestOut(y, x)),
                  Delete(RequestIn(x, y)), Delete(RequestOut(x, y))}
<1> DEFINE a == AddFriendEdge(x, y)
           b == DeleteFriendRequest(y, x)
           c == DeleteFriendRequest(x, y)
<1>1. /\ Sequence(a) /\ Distinct(a)
      /\ Planned(a) = {Put(Friend(x, y), TRUE), Put(Friend(y, x), TRUE)}
  BY FriendPlans
<1>2. a # <<>> BY DEF AddFriendEdge
<1>3. /\ Sequence(b) /\ Distinct(b)
      /\ Planned(b) = {Delete(RequestIn(y, x)), Delete(RequestOut(y, x))}
  BY FriendPlans
<1>4. /\ Sequence(c) /\ Distinct(c)
      /\ Planned(c) = {Delete(RequestIn(x, y)), Delete(RequestOut(x, y))}
  BY FriendPlans
<1> HIDE DEF a, b, c
<1>5. \A p \in Planned(a), q \in Planned(b) : p.key # q.key
  BY <1>1, <1>3 DEF Put, Delete, Friend, RequestIn, RequestOut
<1>6. /\ Sequence(a \o b) /\ Distinct(a \o b) /\ a \o b # <<>>
      /\ Planned(a \o b) = Planned(a) \cup Planned(b)
  BY <1>1, <1>2, <1>3, <1>5, Concat
<1>7. \A p \in Planned(a \o b), q \in Planned(c) : p.key # q.key
  BY <1>1, <1>3, <1>4, <1>6 DEF Put, Delete, Friend, RequestIn, RequestOut
<1>8. /\ Sequence((a \o b) \o c) /\ Distinct((a \o b) \o c) /\ (a \o b) \o c # <<>>
      /\ Planned((a \o b) \o c) = Planned(a \o b) \cup Planned(c)
  BY <1>4, <1>6, <1>7, Concat
<1>9. Befriend(x, y) = (a \o b) \o c BY DEF Befriend, a, b, c
<1> HIDE DEF Befriend
<1> QED BY <1>1, <1>3, <1>4, <1>6, <1>8, <1>9

LEMMA RejectPlan ==
    ASSUME NEW x \in User, NEW y \in User, x # y
    PROVE  LET todo == DeleteFriendRequest(x, y) \o DeleteFriendRequest(y, x)
           IN  /\ Sequence(todo) /\ Distinct(todo) /\ todo # <<>>
               /\ Planned(todo) =
                     {Delete(RequestIn(y, x)), Delete(RequestOut(y, x)),
                      Delete(RequestIn(x, y)), Delete(RequestOut(x, y))}
<1> DEFINE b == DeleteFriendRequest(y, x)
           c == DeleteFriendRequest(x, y)
<1>1. /\ Sequence(b) /\ Distinct(b)
      /\ Planned(b) = {Delete(RequestIn(y, x)), Delete(RequestOut(y, x))}
  BY FriendPlans
<1>2. /\ Sequence(c) /\ Distinct(c)
      /\ Planned(c) = {Delete(RequestIn(x, y)), Delete(RequestOut(x, y))}
  BY FriendPlans
<1>3. c # <<>> BY DEF DeleteFriendRequest
<1> HIDE DEF b, c
<1>4. \A p \in Planned(c), q \in Planned(b) : p.key # q.key
  BY <1>1, <1>2 DEF Delete, RequestIn, RequestOut
<1> QED BY <1>1, <1>2, <1>3, <1>4, Concat DEF b, c

LEMMA BlockPlan ==
    ASSUME NEW x \in User, NEW y \in User, x # y
    PROVE  LET todo == BlockUser(x, y) \o Sever(x, y)
           IN  /\ Sequence(todo) /\ Distinct(todo) /\ todo # <<>>
               /\ Planned(todo) =
                     {Put(Block(x, y), TRUE),
                      Delete(Friend(x, y)), Delete(Friend(y, x)),
                      Delete(RequestIn(x, y)), Delete(RequestOut(x, y)),
                      Delete(RequestIn(y, x)), Delete(RequestOut(y, x))}
<1> DEFINE a == RemoveFriendEdge(x, y)
           b == DeleteFriendRequest(x, y)
           c == DeleteFriendRequest(y, x)
           d == BlockUser(x, y)
<1>1. /\ Sequence(a) /\ Distinct(a)
      /\ Planned(a) = {Delete(Friend(x, y)), Delete(Friend(y, x))}
  BY FriendPlans
<1>2. /\ Sequence(b) /\ Distinct(b)
      /\ Planned(b) = {Delete(RequestIn(x, y)), Delete(RequestOut(x, y))}
  BY FriendPlans
<1>3. /\ Sequence(c) /\ Distinct(c)
      /\ Planned(c) = {Delete(RequestIn(y, x)), Delete(RequestOut(y, x))}
  BY FriendPlans
<1>4. Sequence(d) /\ Distinct(d) /\ d # <<>> /\ Planned(d) = {Put(Block(x, y), TRUE)}
  BY OneStep DEF BlockUser
<1> HIDE DEF a, b, c, d
<1>5. \A p \in Planned(a), q \in Planned(b) : p.key # q.key
  BY <1>1, <1>2 DEF Delete, Friend, RequestIn, RequestOut
<1>6. /\ Sequence(a \o b) /\ Distinct(a \o b)
      /\ Planned(a \o b) = Planned(a) \cup Planned(b)
  BY <1>1, <1>2, <1>5, Concat
<1>7. \A p \in Planned(a \o b), q \in Planned(c) : p.key # q.key
  BY <1>1, <1>2, <1>3, <1>6 DEF Delete, Friend, RequestIn, RequestOut
<1>8. /\ Sequence((a \o b) \o c) /\ Distinct((a \o b) \o c)
      /\ Planned((a \o b) \o c) = Planned(a \o b) \cup Planned(c)
  BY <1>3, <1>6, <1>7, Concat
<1> DEFINE e == (a \o b) \o c
<1>9. Sever(x, y) = e BY DEF Sever, a, b, c
<1> HIDE DEF Sever, e
<1>10. \A p \in Planned(d), q \in Planned(e) : p.key # q.key
  BY <1>1, <1>2, <1>3, <1>4, <1>6, <1>8
     DEF e, Put, Delete, Friend, RequestIn, RequestOut, Block
<1>11. /\ Sequence(d \o e) /\ Distinct(d \o e) /\ d \o e # <<>>
       /\ Planned(d \o e) = Planned(d) \cup Planned(e)
  BY <1>4, <1>8, <1>10, Concat DEF e
<1>12. Planned(e) = (Planned(a) \cup Planned(b)) \cup Planned(c)
  BY <1>6, <1>8 DEF e
<1>13. Planned(d \o e) =
          {Put(Block(x, y), TRUE),
           Delete(Friend(x, y)), Delete(Friend(y, x)),
           Delete(RequestIn(x, y)), Delete(RequestOut(x, y)),
           Delete(RequestIn(y, x)), Delete(RequestOut(y, x))}
  BY <1>1, <1>2, <1>3, <1>4, <1>11, <1>12
<1> QED BY <1>9, <1>11, <1>13 DEF d

LEMMA ThreadPlan ==
    ASSUME NEW t, NEW x \in User, NEW y \in User, x # y
    PROVE  LET todo == PutThread(t, x, y)
           IN  /\ Sequence(todo) /\ Distinct(todo) /\ todo # <<>>
               /\ Head(todo) = {Put(Thread(t), {x, y})}
               /\ Planned(todo) = ThreadWrites(t, x, y)
<1> DEFINE S == {Put(Thread(t), {x, y})}
           T == {Put(Listed(x, t), {x, y}), Put(Listed(y, t), {x, y})}
<1>1. /\ \A p, q \in S : p.key = q.key => p = q
      /\ \A p, q \in T : p.key = q.key => p = q
      /\ \A p \in S, q \in T : p.key # q.key
  BY DEF Put, Thread, Listed
<1>2. S \cup T = ThreadWrites(t, x, y) BY DEF ThreadWrites
<1> HIDE DEF S, T
<1>3. /\ Sequence(<<S, T>>) /\ Distinct(<<S, T>>) /\ <<S, T>> # <<>>
      /\ Head(<<S, T>>) = S /\ Planned(<<S, T>>) = S \cup T
  BY <1>1, TwoSteps
<1> QED BY <1>2, <1>3 DEF PutThread, S, T

LEMMA InvitePlans ==
    ASSUME NEW c, NEW o, NEW x
    PROVE  /\ LET todo == CreateInviteCode(o, c)
              IN  /\ Sequence(todo) /\ Distinct(todo) /\ todo # <<>>
                  /\ Planned(todo) = {Put(InviteOwner(o), c), Put(Invite(c), o)}
           /\ LET todo == UpsertRedemption(c, o, x)
              IN  /\ Sequence(todo) /\ Distinct(todo) /\ todo # <<>>
                  /\ Head(todo) = {Put(Redemption(c, x), TRUE)}
                  /\ Planned(todo) = RedeemWrites(c, o, x)
<1>1. Put(InviteOwner(o), c).key # Put(Invite(c), o).key BY DEF Put, InviteOwner, Invite
<1>2. Put(Redemption(c, x), TRUE).key # Put(Counted(o, x), TRUE).key
  BY DEF Put, Redemption, Counted
<1> QED BY <1>1, <1>2, TwoWrites DEF CreateInviteCode, UpsertRedemption, RedeemWrites

-----------------------------------------------------------------------------
(* The requests stay good.                                                 *)

LEMMA GoodIdle == GoodCall(Idle) /\ GoodCall(Idle)'
BY NoPlan DEF GoodCall, Idle, PairOps

LEMMA GoodSame ==
    ASSUME NEW w \in Worker, NEW k, call'[w] = k, requests' = requests, GoodCall(k)
    PROVE  GoodCall(call[w])'
<1>1. PairCall(k) => PairCall(call[w])' BY DEF PairCall
<1>2. OfferCall(k) => OfferCall(call[w])' BY DEF OfferCall
<1>3. RedeemCall(k) => RedeemCall(call[w])' BY DEF RedeemCall
<1>4. MessageCall(k) => MessageCall(call[w])' BY DEF MessageCall
<1>5. ToggleCall(k) => ToggleCall(call[w])' BY DEF ToggleCall
<1> QED BY <1>1, <1>2, <1>3, <1>4, <1>5 DEF GoodCall

\* A step of w that leaves a good call.
LEMMA RequestsKept ==
    ASSUME Requests, NEW w \in Worker, CallsOK',
           \A v \in Worker \ {w} : call'[v] = call[v],
           GoodCall(call[w])',
           \/ call'[w].op = "idle" /\ call'[w].id = 0 /\ requests' = requests
           \/ call[w].op # "idle" /\ call'[w].id = call[w].id /\ requests' = requests
           \/ call'[w].id = requests + 1 /\ requests' = requests + 1 /\ requests < MaxRequests,
           \A c \in Code : Has(Invite(c))' => items'[Invite(c)] \in User
    PROVE  Requests'
<1>1. requests \in Nat /\ requests' \in requests..MaxRequests BY TableConstants DEF Requests
<1>2. \A v \in Worker : GoodCall(call[v])'
  <2> SUFFICES ASSUME NEW v \in Worker \ {w} PROVE GoodCall(call[v])'
    OBVIOUS
  <2>1. GoodCall(call[v]) /\ call'[v] = call[v] BY DEF Requests
  <2>2. PairCall(call[v]) => PairCall(call[v])' BY <2>1 DEF PairCall
  <2>3. OfferCall(call[v]) => OfferCall(call[v])' BY <2>1 DEF OfferCall
  <2>4. RedeemCall(call[v]) => RedeemCall(call[v])' BY <2>1 DEF RedeemCall
  <2>5. MessageCall(call[v]) => MessageCall(call[v])' BY <1>1, <2>1 DEF MessageCall
  <2>6. ToggleCall(call[v]) => ToggleCall(call[v])' BY <2>1 DEF ToggleCall
  <2> QED BY <1>1, <2>1, <2>2, <2>3, <2>4, <2>5, <2>6 DEF GoodCall
<1>3. \A v \in Worker : call[v].op # "idle" => call[v].id \in 1..requests
  BY DEF Requests, GoodCall
<1>4. \A u, v \in Worker : call'[u].op # "idle" /\ call'[u].id = call'[v].id => u = v
  <2> SUFFICES ASSUME NEW u \in Worker, NEW v \in Worker, u # v,
                      call'[u].op # "idle", call'[u].id = call'[v].id
               PROVE  FALSE
    OBVIOUS
  <2>1. \A z \in Worker : call[z].op = "idle" => call[z].id = 0
    BY IdleCall DEF Requests, CallsOK
  <2>2. CASE u # w /\ v # w BY <2>2 DEF Requests
  <2>3. CASE u = w
    BY <2>3, <2>1, <1>1, <1>3 DEF Requests
  <2>4. CASE v = w
    BY <2>4, <2>1, <1>1, <1>3 DEF Requests
  <2> QED BY <2>2, <2>3, <2>4
<1> QED BY <1>1, <1>2, <1>4 DEF Requests

LEMMA BeginsGood ==
    ASSUME Requests, NEW w \in Worker, NEW op, NEW on, NEW arg, NEW at,
           op # "idle", Begin(w, op, on, arg, at), GoodCall(call[w])'
    PROVE  Requests'
<1> DEFINE k == [op |-> op, at |-> at, id |-> requests + 1, on |-> on, arg |-> arg,
                 todo |-> <<>>]
<1>a. CallsOK BY DEF Requests
<1>b. /\ CallsOK' /\ \A v \in Worker \ {w} : call'[v] = call[v]
      /\ call'[w] = k /\ requests' = requests + 1
      /\ requests < MaxRequests /\ items' = items
  BY <1>a, BeginFacts
<1>1. /\ CallsOK' /\ \A v \in Worker \ {w} : call'[v] = call[v]
      /\ call'[w].id = requests + 1 /\ requests' = requests + 1
      /\ requests < MaxRequests /\ items' = items
  BY <1>b
<1>2. \A c \in Code : Has(Invite(c))' => items'[Invite(c)] \in User
  BY <1>1 DEF Requests, Has
<1> QED BY <1>1, <1>2, RequestsKept

LEMMA PairBegins ==
    ASSUME Requests, NEW w \in Worker, NEW op \in PairOps \cup {"open"},
           NEW me \in User, NEW other \in User, NEW at, Pair(op, w, me, other, at)
    PROVE  Requests'
<1>1. op # "idle" /\ me # other /\ Begin(w, op, {{me, other}}, <<me, other>>, at)
  BY DEF Pair, PairOps
<1>2. /\ call'[w] = [op |-> op, at |-> at, id |-> requests + 1, on |-> {{me, other}},
                     arg |-> <<me, other>>, todo |-> <<>>]
      /\ requests' = requests + 1
  BY <1>1, BeginFacts DEF Requests
<1>3. PairCall(call[w])' BY <1>1, <1>2, NoPlan DEF PairCall
<1>4. requests \in Nat BY TableConstants DEF Requests
<1>5. GoodCall(call[w])' BY <1>1, <1>2, <1>3, <1>4, NoPlan DEF GoodCall, PairOps
<1> QED BY <1>1, <1>5, BeginsGood

LEMMA OfferBegins ==
    ASSUME Requests, NEW w \in Worker, NEW o \in User, GetInviteOffer(w, o)
    PROVE  Requests'
<1>1. Begin(w, "offer", {{o}, User}, <<o>>, "owner") BY DEF GetInviteOffer
<1>2. /\ call'[w] = [op |-> "offer", at |-> "owner", id |-> requests + 1,
                     on |-> {{o}, User}, arg |-> <<o>>, todo |-> <<>>]
      /\ requests' = requests + 1
  BY <1>1, BeginFacts DEF Requests
<1>3. OfferCall(call[w])' BY <1>2, NoPlan DEF OfferCall
<1>4. requests \in Nat BY TableConstants DEF Requests
<1>5. GoodCall(call[w])' BY <1>2, <1>3, <1>4, NoPlan DEF GoodCall, PairOps
<1> QED BY <1>1, <1>5, BeginsGood

LEMMA RedeemBegins ==
    ASSUME Requests, NEW w \in Worker, NEW x \in User, NEW c \in Code, RedeemInvite(w, x, c)
    PROVE  Requests'
<1>1. Begin(w, "redeem", {{}}, <<x, c>>, "invite") BY DEF RedeemInvite
<1>2. /\ call'[w] = [op |-> "redeem", at |-> "invite", id |-> requests + 1,
                     on |-> {{}}, arg |-> <<x, c>>, todo |-> <<>>]
      /\ requests' = requests + 1
  BY <1>1, BeginFacts DEF Requests
<1>3. RedeemCall(call[w])' BY <1>2, NoPlan DEF RedeemCall
<1>4. requests \in Nat BY TableConstants DEF Requests
<1>5. GoodCall(call[w])' BY <1>2, <1>3, <1>4, NoPlan DEF GoodCall, PairOps
<1> QED BY <1>1, <1>5, BeginsGood

LEMMA MessageBegins ==
    ASSUME Requests, NEW w \in Worker, NEW x \in User, NEW t \in 1..requests,
           SendThreadMessage(w, x, t)
    PROVE  Requests'
<1>1. Begin(w, "message", {}, <<x, t>>, "thread") BY DEF SendThreadMessage
<1>2. /\ call'[w] = [op |-> "message", at |-> "thread", id |-> requests + 1,
                     on |-> {}, arg |-> <<x, t>>, todo |-> <<>>]
      /\ requests' = requests + 1
  BY <1>1, BeginFacts DEF Requests
<1>4. requests \in Nat BY TableConstants DEF Requests
<1>3. MessageCall(call[w])' BY <1>2, <1>4, NoPlan DEF MessageCall
<1>5. GoodCall(call[w])' BY <1>2, <1>3, <1>4, NoPlan DEF GoodCall, PairOps
<1> QED BY <1>1, <1>5, BeginsGood

LEMMA ToggleBegins ==
    ASSUME Requests, NEW w \in Worker, NEW x \in User, ToggleActivityReaction(w, x)
    PROVE  Requests'
<1>1. Begin(w, "toggle", {{x}}, <<x>>, "read") BY DEF ToggleActivityReaction
<1>2. /\ call'[w] = [op |-> "toggle", at |-> "read", id |-> requests + 1,
                     on |-> {{x}}, arg |-> <<x>>, todo |-> <<>>]
      /\ requests' = requests + 1
  BY <1>1, BeginFacts DEF Requests
<1>3. ToggleCall(call[w])' BY <1>2, NoPlan DEF ToggleCall
<1>4. requests \in Nat BY TableConstants DEF Requests
<1>5. GoodCall(call[w])' BY <1>2, <1>3, <1>4, NoPlan DEF GoodCall, PairOps
<1> QED BY <1>1, <1>5, BeginsGood

\* A request that goes on, as long as the arguments of its phase stay good.
LEMMA GotoGood ==
    ASSUME Requests, NEW w \in Worker, NEW at, at # "done", call[w].op # "idle",
           call[w].op = "offer" => call[w].at = "owner" /\ at = "candidate",
           call[w].op = "redeem" => call[w].at # "invite" /\ at # "invite",
           Goto(w, at)
    PROVE  Requests'
<1>1. /\ CallsOK' /\ call'[w] = With(call[w], <<>>, at) /\ requests' = requests
      /\ \A v \in Worker \ {w} : call'[v] = call[v] /\ items' = items
  BY GotoFacts DEF Requests
<1>2. GoodCall(call[w]) BY DEF Requests
<1>3. PairCall(call[w]) => PairCall(call[w])' BY <1>1, NoPlan DEF PairCall, With
<1>4. OfferCall(call[w]) /\ call[w].op = "offer" => OfferCall(call[w])'
  BY <1>1, NoPlan DEF OfferCall, With
<1>5. RedeemCall(call[w]) /\ call[w].op = "redeem" => RedeemCall(call[w])'
  BY <1>1, NoPlan DEF RedeemCall, With
<1>6. MessageCall(call[w]) => MessageCall(call[w])' BY <1>1, NoPlan DEF MessageCall, With
<1>7. ToggleCall(call[w]) => ToggleCall(call[w])' BY <1>1, NoPlan DEF ToggleCall, With
<1>8. GoodCall(call[w])'
  BY <1>1, <1>2, <1>3, <1>4, <1>5, <1>6, <1>7, NoPlan DEF GoodCall, With
<1>9. items' = items /\ call'[w].id = call[w].id
  BY <1>1, GotoFacts DEF Requests, With
<1>10. \A c \in Code : Has(Invite(c))' => items'[Invite(c)] \in User
  BY <1>9 DEF Requests, Has
<1> QED BY <1>1, <1>8, <1>9, <1>10, RequestsKept

LEMMA AnswerGood ==
    ASSUME Requests, NEW w \in Worker, call[w].op # "idle", Answer(w)
    PROVE  Requests'
<1>1. /\ CallsOK' /\ call'[w] = Idle /\ requests' = requests /\ items' = items
      /\ \A v \in Worker \ {w} : call'[v] = call[v]
  BY AnswerFacts DEF Requests
<1>2. GoodCall(call[w])' BY <1>1, GoodIdle, GoodSame
<1>3. \A c \in Code : Has(Invite(c))' => items'[Invite(c)] \in User
  BY <1>1 DEF Requests, Has
<1> QED BY <1>1, <1>2, <1>3, IdleCall, RequestsKept

LEMMA PlanGood ==
    ASSUME Requests, NEW w \in Worker, NEW todo, Sequence(todo), todo # <<>>,
           call[w].op # "idle", Plan(w, todo), GoodCall(With(call[w], todo, "done"))
    PROVE  Requests'
<1>1. CallsOK BY DEF Requests
<1>2. /\ CallsOK' /\ call'[w] = With(call[w], todo, "done") /\ requests' = requests
      /\ \A v \in Worker \ {w} : call'[v] = call[v] /\ items' = items
  BY <1>1, PlanFacts
<1>3. items' = items BY <1>1, PlanFacts
<1>4. GoodCall(call[w])' BY <1>2, GoodSame
<1>5. call'[w].id = call[w].id BY <1>2 DEF With
<1>6. \A c \in Code : Has(Invite(c))' => items'[Invite(c)] \in User
  BY <1>3 DEF Requests, Has
<1> QED BY <1>2, <1>4, <1>5, <1>6, RequestsKept

\* The plan of a request about a pair.
LEMMA PairPlanGood ==
    ASSUME Requests, NEW w \in Worker, NEW todo, Sequence(todo), todo # <<>>,
           Distinct(todo), call[w].op \in PairOps,
           Planned(todo) \subseteq PairWrites(Me(w), Other(w)), Plan(w, todo)
    PROVE  Requests'
<1>1. GoodCall(call[w]) BY DEF Requests
<1>2. PairCall(With(call[w], todo, "done"))
  BY <1>1 DEF GoodCall, PairCall, With, Me, Other, PairOps
<1>3. call[w].op \notin {"offer", "redeem", "message", "toggle", "idle"} BY DEF PairOps
<1>4. GoodCall(With(call[w], todo, "done"))
  BY <1>1, <1>2, <1>3 DEF GoodCall, With
<1> QED BY <1>3, <1>4, PlanGood

LEMMA KeepGood ==
    ASSUME Requests, NEW w \in Worker, NEW x, NEW at, call[w].op # "idle",
           call[w].todo = <<>>, Keep(w, x, at),
           \/ call[w].op = "offer" /\ call[w].at = "candidate" /\ at = "create" /\ x \in Code
           \/ call[w].op = "redeem" /\ call[w].at = "invite" /\ at = "known" /\ x \in User
    PROVE  Requests'
<1> DEFINE k == call[w]
           n == [op |-> k.op, at |-> at, id |-> k.id, on |-> k.on,
                 arg |-> Append(k.arg, x), todo |-> k.todo]
<1>1. CallsOK /\ GoodCall(k) BY DEF Requests
<1>2. /\ CallsOK' /\ call'[w] = n /\ requests' = requests
      /\ \A v \in Worker \ {w} : call'[v] = call[v] /\ items' = items
  BY <1>1, KeepFacts
<1>3. items' = items BY <1>1, KeepFacts
<1> HIDE DEF k
<1>4. n.op = k.op /\ n.at = at /\ n.id = k.id /\ n.on = k.on
      /\ n.arg = Append(k.arg, x) /\ n.todo = k.todo
  OBVIOUS
<1>5. Planned(n.todo) = {} /\ Distinct(n.todo) /\ n.todo = <<>>
  BY <1>4, NoPlan DEF k
<1> HIDE DEF n
<1>6. ASSUME k.op = "offer", k.at = "candidate", at = "create", x \in Code
      PROVE  GoodCall(n)
  <2>1. k.arg = <<k.arg[1]>> /\ k.arg[1] \in User /\ n.on = {{k.arg[1]}, User}
    BY <1>1, <1>4, <1>6 DEF GoodCall, OfferCall
  <2>3. n.arg[1] = k.arg[1] /\ n.arg[2] = x BY <1>4, <2>1, AppendOne
  <2>4. OfferCall(n) BY <1>4, <1>5, <1>6, <2>1, <2>3 DEF OfferCall
  <2> QED BY <1>1, <1>4, <1>5, <1>6, <2>4 DEF GoodCall, PairOps
<1>7. ASSUME k.op = "redeem", k.at = "invite", at = "known", x \in User
      PROVE  GoodCall(n)
  <2>1. /\ k.arg = <<k.arg[1], k.arg[2]>> /\ k.arg[1] \in User /\ k.arg[2] \in Code
        /\ n.on = {{}}
    BY <1>1, <1>4, <1>7 DEF GoodCall, RedeemCall
  <2>3. n.arg[1] = k.arg[1] /\ n.arg[2] = k.arg[2] /\ n.arg[3] = x
    BY <1>4, <2>1, AppendTwo
  <2>4. RedeemCall(n) BY <1>4, <1>5, <1>7, <2>1, <2>3 DEF RedeemCall
  <2> QED BY <1>1, <1>4, <1>5, <1>7, <2>4 DEF GoodCall, PairOps
<1>8. GoodCall(n) BY <1>6, <1>7 DEF k
<1>9. GoodCall(call[w])' BY <1>2, <1>8, GoodSame
<1>10. \A c \in Code : Has(Invite(c))' => items'[Invite(c)] \in User
  BY <1>3 DEF Requests, Has
<1>11. call'[w].id = call[w].id BY <1>2, <1>4 DEF k
<1> QED BY <1>2, <1>9, <1>10, <1>11, RequestsKept

LEMMA ShrunkGood ==
    ASSUME NEW k, GoodCall(k), NEW todo, Planned(todo) \subseteq Planned(k.todo),
           Distinct(todo), k.at = "done", k.op # "idle"
    PROVE  GoodCall(With(k, todo, "done"))
<1> DEFINE n == With(k, todo, "done")
<1>1. /\ n.op = k.op /\ n.at = k.at /\ n.id = k.id /\ n.on = k.on /\ n.arg = k.arg
      /\ n.todo = todo
  BY DEF With
<1> HIDE DEF n
<1>2. PairCall(k) => PairCall(n) BY <1>1 DEF PairCall
<1>3. OfferCall(k) => OfferCall(n) BY <1>1 DEF OfferCall
<1>4. RedeemCall(k) => RedeemCall(n) BY <1>1 DEF RedeemCall
<1>5. MessageCall(k) => MessageCall(n) BY <1>1 DEF MessageCall
<1>6. ToggleCall(k) => ToggleCall(n) BY <1>1 DEF ToggleCall
<1>7. GoodCall(n) BY <1>1, <1>2, <1>3, <1>4, <1>5, <1>6 DEF GoodCall
<1> QED BY <1>7 DEF n

\* The keys a request writes, and what it writes there.
LEMMA PairKeys ==
    ASSUME NEW x, NEW y, NEW z \in PairWrites(x, y)
    PROVE  /\ z.do \in {"put", "delete"}
           /\ z.key \in {Friend(x, y), Friend(y, x), RequestIn(x, y), RequestIn(y, x),
                         RequestOut(x, y), RequestOut(y, x), Block(x, y)}
           /\ z.do = "put" =>
                 z.key \in {Friend(x, y), Friend(y, x), RequestIn(x, y), RequestOut(x, y),
                            Block(x, y)}
<1>1. \A key : Put(key, TRUE).do = "put" /\ Put(key, TRUE).key = key BY DEF Put
<1>2. \A key : Delete(key).do = "delete" /\ Delete(key).key = key BY DEF Delete
<1>3. z.do \in {"put", "delete"} BY <1>1, <1>2, Zenon DEF PairWrites
<1>4. z.key \in {Friend(x, y), Friend(y, x), RequestIn(x, y), RequestIn(y, x),
                 RequestOut(x, y), RequestOut(y, x), Block(x, y)}
  BY <1>1, <1>2, Zenon DEF PairWrites
<1>5. ASSUME z.do = "put"
      PROVE  z.key \in {Friend(x, y), Friend(y, x), RequestIn(x, y), RequestOut(x, y),
                        Block(x, y)}
  BY <1>1, <1>2, <1>5, Zenon DEF PairWrites
<1> QED BY <1>3, <1>4, <1>5

LEMMA ThreadKeys ==
    ASSUME NEW t, NEW x, NEW y, NEW z \in ThreadWrites(t, x, y)
    PROVE  /\ z.do = "put" /\ z.val = {x, y}
           /\ z.key \in {Thread(t), Listed(x, t), Listed(y, t)}
BY DEF ThreadWrites, Put

LEMMA RedeemKeys ==
    ASSUME NEW x, NEW c, NEW o, NEW z \in RedeemWrites(c, o, x)
    PROVE  z.do = "put" /\ z.key \in {Redemption(c, x), Counted(o, x)}
BY DEF RedeemWrites, Put

LEMMA ToggleKeys ==
    ASSUME NEW x, NEW z \in ToggleWrites(x)
    PROVE  z.do \in {"put", "delete"} /\ z.key = Reaction(x)
BY DEF ToggleWrites, Put, Delete

LEMMA OfferKeys ==
    ASSUME NEW c, NEW o, NEW z \in {Put(InviteOwner(o), c), Put(Invite(c), o)}
    PROVE  /\ z.do = "put"
           /\ (z.key = InviteOwner(o) /\ z.val = c) \/ (z.key = Invite(c) /\ z.val = o)
BY DEF Put

\* Which requests write what.
LEMMA WhoWrites ==
    ASSUME NEW k, GoodCall(k), NEW z \in Planned(k.todo)
    PROVE  /\ z.do \in {"put", "delete"}
           /\ k.op # "idle" /\ k.at = "done" /\ k.todo # <<>>
           /\ z.key[1] \in {"FRIEND", "REQUEST_IN", "REQUEST_OUT", "BLOCK"} =>
                 k.op \in PairOps /\ z \in PairWrites(k.arg[1], k.arg[2])
           /\ z.key[1] \in {"THREAD", "USER_THREAD"} =>
                 k.op = "open" /\ z \in ThreadWrites(k.id, k.arg[1], k.arg[2])
           /\ z.key[1] \in {"INVITE_OWNER", "INVITE"} =>
                 k.op = "offer" /\ z \in {Put(InviteOwner(k.arg[1]), k.arg[2]),
                                          Put(Invite(k.arg[2]), k.arg[1])}
           /\ z.key[1] \in {"REDEMPTION", "INVITER"} =>
                 k.op = "redeem" /\ z \in RedeemWrites(k.arg[2], k.arg[3], k.arg[1])
           /\ z.key[1] = "MESSAGE" =>
                 k.op = "message" /\ z \in {Put(Message(k.arg[2], k.id), k.arg[1])}
<1>1. k.todo # <<>> BY NoPlan
<1>2. k.op # "idle" /\ k.at = "done" BY <1>1 DEF GoodCall
<1>3. CASE k.op \in PairOps
  <2>1. z \in PairWrites(k.arg[1], k.arg[2]) BY <1>3 DEF GoodCall, PairCall
  <2> QED
    BY <1>1, <1>2, <1>3, <2>1, PairKeys DEF Friend, RequestIn, RequestOut, Block
<1>4. CASE k.op = "open"
  <2>1. z \in ThreadWrites(k.id, k.arg[1], k.arg[2]) BY <1>4 DEF GoodCall, PairCall
  <2> QED BY <1>1, <1>2, <1>4, <2>1, ThreadKeys DEF Thread, Listed
<1>5. CASE k.op = "offer"
  <2>1. z \in {Put(InviteOwner(k.arg[1]), k.arg[2]), Put(Invite(k.arg[2]), k.arg[1])}
    BY <1>5 DEF GoodCall, OfferCall
  <2> QED BY <1>1, <1>2, <1>5, <2>1, OfferKeys DEF InviteOwner, Invite
<1>6. CASE k.op = "redeem"
  <2>1. z \in RedeemWrites(k.arg[2], k.arg[3], k.arg[1]) BY <1>6 DEF GoodCall, RedeemCall
  <2> QED BY <1>1, <1>2, <1>6, <2>1, RedeemKeys DEF Redemption, Counted
<1>7. CASE k.op = "message"
  <2>1. z \in {Put(Message(k.arg[2], k.id), k.arg[1])} BY <1>7 DEF GoodCall, MessageCall
  <2>2. z.do = "put" /\ z.key = Message(k.arg[2], k.id) BY <2>1 DEF Put
  <2> QED BY <1>1, <1>2, <1>7, <2>1, <2>2 DEF Message
<1>8. CASE k.op = "toggle"
  <2>1. z \in ToggleWrites(k.arg[1]) BY <1>8 DEF GoodCall, ToggleCall
  <2> QED BY <1>1, <1>2, <1>8, <2>1, ToggleKeys DEF Reaction
<1> QED BY <1>2, <1>3, <1>4, <1>5, <1>6, <1>7, <1>8 DEF GoodCall

\* A write that was planned.
LEMMA WriteGood ==
    ASSUME Requests, NEW w \in Worker, Write(w)
    PROVE  /\ Requests'
           /\ \A v \in Worker \ {w} : call'[v] = call[v]
           /\ requests' = requests /\ shared' = shared /\ torn' = torn
           /\ \E z \in Head(call[w].todo) :
                 LET T == Planned(call[w].todo)
                     R == Planned(Rest(call[w].todo, z))
                 IN  /\ items' = After(z)
                     /\ z \in T /\ R = T \ {z}
                     /\ \A y \in R : y.key # z.key
                     /\ Planned(call'[w].todo) = R
                     /\ \/ call'[w] = Idle /\ R = {}
                        \/ call'[w] = With(call[w], Rest(call[w].todo, z), "done")
<1> DEFINE k == call[w]
<1>1. CallsOK /\ GoodCall(k) BY DEF Requests
<1>2. /\ CallsOK' /\ \A v \in Worker \ {w} : call'[v] = call[v]
      /\ k.op # "idle" /\ k.todo # <<>>
      /\ requests' = requests /\ shared' = shared /\ torn' = torn
  BY <1>1, WriteFacts
<1>3. PICK z \in Head(k.todo) :
         /\ items' = After(z) /\ Sequence(Rest(k.todo, z))
         /\ call'[w] = Onward(k, Rest(k.todo, z), k.at)
  BY <1>1, WriteFacts
<1> DEFINE r == Rest(k.todo, z)
           T == Planned(k.todo)
           R == Planned(r)
<1>4. Shaped(k) /\ Sequence(k.todo) /\ Distinct(k.todo) /\ k.at = "done"
  BY <1>1, <1>2 DEF CallsOK, GoodCall
<1>5. /\ z \in T /\ R \subseteq T /\ T \subseteq R \cup {z} /\ Distinct(r)
      /\ \A y \in R : y.key # z.key
      /\ z \notin R
  BY <1>2, <1>4, RestOf
<1>6. R = T \ {z} BY <1>5
<1>7. r = <<>> => call'[w] = Idle /\ R = {}
  BY <1>3, <1>4, NoPlan DEF Onward
<1>8. r # <<>> => call'[w] = With(k, r, "done")
  BY <1>3, <1>4, OnwardWith
<1> HIDE DEF k, r, T, R
<1>9. Planned(call'[w].todo) = R
  <2>1. CASE r = <<>> BY <2>1, <1>7, NoPlan, IdleCall
  <2>2. CASE r # <<>>
    <3>1. call'[w].todo = r BY <2>2, <1>8 DEF With
    <3> QED BY <3>1 DEF R
  <2> QED BY <2>1, <2>2
<1>10. GoodCall(call[w])'
  <2>1. CASE r = <<>> BY <2>1, <1>2, <1>7, GoodIdle, GoodSame
  <2>2. CASE r # <<>>
    <3>1. GoodCall(With(k, r, "done")) BY <1>1, <1>2, <1>4, <1>5, ShrunkGood DEF T, R
    <3> QED BY <1>2, <1>8, <2>2, <3>1, GoodSame
  <2> QED BY <2>1, <2>2
<1>11. \/ call'[w].op = "idle" /\ call'[w].id = 0
       \/ call'[w].id = k.id
  BY <1>7, <1>8, IdleCall DEF With
<1>12. \A c \in Code : Has(Invite(c))' => items'[Invite(c)] \in User
  <2> SUFFICES ASSUME NEW c \in Code, Invite(c) \in DOMAIN items'
               PROVE  items'[Invite(c)] \in User
    BY DEF Has
  <2>1. Invite(c) \in DOMAIN items => items[Invite(c)] \in User BY DEF Requests, Has
  <2>2. z.do \in {"put", "delete"} /\ (z.key = Invite(c) => z.do = "put" /\ z.val \in User)
    <3>1. z.do \in {"put", "delete"} BY <1>1, <1>5, WhoWrites DEF T
    <3>2. ASSUME z.key = Invite(c) PROVE z.do = "put" /\ z.val \in User
      <4>1. z.key[1] = "INVITE" BY <3>2 DEF Invite
      <4>2. k.op = "offer" /\ z \in {Put(InviteOwner(k.arg[1]), k.arg[2]),
                                     Put(Invite(k.arg[2]), k.arg[1])}
        BY <1>1, <1>5, <4>1, WhoWrites DEF T
      <4>3. k.arg[1] \in User BY <1>1, <4>2 DEF GoodCall, OfferCall
      <4>4. InviteOwner(k.arg[1])[1] = "INVITE_OWNER" BY DEF InviteOwner
      <4> QED BY <3>2, <4>1, <4>2, <4>3, <4>4, OfferKeys
    <3> QED BY <3>1, <3>2
  <2>3. CASE z.do = "put" BY <1>3, <2>1, <2>2, <2>3, PutFacts
  <2>4. CASE z.do = "delete" BY <1>3, <2>1, <2>2, <2>4, DeleteFacts
  <2> QED BY <2>2, <2>3, <2>4
<1>13. Requests' BY <1>2, <1>10, <1>11, <1>12, RequestsKept DEF k
<1> QED BY <1>2, <1>3, <1>5, <1>6, <1>7, <1>8, <1>9, <1>13 DEF k, r, T, R

LEMMA CrashGood ==
    ASSUME Requests, NEW w \in Worker, Crash(w)
    PROVE  Requests'
<1>1. CallsOK BY DEF Requests
<1>2. /\ CallsOK' /\ \A v \in Worker \ {w} : call'[v] = call[v]
      /\ call'[w] = Idle /\ requests' = requests
  BY <1>1, CrashFacts
<1>3. items' = items BY <1>1, CrashFacts
<1>4. GoodCall(call[w])' BY <1>2, GoodIdle, GoodSame
<1>5. \A c \in Code : Has(Invite(c))' => items'[Invite(c)] \in User
  BY <1>3 DEF Requests, Has
<1> QED BY <1>2, <1>4, <1>5, IdleCall, RequestsKept

-----------------------------------------------------------------------------
(* Every step of a request.                                                *)

LEMMA MePair ==
    ASSUME Requests, NEW w \in Worker, call[w].op \in PairOps \cup {"open"}
    PROVE  Me(w) \in User /\ Other(w) \in User /\ Me(w) # Other(w)
           /\ call[w].on = {{Me(w), Other(w)}}
BY DEF Requests, GoodCall, PairCall, Me, Other

LEMMA SendMeetsGood ==
    ASSUME Requests, NEW w \in Worker, SendMeets(w) \/ Accept(w)
    PROVE  Requests'
<1>1. call[w].op \in {"send", "accept"} /\ call[w].op # "idle"
      /\ call[w].op \notin {"offer", "redeem"}
  BY DEF SendMeets, Accept, At
<1>2. call[w].op \in PairOps BY <1>1 DEF PairOps
<1> DEFINE x == Me(w)
           y == Other(w)
<1>3. x \in User /\ y \in User /\ x # y BY <1>2, MePair
<1>4. CASE Plan(w, Befriend(x, y))
  <2>1. Planned(Befriend(x, y)) \subseteq PairWrites(x, y)
    <3>1. Planned(Befriend(x, y)) =
             {Put(Friend(x, y), TRUE), Put(Friend(y, x), TRUE),
              Delete(RequestIn(y, x)), Delete(RequestOut(y, x)),
              Delete(RequestIn(x, y)), Delete(RequestOut(x, y))}
      BY <1>3, BefriendPlan
    <3> QED BY <3>1 DEF PairWrites
  <2> QED BY <1>2, <1>3, <1>4, <2>1, BefriendPlan, PairPlanGood
<1>5. CASE Goto(w, "outgoing") BY <1>1, <1>5, GotoGood
<1>6. CASE Answer(w) BY <1>1, <1>6, AnswerGood
<1> QED BY <1>4, <1>5, <1>6 DEF SendMeets, Accept

LEMMA SendStopsGood ==
    ASSUME Requests, NEW w \in Worker, NEW at, NEW key, NEW onward, onward # "done",
           SendStops(w, at, key, onward)
    PROVE  Requests'
<1>1. call[w].op = "send" /\ (Answer(w) \/ Goto(w, onward)) BY DEF SendStops, At
<1> QED BY <1>1, AnswerGood, GotoGood

LEMMA SendUpsertsGood ==
    ASSUME Requests, NEW w \in Worker, SendUpserts(w)
    PROVE  Requests'
<1>1. call[w].op = "send" BY DEF SendUpserts, At
<1>2. call[w].op \in PairOps BY <1>1 DEF PairOps
<1> DEFINE x == Me(w)
           y == Other(w)
           todo == UpsertFriendRequest(x, y)
<1>3. x \in User /\ y \in User /\ x # y BY <1>2, MePair
<1>4. CASE Plan(w, todo)
  <2>1. /\ Sequence(todo) /\ Distinct(todo)
        /\ Planned(todo) = {Put(RequestIn(x, y), TRUE), Put(RequestOut(x, y), TRUE)}
    BY <1>3, FriendPlans
  <2>2. Planned(todo) \subseteq PairWrites(x, y) BY <2>1 DEF PairWrites
  <2>3. todo # <<>> BY <2>1, NoPlan
  <2> HIDE DEF todo
  <2> QED BY <1>2, <1>4, <2>1, <2>2, <2>3, PairPlanGood
<1>5. CASE Answer(w) BY <1>1, <1>5, AnswerGood
<1> QED BY <1>4, <1>5 DEF SendUpserts

LEMMA BlindlyGood ==
    ASSUME Requests, NEW w \in Worker, WriteBlindly(w)
    PROVE  Requests'
<1> DEFINE x == Me(w)
           y == Other(w)
<1>1. PICK todo :
         /\ Plan(w, todo)
         /\ \/ /\ call[w].op = "reject"
               /\ todo = DeleteFriendRequest(x, y) \o DeleteFriendRequest(y, x)
            \/ call[w].op = "unfriend" /\ todo = RemoveFriendEdge(x, y)
            \/ call[w].op = "block" /\ todo = BlockUser(x, y) \o Sever(x, y)
            \/ call[w].op = "unblock" /\ todo = <<{Delete(Block(x, y))}>>
  BY DEF WriteBlindly, At
<1>2. call[w].op \in PairOps BY <1>1 DEF PairOps
<1>3. x \in User /\ y \in User /\ x # y BY <1>2, MePair
<1> HIDE DEF x, y
<1>4. /\ Sequence(todo) /\ Distinct(todo) /\ todo # <<>>
      /\ Planned(todo) \subseteq PairWrites(x, y)
  <2>1. CASE todo = DeleteFriendRequest(x, y) \o DeleteFriendRequest(y, x)
    <3>1. /\ Sequence(todo) /\ Distinct(todo) /\ todo # <<>>
          /\ Planned(todo) =
                {Delete(RequestIn(y, x)), Delete(RequestOut(y, x)),
                 Delete(RequestIn(x, y)), Delete(RequestOut(x, y))}
      BY <1>3, <2>1, RejectPlan
    <3>2. Planned(todo) \subseteq PairWrites(x, y) BY <3>1 DEF PairWrites
    <3> QED BY <3>1, <3>2
  <2>2. CASE todo = RemoveFriendEdge(x, y)
    <3>1. /\ Sequence(todo) /\ Distinct(todo)
          /\ Planned(todo) = {Delete(Friend(x, y)), Delete(Friend(y, x))}
      BY <1>3, <2>2, FriendPlans
    <3>2. Planned(todo) \subseteq PairWrites(x, y) BY <3>1 DEF PairWrites
    <3>3. todo # <<>> BY <3>1, NoPlan
    <3> QED BY <3>1, <3>2, <3>3
  <2>3. CASE todo = BlockUser(x, y) \o Sever(x, y)
    <3>1. /\ Sequence(todo) /\ Distinct(todo) /\ todo # <<>>
          /\ Planned(todo) =
                {Put(Block(x, y), TRUE),
                 Delete(Friend(x, y)), Delete(Friend(y, x)),
                 Delete(RequestIn(x, y)), Delete(RequestOut(x, y)),
                 Delete(RequestIn(y, x)), Delete(RequestOut(y, x))}
      BY <1>3, <2>3, BlockPlan
    <3>2. Planned(todo) \subseteq PairWrites(x, y) BY <3>1 DEF PairWrites
    <3> QED BY <3>1, <3>2
  <2>4. CASE todo = <<{Delete(Block(x, y))}>>
    <3> DEFINE z == Delete(Block(x, y))
    <3>1. z \in PairWrites(x, y) BY DEF PairWrites
    <3> HIDE DEF z
    <3>2. /\ Sequence(<<{z}>>) /\ Distinct(<<{z}>>) /\ <<{z}>> # <<>>
          /\ Planned(<<{z}>>) = {z}
      BY OneStep
    <3> QED BY <2>4, <3>1, <3>2 DEF z
  <2> QED BY <1>1, <2>1, <2>2, <2>3, <2>4
<1> QED BY <1>1, <1>2, <1>4, PairPlanGood DEF x, y

LEMMA OffersGood ==
    ASSUME Requests, NEW w \in Worker, OfferOwner(w) \/ OfferCandidate(w) \/ OfferCreate(w)
    PROVE  Requests'
<1>1. call[w].op = "offer" /\ call[w].todo = <<>>
  BY DEF OfferOwner, OfferCandidate, OfferCreate, At
<1>2. CASE OfferOwner(w)
  <2>1. call[w].at = "owner" /\ (Answer(w) \/ Goto(w, "candidate"))
    BY <1>2 DEF OfferOwner, At
  <2> QED BY <1>1, <2>1, AnswerGood, GotoGood
<1>3. CASE OfferCandidate(w)
  <2>1. call[w].at = "candidate" /\ (Answer(w) \/ \E c \in Code : Keep(w, c, "create"))
    BY <1>3 DEF OfferCandidate, At
  <2> QED BY <1>1, <2>1, AnswerGood, KeepGood
<1>4. CASE OfferCreate(w)
  <2> DEFINE k == call[w]
             todo == CreateInviteCode(k.arg[1], k.arg[2])
  <2>1. k.at = "create" /\ (Answer(w) \/ Plan(w, todo))
    BY <1>4 DEF OfferCreate, At, Me
  <2>2. /\ Sequence(todo) /\ Distinct(todo) /\ todo # <<>>
        /\ Planned(todo) = {Put(InviteOwner(k.arg[1]), k.arg[2]),
                            Put(Invite(k.arg[2]), k.arg[1])}
    BY InvitePlans
  <2> HIDE DEF todo
  <2>3. GoodCall(k) BY DEF Requests
  <2>4. OfferCall(With(k, todo, "done"))
    BY <1>1, <2>1, <2>2, <2>3 DEF GoodCall, OfferCall, With
  <2>5. GoodCall(With(k, todo, "done"))
    BY <1>1, <2>2, <2>3, <2>4 DEF GoodCall, With, PairOps
  <2> QED BY <1>1, <2>1, <2>2, <2>5, AnswerGood, PlanGood
<1> QED BY <1>2, <1>3, <1>4

LEMMA RedeemsGood ==
    ASSUME Requests, NEW w \in Worker, RedeemLookup(w) \/ RedeemKnown(w) \/ RedeemCounted(w)
    PROVE  Requests'
<1> DEFINE k == call[w]
<1>1. k.op = "redeem" /\ k.todo = <<>>
  BY DEF RedeemLookup, RedeemKnown, RedeemCounted, At
<1>2. CASE RedeemLookup(w)
  <2>1. k.at = "invite" /\ k.arg[2] \in Code
    BY <1>1, <1>2 DEF RedeemLookup, At, Requests, GoodCall, RedeemCall
  <2>2. \/ Answer(w)
        \/ Has(Invite(k.arg[2])) /\ Keep(w, items[Invite(k.arg[2])], "known")
    BY <1>2 DEF RedeemLookup, Other
  <2>3. Has(Invite(k.arg[2])) => items[Invite(k.arg[2])] \in User BY <2>1 DEF Requests
  <2> QED BY <1>1, <2>1, <2>2, <2>3, AnswerGood, KeepGood
<1>3. CASE RedeemKnown(w)
  <2>1. k.at = "known" /\ (Answer(w) \/ Goto(w, "count")) BY <1>3 DEF RedeemKnown, At
  <2> QED BY <1>1, <2>1, AnswerGood, GotoGood
<1>4. CASE RedeemCounted(w)
  <2> DEFINE todo == UpsertRedemption(k.arg[2], k.arg[3], k.arg[1])
  <2>1. k.at = "count" /\ (Answer(w) \/ Plan(w, todo))
    BY <1>4 DEF RedeemCounted, At, Me, Other, Inviter
  <2>2. /\ Sequence(todo) /\ Distinct(todo) /\ todo # <<>>
        /\ Planned(todo) = RedeemWrites(k.arg[2], k.arg[3], k.arg[1])
    BY InvitePlans
  <2> HIDE DEF todo
  <2>3. GoodCall(k) BY DEF Requests
  <2>4. RedeemCall(With(k, todo, "done"))
    BY <1>1, <2>1, <2>2, <2>3 DEF GoodCall, RedeemCall, With
  <2>5. GoodCall(With(k, todo, "done"))
    BY <1>1, <2>2, <2>3, <2>4 DEF GoodCall, With, PairOps
  <2> QED BY <1>1, <2>1, <2>2, <2>5, AnswerGood, PlanGood
<1> QED BY <1>2, <1>3, <1>4

LEMMA TalkGood ==
    ASSUME Requests, NEW w \in Worker,
           OpenOrCreateThread(w) \/ PutMessage(w) \/ ToggleReaction(w)
    PROVE  Requests'
<1> DEFINE k == call[w]
<1>0. GoodCall(k) BY DEF Requests
<1>1. CASE OpenOrCreateThread(w)
  <2> DEFINE todo == PutThread(k.id, Me(w), Other(w))
  <2>1. k.op = "open" /\ (Answer(w) \/ Plan(w, todo))
    BY <1>1 DEF OpenOrCreateThread, At
  <2>2. Me(w) \in User /\ Other(w) \in User /\ Me(w) # Other(w) BY <2>1, MePair
  <2>3. /\ Sequence(todo) /\ Distinct(todo) /\ todo # <<>>
        /\ Planned(todo) = ThreadWrites(k.id, k.arg[1], k.arg[2])
    BY <2>2, ThreadPlan DEF Me, Other
  <2> HIDE DEF todo
  <2>4. PairCall(With(k, todo, "done"))
    BY <1>0, <2>1, <2>3 DEF GoodCall, PairCall, With, PairOps
  <2>5. GoodCall(With(k, todo, "done"))
    BY <1>0, <2>1, <2>3, <2>4 DEF GoodCall, With, PairOps
  <2> QED BY <2>1, <2>3, <2>5, AnswerGood, PlanGood
<1>2. CASE PutMessage(w)
  <2> DEFINE z == Put(Message(k.arg[2], k.id), k.arg[1])
             todo == <<{z}>>
  <2>1. k.op = "message" /\ (Answer(w) \/ Plan(w, todo))
    BY <1>2 DEF PutMessage, At, Me, Other
  <2>2. Sequence(todo) /\ Distinct(todo) /\ todo # <<>> /\ Planned(todo) = {z}
    BY OneStep
  <2> HIDE DEF todo
  <2>3. MessageCall(With(k, todo, "done"))
    BY <1>0, <2>1, <2>2 DEF GoodCall, MessageCall, With
  <2>4. GoodCall(With(k, todo, "done"))
    BY <1>0, <2>1, <2>2, <2>3 DEF GoodCall, With, PairOps
  <2> QED BY <2>1, <2>2, <2>4, AnswerGood, PlanGood
<1>3. CASE ToggleReaction(w)
  <2>1. k.op = "toggle" BY <1>3 DEF ToggleReaction, At
  <2>2. PICK z \in ToggleWrites(k.arg[1]) : Plan(w, <<{z}>>)
    BY <1>3 DEF ToggleReaction, ToggleWrites, Me
  <2> DEFINE todo == <<{z}>>
  <2>3. Sequence(todo) /\ Distinct(todo) /\ todo # <<>> /\ Planned(todo) = {z}
    BY OneStep
  <2>4. Plan(w, todo) BY <2>2
  <2> HIDE DEF todo
  <2>5. ToggleCall(With(k, todo, "done"))
    BY <1>0, <2>1, <2>3 DEF GoodCall, ToggleCall, With
  <2>6. GoodCall(With(k, todo, "done"))
    BY <1>0, <2>1, <2>3, <2>5 DEF GoodCall, With, PairOps
  <2> QED BY <2>1, <2>3, <2>4, <2>6, PlanGood
<1> QED BY <1>1, <1>2, <1>3

LEMMA FriendsGood ==
    ASSUME Requests, NEW w \in Worker, FriendsNext(w)
    PROVE  Requests'
<1>1. ASSUME NEW me \in User, NEW other \in User,
             \/ SendFriendRequest(w, me, other) \/ AcceptFriendRequest(w, me, other)
             \/ RemoveRequest(w, me, other) \/ Unfriend(w, me, other)
             \/ BlockRequest(w, me, other) \/ UnblockUser(w, me, other)
      PROVE  Requests'
  <2>1. PICK op \in PairOps, at \in {"blocked", "incoming", "go"} : Pair(op, w, me, other, at)
    BY <1>1 DEF SendFriendRequest, AcceptFriendRequest, RemoveRequest, Unfriend,
                BlockRequest, UnblockUser, PairOps
  <2> QED BY <2>1, PairBegins
<1>2. ASSUME \/ SendStops(w, "blocked", Block(Me(w), Other(w)), "blockedBy")
             \/ SendStops(w, "blockedBy", Block(Other(w), Me(w)), "friend")
             \/ SendStops(w, "friend", Friend(Me(w), Other(w)), "incoming")
      PROVE  Requests'
  BY <1>2, SendStopsGood
<1> QED BY <1>1, <1>2, SendMeetsGood, SendUpsertsGood, BlindlyGood DEF FriendsNext

LEMMA InvitesGood ==
    ASSUME Requests, NEW w \in Worker, InvitesNext(w)
    PROVE  Requests'
BY OfferBegins, RedeemBegins, OffersGood, RedeemsGood DEF InvitesNext

LEMMA ThreadsGood ==
    ASSUME Requests, NEW w \in Worker, ThreadsNext(w)
    PROVE  Requests'
<1>1. ASSUME NEW me \in User, NEW other \in User, OpenThread(w, me, other)
      PROVE  Requests'
  BY <1>1, PairBegins DEF OpenThread
<1> QED BY <1>1, MessageBegins, ToggleBegins, TalkGood DEF ThreadsNext

LEMMA RequestsInit == Init => Requests
<1> SUFFICES ASSUME Init PROVE Requests OBVIOUS
<1>1. items = <<>> /\ call = [w \in Worker |-> Idle] /\ requests = 0
  BY DEF Init, TableInit
<1>2. CallsOK BY <1>1, IdleCall DEF CallsOK
<1>3. \A w \in Worker : GoodCall(call[w]) /\ call[w].op = "idle"
  BY <1>1, GoodIdle, IdleCall
<1>4. \A c \in Code : ~Has(Invite(c)) BY <1>1 DEF Has
<1> QED BY <1>1, <1>2, <1>3, <1>4, TableConstants DEF Requests

LEMMA RequestsNextGood == Requests /\ [Next]_vars => Requests'
<1>1. ASSUME Requests, NEW w \in Worker,
             FriendsNext(w) \/ InvitesNext(w) \/ ThreadsNext(w) \/ Work(w)
      PROVE  Requests'
  BY <1>1, FriendsGood, InvitesGood, ThreadsGood, WriteGood, CrashGood DEF Work
<1>2. ASSUME Requests, UNCHANGED vars PROVE Requests'
  <2>1. UNCHANGED <<items, call, requests>> BY <1>2 DEF vars, tableVars
  <2>2. CallsOK' BY <1>2, <2>1 DEF Requests, CallsOK, Shaped
  <2>3. \A w \in Worker : GoodCall(call[w])' BY <1>2, <2>1, GoodSame DEF Requests
  <2> QED BY <1>2, <2>1, <2>2, <2>3 DEF Requests, Has
<1> QED BY <1>1, <1>2 DEF Next

-----------------------------------------------------------------------------
(* The steps, by what they do to the items and to the call of w.           *)

Begins(w) ==
    LET n == call'[w]
    IN  /\ call[w] = Idle
        /\ n.op # "idle" /\ n.at # "done" /\ n.todo = <<>>
        /\ n.id = requests + 1 /\ requests' = requests + 1
        /\ n.op = "send" => n.at = "blocked"
        /\ n.op = "accept" => n.at = "incoming"
        /\ n.op = "open" => n.at = "list"
        /\ n.op = "offer" => n.at = "owner"
        /\ n.op = "redeem" => n.at = "invite"
        /\ shared \subseteq shared'
        /\ \A v \in Worker \ {w} : n.on \cap call[v].on \subseteq shared'
        /\ UNCHANGED <<items, torn, agreed>>

\* Nothing but the call of w.
Quiet == UNCHANGED <<items, requests, shared, torn, agreed>>

\* A read.
Moves(w) ==
    LET k == call[w]
        n == call'[w]
        x == k.arg[1]
        y == k.arg[2]
    IN  /\ k.todo = <<>> /\ n.todo = <<>>
        /\ n.op = k.op /\ n.id = k.id /\ n.on = k.on
        /\ n.arg[1] = x
        /\ \/ /\ k.op = "send" /\ n.arg[2] = y
              /\ \/ k.at = "blocked" /\ n.at = "blockedBy" /\ ~Has(Block(x, y))
                 \/ k.at = "blockedBy" /\ n.at = "friend" /\ ~Has(Block(y, x))
                 \/ k.at = "friend" /\ n.at = "incoming" /\ ~Has(Friend(x, y))
                 \/ k.at = "incoming" /\ n.at = "outgoing" /\ ~Has(RequestIn(y, x))
           \/ /\ k.op = "offer"
              /\ \/ k.at = "owner" /\ n.at = "candidate" /\ ~Has(InviteOwner(x))
                 \/ /\ k.at = "candidate" /\ n.at = "create"
                    /\ n.arg[2] \in Code /\ ~Has(Invite(n.arg[2]))
           \/ /\ k.op = "redeem" /\ n.arg[2] = y
              /\ \/ /\ k.at = "invite" /\ n.at = "known"
                    /\ Has(Invite(y)) /\ n.arg[3] = items[Invite(y)]
                 \/ k.at = "known" /\ n.at = "count" /\ n.arg[3] = k.arg[3]
        /\ Quiet

Ends(w) ==
    /\ call[w].op # "idle" /\ call[w].todo = <<>>
    /\ call'[w] = Idle
    /\ Quiet

BefriendWrites(x, y) ==
    {Put(Friend(x, y), TRUE), Put(Friend(y, x), TRUE),
     Delete(RequestIn(y, x)), Delete(RequestOut(y, x)),
     Delete(RequestIn(x, y)), Delete(RequestOut(x, y))}

UpsertWrites(x, y) == {Put(RequestIn(x, y), TRUE), Put(RequestOut(x, y), TRUE)}

RejectWrites(x, y) ==
    {Delete(RequestIn(y, x)), Delete(RequestOut(y, x)),
     Delete(RequestIn(x, y)), Delete(RequestOut(x, y))}

UnfriendWrites(x, y) == {Delete(Friend(x, y)), Delete(Friend(y, x))}

BlockWrites(x, y) ==
    {Put(Block(x, y), TRUE), Delete(Friend(x, y)), Delete(Friend(y, x)),
     Delete(RequestIn(x, y)), Delete(RequestOut(x, y)),
     Delete(RequestIn(y, x)), Delete(RequestOut(y, x))}

Plans(w) ==
    LET k == call[w]
        n == call'[w]
        x == k.arg[1]
        y == k.arg[2]
        T == Planned(n.todo)
    IN  /\ k.todo = <<>> /\ n.todo # <<>> /\ n.at = "done"
        /\ n.op = k.op /\ n.id = k.id /\ n.on = k.on /\ n.arg = k.arg
        /\ \/ /\ k.op \in {"send", "accept"} /\ k.at = "incoming"
              /\ Has(RequestIn(y, x)) /\ T = BefriendWrites(x, y)
              /\ agreed' = agreed \cup {<<x, y>>}
           \/ /\ k.op = "send" /\ k.at = "outgoing"
              /\ ~Has(RequestIn(x, y)) /\ T = UpsertWrites(x, y)
              /\ agreed' = agreed \cup {<<x, y>>}
           \/ /\ agreed' = agreed
              /\ \/ k.op = "reject" /\ T = RejectWrites(x, y)
                 \/ k.op = "unfriend" /\ T = UnfriendWrites(x, y)
                 \/ k.op = "block" /\ T = BlockWrites(x, y)
                 \/ k.op = "unblock" /\ T = {Delete(Block(x, y))}
                 \/ /\ k.op = "offer" /\ k.at = "create" /\ ~Has(InviteOwner(x))
                    /\ T = {Put(InviteOwner(x), y), Put(Invite(y), x)}
                 \/ /\ k.op = "redeem" /\ k.at = "count"
                    /\ ~(Cardinality(CountedFor(k.arg[3])) >= MonthlyCap)
                    /\ T = RedeemWrites(y, k.arg[3], x)
                    /\ Head(n.todo) = {Put(Redemption(y, x), TRUE)}
                 \/ /\ k.op = "open" /\ k.at = "list" /\ ThreadsWith(x, y) = {}
                    /\ T = ThreadWrites(k.id, x, y)
                    /\ Head(n.todo) = {Put(Thread(k.id), {x, y})}
                 \/ /\ k.op = "message" /\ Has(Thread(y)) /\ x \in items[Thread(y)]
                    /\ T = {Put(Message(y, k.id), x)}
                 \/ k.op = "toggle" /\ T \subseteq ToggleWrites(x)
        /\ UNCHANGED <<items, requests, shared, torn>>

Writes(w) ==
    /\ \E z \in Head(call[w].todo) :
          LET T == Planned(call[w].todo)
              R == T \ {z}
          IN  /\ z \in T /\ items' = After(z)
              /\ \A y \in R : y.key # z.key
              /\ Planned(call'[w].todo) = R
              /\ \/ call'[w] = Idle /\ R = {}
                 \/ call'[w] = With(call[w], Rest(call[w].todo, z), "done")
    /\ UNCHANGED <<requests, shared, torn, agreed>>

Crashes(w) ==
    /\ call[w].op # "idle"
    /\ call'[w] = Idle
    /\ torn' = torn \cup call[w].on
    /\ UNCHANGED <<items, requests, shared, agreed>>

Step(w) ==
    /\ \A v \in Worker \ {w} : call'[v] = call[v]
    /\ Begins(w) \/ Moves(w) \/ Ends(w) \/ Plans(w) \/ Writes(w) \/ Crashes(w)

-----------------------------------------------------------------------------

LEMMA BeginStep ==
    ASSUME Requests, NEW w \in Worker, NEW op, NEW on, NEW arg, NEW at,
           Begin(w, op, on, arg, at), op # "idle", at # "done",
           op = "send" => at = "blocked", op = "accept" => at = "incoming",
           op = "open" => at = "list", op = "offer" => at = "owner",
           op = "redeem" => at = "invite", UNCHANGED agreed
    PROVE  Step(w)
<1> DEFINE n == [op |-> op, at |-> at, id |-> requests + 1, on |-> on, arg |-> arg,
                 todo |-> <<>>]
<1>1. CallsOK BY DEF Requests
<1>2. /\ call[w] = Idle /\ requests' = requests + 1 /\ call'[w] = n
      /\ \A v \in Worker \ {w} : call'[v] = call[v]
      /\ shared \subseteq shared'
      /\ \A v \in Worker \ {w} : on \cap call[v].on \subseteq shared'
  BY <1>1, BeginFacts
<1>3. UNCHANGED <<items, torn, agreed>> BY DEF Begin
<1>4. n.op = op /\ n.at = at /\ n.id = requests + 1 /\ n.on = on /\ n.todo = <<>> OBVIOUS
<1> HIDE DEF n
<1>5. Begins(w) BY <1>2, <1>3, <1>4 DEF Begins
<1> QED BY <1>2, <1>5 DEF Step

LEMMA EndStep ==
    ASSUME Requests, NEW w \in Worker, call[w].op # "idle", call[w].todo = <<>>, Answer(w),
           UNCHANGED agreed
    PROVE  Step(w)
<1>1. CallsOK BY DEF Requests
<1>2. /\ call'[w] = Idle /\ \A v \in Worker \ {w} : call'[v] = call[v]
      /\ UNCHANGED <<items, requests, shared, torn>>
  BY <1>1, AnswerFacts
<1>3. Ends(w) BY <1>2 DEF Ends, Quiet
<1> QED BY <1>2, <1>3 DEF Step

\* The call of w goes on; nothing else changes.
Continues(w, todo, at) ==
    LET k == call[w]
        n == call'[w]
    IN  /\ n.op = k.op /\ n.id = k.id /\ n.on = k.on /\ n.arg = k.arg
        /\ n.at = at /\ n.todo = todo
        /\ \A v \in Worker \ {w} : call'[v] = call[v]
        /\ UNCHANGED <<items, requests, shared, torn>>

LEMMA GotoCall ==
    ASSUME Requests, NEW w \in Worker, NEW at, at # "done", call[w].op # "idle", Goto(w, at)
    PROVE  Continues(w, <<>>, at)
<1>1. CallsOK BY DEF Requests
<1>2. /\ call'[w] = With(call[w], <<>>, at) /\ \A v \in Worker \ {w} : call'[v] = call[v]
      /\ UNCHANGED <<items, requests, shared, torn>>
  BY <1>1, GotoFacts
<1> QED BY <1>2 DEF With, Continues

LEMMA PlanCall ==
    ASSUME Requests, NEW w \in Worker, NEW todo, Sequence(todo), todo # <<>>,
           call[w].op # "idle", Plan(w, todo)
    PROVE  Continues(w, todo, "done")
<1>1. CallsOK BY DEF Requests
<1>2. /\ call'[w] = With(call[w], todo, "done")
      /\ \A v \in Worker \ {w} : call'[v] = call[v]
      /\ UNCHANGED <<items, requests, shared, torn>>
  BY <1>1, PlanFacts
<1> QED BY <1>2 DEF With, Continues

LEMMA SendStopsStep ==
    ASSUME Requests, NEW w \in Worker,
           \/ SendStops(w, "blocked", Block(Me(w), Other(w)), "blockedBy")
           \/ SendStops(w, "blockedBy", Block(Other(w), Me(w)), "friend")
           \/ SendStops(w, "friend", Friend(Me(w), Other(w)), "incoming")
    PROVE  Step(w)
<1>1. call[w].op = "send" /\ call[w].todo = <<>> /\ UNCHANGED agreed BY DEF SendStops, At
<1>2. CASE Answer(w) BY <1>1, <1>2, EndStep
<1>3. CASE ~Answer(w)
  <2>1. PICK at \in {"blockedBy", "friend", "incoming"} :
           /\ Goto(w, at)
           /\ \/ call[w].at = "blocked" /\ at = "blockedBy" /\ ~Has(Block(Me(w), Other(w)))
              \/ call[w].at = "blockedBy" /\ at = "friend" /\ ~Has(Block(Other(w), Me(w)))
              \/ call[w].at = "friend" /\ at = "incoming" /\ ~Has(Friend(Me(w), Other(w)))
    BY <1>3 DEF SendStops, At
  <2>2. Continues(w, <<>>, at)
    BY <1>1, <2>1, GotoCall
  <2>3. Moves(w) BY <1>1, <2>1, <2>2 DEF Moves, Quiet, Continues, Me, Other
  <2> QED BY <2>2, <2>3 DEF Step, Continues
<1> QED BY <1>2, <1>3

LEMMA MeetsStep ==
    ASSUME Requests, NEW w \in Worker, SendMeets(w) \/ Accept(w)
    PROVE  Step(w)
<1>1. call[w].op \in {"send", "accept"} /\ call[w].at = "incoming" /\ call[w].todo = <<>>
  BY DEF SendMeets, Accept, At
<1>2. Me(w) \in User /\ Other(w) \in User /\ Me(w) # Other(w)
  BY <1>1, MePair DEF PairOps
<1> DEFINE x == Me(w)
           y == Other(w)
           todo == Befriend(x, y)
<1>3. CASE Has(RequestIn(y, x))
  <2>1. Plan(w, todo) /\ agreed' = agreed \cup {<<x, y>>} BY <1>3 DEF SendMeets, Accept
  <2>2. Sequence(todo) /\ todo # <<>> /\ Planned(todo) = BefriendWrites(x, y)
    BY <1>2, BefriendPlan DEF BefriendWrites
  <2> HIDE DEF todo
  <2>3. Continues(w, todo, "done")
    BY <1>1, <2>1, <2>2, PlanCall
  <2>4. Plans(w) BY <1>1, <1>3, <2>1, <2>2, <2>3 DEF Plans, Continues, Me, Other
  <2> QED BY <2>3, <2>4 DEF Step, Continues
<1>4. CASE ~Has(RequestIn(y, x)) /\ call[w].op = "send"
  <2>1. Goto(w, "outgoing") /\ UNCHANGED agreed BY <1>1, <1>4 DEF SendMeets, Accept, At
  <2>2. Continues(w, <<>>, "outgoing")
    BY <1>1, <2>1, GotoCall
  <2>3. Moves(w) BY <1>1, <1>4, <2>1, <2>2 DEF Moves, Quiet, Continues, Me, Other
  <2> QED BY <2>2, <2>3 DEF Step, Continues
<1>5. CASE ~Has(RequestIn(y, x)) /\ call[w].op = "accept"
  <2>1. Answer(w) /\ UNCHANGED agreed BY <1>1, <1>5 DEF SendMeets, Accept, At
  <2> QED BY <1>1, <2>1, EndStep
<1> QED BY <1>1, <1>3, <1>4, <1>5

LEMMA UpsertsStep ==
    ASSUME Requests, NEW w \in Worker, SendUpserts(w)
    PROVE  Step(w)
<1>1. call[w].op = "send" /\ call[w].at = "outgoing" /\ call[w].todo = <<>>
  BY DEF SendUpserts, At
<1>2. Me(w) \in User /\ Other(w) \in User /\ Me(w) # Other(w)
  BY <1>1, MePair DEF PairOps
<1> DEFINE x == Me(w)
           y == Other(w)
           todo == UpsertFriendRequest(x, y)
<1>3. CASE Has(RequestIn(x, y))
  <2>1. Answer(w) /\ UNCHANGED agreed BY <1>3 DEF SendUpserts
  <2> QED BY <1>1, <2>1, EndStep
<1>4. CASE ~Has(RequestIn(x, y))
  <2>1. Plan(w, todo) /\ agreed' = agreed \cup {<<x, y>>} BY <1>4 DEF SendUpserts
  <2>2. Sequence(todo) /\ Planned(todo) = UpsertWrites(x, y)
    BY <1>2, FriendPlans DEF UpsertWrites
  <2>3. todo # <<>> BY DEF UpsertFriendRequest
  <2> HIDE DEF todo
  <2>4. Continues(w, todo, "done")
    BY <1>1, <2>1, <2>2, <2>3, PlanCall
  <2>5. Plans(w) BY <1>1, <1>4, <2>1, <2>2, <2>3, <2>4 DEF Plans, Continues, Me, Other
  <2> QED BY <2>4, <2>5 DEF Step, Continues
<1> QED BY <1>3, <1>4

LEMMA BlindStep ==
    ASSUME Requests, NEW w \in Worker, WriteBlindly(w)
    PROVE  Step(w)
<1> DEFINE x == Me(w)
           y == Other(w)
<1>1. PICK todo :
         /\ Plan(w, todo)
         /\ \/ /\ call[w].op = "reject"
               /\ todo = DeleteFriendRequest(x, y) \o DeleteFriendRequest(y, x)
            \/ call[w].op = "unfriend" /\ todo = RemoveFriendEdge(x, y)
            \/ call[w].op = "block" /\ todo = BlockUser(x, y) \o Sever(x, y)
            \/ call[w].op = "unblock" /\ todo = <<{Delete(Block(x, y))}>>
  BY DEF WriteBlindly, At
<1>2. call[w].todo = <<>> /\ UNCHANGED agreed /\ call[w].op # "idle"
  BY <1>1 DEF WriteBlindly, At
<1>3. x \in User /\ y \in User /\ x # y BY <1>1, MePair DEF PairOps
<1> HIDE DEF x, y
<1>4. /\ Sequence(todo) /\ todo # <<>>
      /\ \/ call[w].op = "reject" /\ Planned(todo) = RejectWrites(x, y)
         \/ call[w].op = "unfriend" /\ Planned(todo) = UnfriendWrites(x, y)
         \/ call[w].op = "block" /\ Planned(todo) = BlockWrites(x, y)
         \/ call[w].op = "unblock" /\ Planned(todo) = {Delete(Block(x, y))}
  <2>1. LET t == DeleteFriendRequest(x, y) \o DeleteFriendRequest(y, x)
        IN  Sequence(t) /\ t # <<>> /\ Planned(t) = RejectWrites(x, y)
    BY <1>3, RejectPlan DEF RejectWrites
  <2>2. LET t == RemoveFriendEdge(x, y)
        IN  Sequence(t) /\ Planned(t) = UnfriendWrites(x, y)
    BY <1>3, FriendPlans DEF UnfriendWrites
  <2>3. RemoveFriendEdge(x, y) # <<>> BY DEF RemoveFriendEdge
  <2>4. LET t == BlockUser(x, y) \o Sever(x, y)
        IN  Sequence(t) /\ t # <<>> /\ Planned(t) = BlockWrites(x, y)
    BY <1>3, BlockPlan DEF BlockWrites
  <2> DEFINE z == Delete(Block(x, y))
  <2> HIDE DEF z
  <2>5. Sequence(<<{z}>>) /\ <<{z}>> # <<>> /\ Planned(<<{z}>>) = {z} BY OneStep
  <2> QED BY <1>1, <2>1, <2>2, <2>3, <2>4, <2>5 DEF z
<1>5. Continues(w, todo, "done")
  BY <1>1, <1>2, <1>4, PlanCall
<1>6. Plans(w) BY <1>2, <1>4, <1>5 DEF Plans, Continues, Me, Other, x, y
<1> QED BY <1>5, <1>6 DEF Step, Continues

LEMMA OffersStep ==
    ASSUME Requests, NEW w \in Worker, OfferOwner(w) \/ OfferCandidate(w) \/ OfferCreate(w),
           UNCHANGED agreed
    PROVE  Step(w)
<1> DEFINE k == call[w]
<1>1. k.op = "offer" /\ k.todo = <<>> /\ CallsOK /\ GoodCall(k)
  BY DEF OfferOwner, OfferCandidate, OfferCreate, At, Requests
<1>2. CASE Answer(w) BY <1>1, <1>2, EndStep
<1>3. CASE OfferOwner(w) /\ ~Answer(w)
  <2>1. k.at = "owner" /\ Goto(w, "candidate") /\ ~Has(InviteOwner(k.arg[1]))
    BY <1>3 DEF OfferOwner, At, Me
  <2>2. Continues(w, <<>>, "candidate") BY <1>1, <2>1, GotoCall
  <2>3. Moves(w) BY <1>1, <2>1, <2>2 DEF Moves, Quiet, Continues
  <2> QED BY <2>2, <2>3 DEF Step, Continues
<1>4. CASE OfferCandidate(w) /\ ~Answer(w)
  <2>1. k.at = "candidate" /\ \E c \in Code : ~Has(Invite(c)) /\ Keep(w, c, "create")
    BY <1>4 DEF OfferCandidate, At
  <2>2. PICK c \in Code : ~Has(Invite(c)) /\ Keep(w, c, "create") BY <2>1
  <2> DEFINE n == [op |-> k.op, at |-> "create", id |-> k.id, on |-> k.on,
                   arg |-> Append(k.arg, c), todo |-> k.todo]
  <2>3. /\ call'[w] = n /\ \A v \in Worker \ {w} : call'[v] = call[v]
        /\ UNCHANGED <<items, requests, shared, torn>>
    BY <1>1, <2>2, KeepFacts
  <2>4. k.arg = <<k.arg[1]>> BY <1>1, <2>1 DEF GoodCall, OfferCall
  <2>5. n.arg[1] = k.arg[1] /\ n.arg[2] = c BY <2>4, AppendOne
  <2>6. n.op = k.op /\ n.at = "create" /\ n.id = k.id /\ n.on = k.on /\ n.todo = k.todo
    OBVIOUS
  <2> HIDE DEF n
  <2>7. Moves(w) BY <1>1, <2>1, <2>2, <2>3, <2>5, <2>6 DEF Moves, Quiet
  <2> QED BY <2>3, <2>7 DEF Step
<1>5. CASE OfferCreate(w) /\ ~Answer(w)
  <2> DEFINE todo == CreateInviteCode(k.arg[1], k.arg[2])
  <2>1. k.at = "create" /\ Plan(w, todo) /\ ~Has(InviteOwner(k.arg[1]))
    BY <1>5 DEF OfferCreate, At, Me
  <2>2. /\ Sequence(todo) /\ todo # <<>>
        /\ Planned(todo) = {Put(InviteOwner(k.arg[1]), k.arg[2]),
                            Put(Invite(k.arg[2]), k.arg[1])}
    BY InvitePlans
  <2> HIDE DEF todo
  <2>3. Continues(w, todo, "done") BY <1>1, <2>1, <2>2, PlanCall
  <2>4. Plans(w) BY <1>1, <2>1, <2>2, <2>3 DEF Plans, Continues
  <2> QED BY <2>3, <2>4 DEF Step, Continues
<1> QED BY <1>2, <1>3, <1>4, <1>5

LEMMA RedeemsStep ==
    ASSUME Requests, NEW w \in Worker, RedeemLookup(w) \/ RedeemKnown(w) \/ RedeemCounted(w),
           UNCHANGED agreed
    PROVE  Step(w)
<1> DEFINE k == call[w]
<1>1. k.op = "redeem" /\ k.todo = <<>> /\ CallsOK /\ GoodCall(k)
  BY DEF RedeemLookup, RedeemKnown, RedeemCounted, At, Requests
<1>2. CASE Answer(w) BY <1>1, <1>2, EndStep
<1>3. CASE RedeemLookup(w) /\ ~Answer(w)
  <2> DEFINE i == items[Invite(k.arg[2])]
  <2>1. k.at = "invite" /\ Has(Invite(k.arg[2])) /\ Keep(w, i, "known")
    BY <1>3 DEF RedeemLookup, At, Other
  <2> HIDE DEF i
  <2> DEFINE n == [op |-> k.op, at |-> "known", id |-> k.id, on |-> k.on,
                   arg |-> Append(k.arg, i), todo |-> k.todo]
  <2>3. /\ call'[w] = n /\ \A v \in Worker \ {w} : call'[v] = call[v]
        /\ UNCHANGED <<items, requests, shared, torn>>
    BY <1>1, <2>1, KeepFacts
  <2>4. k.arg = <<k.arg[1], k.arg[2]>> BY <1>1, <2>1 DEF GoodCall, RedeemCall
  <2>5. n.arg[1] = k.arg[1] /\ n.arg[2] = k.arg[2] /\ n.arg[3] = i BY <2>4, AppendTwo
  <2>6. n.op = k.op /\ n.at = "known" /\ n.id = k.id /\ n.on = k.on /\ n.todo = k.todo
    OBVIOUS
  <2> HIDE DEF n
  <2>7. Moves(w) BY <1>1, <2>1, <2>3, <2>5, <2>6 DEF Moves, Quiet, i
  <2> QED BY <2>3, <2>7 DEF Step
<1>4. CASE RedeemKnown(w) /\ ~Answer(w)
  <2>1. k.at = "known" /\ Goto(w, "count") BY <1>4 DEF RedeemKnown, At
  <2>2. Continues(w, <<>>, "count") BY <1>1, <2>1, GotoCall
  <2>3. Moves(w) BY <1>1, <2>1, <2>2 DEF Moves, Quiet, Continues
  <2> QED BY <2>2, <2>3 DEF Step, Continues
<1>5. CASE RedeemCounted(w) /\ ~Answer(w)
  <2> DEFINE todo == UpsertRedemption(k.arg[2], k.arg[3], k.arg[1])
  <2>1. k.at = "count" /\ Plan(w, todo)
        /\ ~(Cardinality(CountedFor(k.arg[3])) >= MonthlyCap)
    BY <1>5 DEF RedeemCounted, At, Me, Other, Inviter
  <2>2. /\ Sequence(todo) /\ todo # <<>>
        /\ Planned(todo) = RedeemWrites(k.arg[2], k.arg[3], k.arg[1])
        /\ Head(todo) = {Put(Redemption(k.arg[2], k.arg[1]), TRUE)}
    BY InvitePlans
  <2> HIDE DEF todo
  <2>3. Continues(w, todo, "done") BY <1>1, <2>1, <2>2, PlanCall
  <2>4. /\ Planned(call'[w].todo) = RedeemWrites(k.arg[2], k.arg[3], k.arg[1])
        /\ Head(call'[w].todo) = {Put(Redemption(k.arg[2], k.arg[1]), TRUE)}
        /\ call'[w].todo # <<>>
    BY <2>2, <2>3 DEF Continues
  <2>5. Plans(w) BY <1>1, <2>1, <2>3, <2>4 DEF Plans, Continues
  <2> QED BY <2>3, <2>5 DEF Step, Continues
<1> QED BY <1>2, <1>3, <1>4, <1>5

LEMMA TalkStep ==
    ASSUME Requests, NEW w \in Worker,
           OpenOrCreateThread(w) \/ PutMessage(w) \/ ToggleReaction(w), UNCHANGED agreed
    PROVE  Step(w)
<1> DEFINE k == call[w]
<1>1. k.op \in {"open", "message", "toggle"} /\ k.op # "idle" /\ k.todo = <<>> /\ GoodCall(k)
  BY DEF OpenOrCreateThread, PutMessage, ToggleReaction, At, Requests
<1>2. CASE Answer(w) BY <1>1, <1>2, EndStep
<1>3. CASE OpenOrCreateThread(w) /\ ~Answer(w)
  <2> DEFINE x == k.arg[1]
             y == k.arg[2]
             todo == PutThread(k.id, x, y)
  <2>1. k.op = "open" /\ k.at = "list" /\ Plan(w, todo) /\ ThreadsWith(x, y) = {}
    BY <1>3 DEF OpenOrCreateThread, At, Me, Other
  <2>2. x \in User /\ y \in User /\ x # y BY <2>1, MePair DEF Me, Other
  <2> HIDE DEF x, y
  <2>3. /\ Sequence(todo) /\ todo # <<>>
        /\ Head(todo) = {Put(Thread(k.id), {x, y})}
        /\ Planned(todo) = ThreadWrites(k.id, x, y)
    BY <2>2, ThreadPlan
  <2> HIDE DEF todo
  <2>4. Continues(w, todo, "done") BY <1>1, <2>1, <2>3, PlanCall
  <2>5. Plans(w) BY <1>1, <2>1, <2>3, <2>4 DEF Plans, Continues, x, y
  <2> QED BY <2>4, <2>5 DEF Step, Continues
<1>4. CASE PutMessage(w) /\ ~Answer(w)
  <2> DEFINE z == Put(Message(k.arg[2], k.id), k.arg[1])
             todo == <<{z}>>
  <2>1. /\ k.op = "message" /\ Plan(w, todo)
        /\ Has(Thread(k.arg[2])) /\ k.arg[1] \in items[Thread(k.arg[2])]
    BY <1>4 DEF PutMessage, At, Me, Other
  <2>2. Sequence(todo) /\ todo # <<>> /\ Planned(todo) = {z} BY OneStep
  <2> HIDE DEF todo
  <2>3. Continues(w, todo, "done") BY <1>1, <2>1, <2>2, PlanCall
  <2>4. Plans(w) BY <1>1, <2>1, <2>2, <2>3 DEF Plans, Continues
  <2> QED BY <2>3, <2>4 DEF Step, Continues
<1>5. CASE ToggleReaction(w)
  <2>1. k.op = "toggle" BY <1>5 DEF ToggleReaction, At
  <2>2. PICK z \in ToggleWrites(k.arg[1]) : Plan(w, <<{z}>>)
    BY <1>5 DEF ToggleReaction, ToggleWrites, Me
  <2> DEFINE todo == <<{z}>>
  <2>3. Sequence(todo) /\ todo # <<>> /\ Planned(todo) \subseteq ToggleWrites(k.arg[1])
    BY OneStep
  <2>4. Plan(w, todo) BY <2>2
  <2> HIDE DEF todo
  <2>5. Continues(w, todo, "done") BY <1>1, <2>3, <2>4, PlanCall
  <2>6. Plans(w) BY <1>1, <2>1, <2>3, <2>5 DEF Plans, Continues
  <2> QED BY <2>5, <2>6 DEF Step, Continues
<1> QED BY <1>2, <1>3, <1>4, <1>5

LEMMA WorkStep ==
    ASSUME Requests, NEW w \in Worker, Work(w)
    PROVE  Step(w)
<1>1. CASE Write(w)
  <2>1. UNCHANGED agreed BY DEF Work
  <2>2. /\ \A v \in Worker \ {w} : call'[v] = call[v]
        /\ UNCHANGED <<requests, shared, torn>>
    BY <1>1, WriteGood
  <2>3. PICK z \in Head(call[w].todo) :
           LET T == Planned(call[w].todo)
               R == Planned(Rest(call[w].todo, z))
           IN  /\ items' = After(z)
               /\ z \in T /\ R = T \ {z}
               /\ \A y \in R : y.key # z.key
               /\ Planned(call'[w].todo) = R
               /\ \/ call'[w] = Idle /\ R = {}
                  \/ call'[w] = With(call[w], Rest(call[w].todo, z), "done")
    BY <1>1, WriteGood
  <2>4. Writes(w) BY <2>1, <2>2, <2>3 DEF Writes
  <2> QED BY <2>2, <2>4 DEF Step
<1>2. CASE Crash(w)
  <2>1. CallsOK /\ UNCHANGED agreed BY DEF Requests, Work
  <2>2. /\ call'[w] = Idle /\ \A v \in Worker \ {w} : call'[v] = call[v]
        /\ call[w].op # "idle" /\ torn' = torn \cup call[w].on
        /\ UNCHANGED <<items, requests, shared>>
    BY <1>2, <2>1, CrashFacts
  <2>3. Crashes(w) BY <2>1, <2>2 DEF Crashes
  <2> QED BY <2>2, <2>3 DEF Step
<1> QED BY <1>1, <1>2 DEF Work

LEMMA FriendsStep ==
    ASSUME Requests, NEW w \in Worker, FriendsNext(w)
    PROVE  Step(w)
<1>1. ASSUME NEW me \in User, NEW other \in User,
             \/ SendFriendRequest(w, me, other) \/ AcceptFriendRequest(w, me, other)
             \/ RemoveRequest(w, me, other) \/ Unfriend(w, me, other)
             \/ BlockRequest(w, me, other) \/ UnblockUser(w, me, other)
      PROVE  Step(w)
  <2>1. PICK op \in PairOps, at \in {"blocked", "incoming", "go"} :
           /\ Begin(w, op, {{me, other}}, <<me, other>>, at) /\ UNCHANGED agreed
           /\ op = "send" => at = "blocked"
           /\ op = "accept" => at = "incoming"
    BY <1>1 DEF SendFriendRequest, AcceptFriendRequest, RemoveRequest, Unfriend,
                BlockRequest, UnblockUser, PairOps, Pair
  <2>2. op \notin {"idle", "open", "offer", "redeem"} BY DEF PairOps
  <2> QED BY <2>1, <2>2, BeginStep
<1> QED BY <1>1, SendStopsStep, MeetsStep, UpsertsStep, BlindStep DEF FriendsNext

LEMMA InvitesStep ==
    ASSUME Requests, NEW w \in Worker, InvitesNext(w)
    PROVE  Step(w)
<1>1. UNCHANGED agreed BY DEF InvitesNext
<1>2. ASSUME NEW o \in User, GetInviteOffer(w, o) PROVE Step(w)
  <2>1. Begin(w, "offer", {{o}, User}, <<o>>, "owner") BY <1>2 DEF GetInviteOffer
  <2> QED BY <1>1, <2>1, BeginStep
<1>3. ASSUME NEW x \in User, NEW c \in Code, RedeemInvite(w, x, c) PROVE Step(w)
  <2>1. Begin(w, "redeem", {{}}, <<x, c>>, "invite") BY <1>3 DEF RedeemInvite
  <2> QED BY <1>1, <2>1, BeginStep
<1> QED BY <1>1, <1>2, <1>3, OffersStep, RedeemsStep DEF InvitesNext

LEMMA ThreadsStep ==
    ASSUME Requests, NEW w \in Worker, ThreadsNext(w)
    PROVE  Step(w)
<1>1. UNCHANGED agreed BY DEF ThreadsNext
<1>2. ASSUME NEW me \in User, NEW other \in User, OpenThread(w, me, other) PROVE Step(w)
  <2>1. Begin(w, "open", {{me, other}}, <<me, other>>, "list") BY <1>2 DEF OpenThread, Pair
  <2> QED BY <1>1, <2>1, BeginStep
<1>3. ASSUME NEW x \in User, NEW t \in 1..requests, SendThreadMessage(w, x, t) PROVE Step(w)
  <2>1. Begin(w, "message", {}, <<x, t>>, "thread") BY <1>3 DEF SendThreadMessage
  <2> QED BY <1>1, <2>1, BeginStep
<1>4. ASSUME NEW x \in User, ToggleActivityReaction(w, x) PROVE Step(w)
  <2>1. Begin(w, "toggle", {{x}}, <<x>>, "read") BY <1>4 DEF ToggleActivityReaction
  <2> QED BY <1>1, <2>1, BeginStep
<1> QED BY <1>1, <1>2, <1>3, <1>4, TalkStep DEF ThreadsNext

\* Every step is one of the six, by one worker.
LEMMA Steps ==
    ASSUME Requests, Next
    PROVE  Requests' /\ \E w \in Worker : Step(w)
<1>1. Requests' BY RequestsNextGood
<1>2. PICK w \in Worker :
         FriendsNext(w) \/ InvitesNext(w) \/ ThreadsNext(w) \/ Work(w)
  BY DEF Next
<1> QED BY <1>1, <1>2, FriendsStep, InvitesStep, ThreadsStep, WorkStep

-----------------------------------------------------------------------------
(* The keys that are written.                                              *)

PutsOf(T) == {z.key : z \in {v \in T : v.do = "put"}}
DeletesOf(T) == {z.key : z \in {v \in T : v.do = "delete"}}

\* What w still has to write.
PutKeys(w) == PutsOf(Planned(call[w].todo))
DeleteKeys(w) == DeletesOf(Planned(call[w].todo))

\* The keys that are there when w has made the writes it has planned.
Coming(w) == (DOMAIN items \ DeleteKeys(w)) \cup PutKeys(w)

LEMMA NoKeys ==
    ASSUME NEW w \in Worker
    PROVE  /\ call[w].todo = <<>> =>
                 PutKeys(w) = {} /\ DeleteKeys(w) = {} /\ Coming(w) = DOMAIN items
           /\ call'[w].todo = <<>> =>
                 PutKeys(w)' = {} /\ DeleteKeys(w)' = {} /\ Coming(w)' = DOMAIN items'
BY NoPlan DEF PutKeys, DeleteKeys, Coming, PutsOf, DeletesOf

LEMMA WriteKeys ==
    ASSUME NEW key
    PROVE  /\ Put(key, TRUE).do = "put" /\ Put(key, TRUE).key = key
           /\ Delete(key).do = "delete" /\ Delete(key).key = key
BY DEF Put, Delete

\* What the plans about a pair write and delete.
LEMMA PairPlans ==
    ASSUME NEW x, NEW y
    PROVE  LET edges == {Friend(x, y), Friend(y, x)}
               asked == {RequestIn(x, y), RequestIn(y, x), RequestOut(x, y), RequestOut(y, x)}
           IN  /\ PutsOf(BefriendWrites(x, y)) = edges
               /\ DeletesOf(BefriendWrites(x, y)) = asked
               /\ PutsOf(UpsertWrites(x, y)) = {RequestIn(x, y), RequestOut(x, y)}
               /\ DeletesOf(UpsertWrites(x, y)) = {}
               /\ PutsOf(RejectWrites(x, y)) = {} /\ DeletesOf(RejectWrites(x, y)) = asked
               /\ PutsOf(UnfriendWrites(x, y)) = {} /\ DeletesOf(UnfriendWrites(x, y)) = edges
               /\ PutsOf(BlockWrites(x, y)) = {Block(x, y)}
               /\ DeletesOf(BlockWrites(x, y)) = edges \cup asked
               /\ PutsOf({Delete(Block(x, y))}) = {}
               /\ DeletesOf({Delete(Block(x, y))}) = {Block(x, y)}
<1> DEFINE f1 == Put(Friend(x, y), TRUE)
           f2 == Put(Friend(y, x), TRUE)
           r1 == Put(RequestIn(x, y), TRUE)
           r2 == Put(RequestOut(x, y), TRUE)
           b == Put(Block(x, y), TRUE)
           d1 == Delete(RequestIn(y, x))
           d2 == Delete(RequestOut(y, x))
           d3 == Delete(RequestIn(x, y))
           d4 == Delete(RequestOut(x, y))
           e1 == Delete(Friend(x, y))
           e2 == Delete(Friend(y, x))
           c == Delete(Block(x, y))
<1>1. /\ f1.do = "put" /\ f2.do = "put" /\ r1.do = "put" /\ r2.do = "put" /\ b.do = "put"
      /\ f1.key = Friend(x, y) /\ f2.key = Friend(y, x)
      /\ r1.key = RequestIn(x, y) /\ r2.key = RequestOut(x, y) /\ b.key = Block(x, y)
  BY WriteKeys
<1>2. /\ d1.do = "delete" /\ d2.do = "delete" /\ d3.do = "delete" /\ d4.do = "delete"
      /\ e1.do = "delete" /\ e2.do = "delete" /\ c.do = "delete"
      /\ d1.key = RequestIn(y, x) /\ d2.key = RequestOut(y, x)
      /\ d3.key = RequestIn(x, y) /\ d4.key = RequestOut(x, y)
      /\ e1.key = Friend(x, y) /\ e2.key = Friend(y, x) /\ c.key = Block(x, y)
  BY WriteKeys
<1>3. /\ BefriendWrites(x, y) = {f1, f2, d1, d2, d3, d4}
      /\ UpsertWrites(x, y) = {r1, r2}
      /\ RejectWrites(x, y) = {d1, d2, d3, d4}
      /\ UnfriendWrites(x, y) = {e1, e2}
      /\ BlockWrites(x, y) = {b, e1, e2, d3, d4, d1, d2}
      /\ {Delete(Block(x, y))} = {c}
  BY Zenon DEF BefriendWrites, UpsertWrites, RejectWrites, UnfriendWrites, BlockWrites
<1> HIDE DEF f1, f2, r1, r2, b, d1, d2, d3, d4, e1, e2, c
<1>4. /\ PutsOf({f1, f2, d1, d2, d3, d4}) = {f1.key, f2.key}
      /\ DeletesOf({f1, f2, d1, d2, d3, d4}) = {d1.key, d2.key, d3.key, d4.key}
      /\ PutsOf({r1, r2}) = {r1.key, r2.key} /\ DeletesOf({r1, r2}) = {}
      /\ PutsOf({d1, d2, d3, d4}) = {}
      /\ DeletesOf({d1, d2, d3, d4}) = {d1.key, d2.key, d3.key, d4.key}
      /\ PutsOf({e1, e2}) = {} /\ DeletesOf({e1, e2}) = {e1.key, e2.key}
      /\ PutsOf({b, e1, e2, d3, d4, d1, d2}) = {b.key}
      /\ DeletesOf({b, e1, e2, d3, d4, d1, d2}) =
            {e1.key, e2.key, d3.key, d4.key, d1.key, d2.key}
      /\ PutsOf({c}) = {} /\ DeletesOf({c}) = {c.key}
  BY <1>1, <1>2 DEF PutsOf, DeletesOf
<1>5. /\ {d1.key, d2.key, d3.key, d4.key} =
            {RequestIn(x, y), RequestIn(y, x), RequestOut(x, y), RequestOut(y, x)}
      /\ {e1.key, e2.key, d3.key, d4.key, d1.key, d2.key} =
            {Friend(x, y), Friend(y, x)} \cup
            {RequestIn(x, y), RequestIn(y, x), RequestOut(x, y), RequestOut(y, x)}
  BY <1>2
<1> QED BY <1>1, <1>2, <1>3, <1>4, <1>5

\* The write z of w.
Wrote(w, z) ==
    /\ z \in Head(call[w].todo)
    /\ z.key \in PutKeys(w) \cup DeleteKeys(w)
    /\ DOMAIN items' \ {z.key} = DOMAIN items \ {z.key}
    /\ z.key \in DOMAIN items' <=> z.key \in PutKeys(w)
    /\ \A k \in DOMAIN items \ {z.key} : items'[k] = items[k]
    /\ z.key \in PutKeys(w) => items'[z.key] = z.val
    /\ PutKeys(w)' = PutKeys(w) \ {z.key}

\* One write: a key comes or goes, and is no longer due.
LEMMA OneWrite ==
    ASSUME Requests, NEW w \in Worker, Writes(w)
    PROVE  /\ Coming(w)' = Coming(w)
           /\ PutKeys(w)' \subseteq PutKeys(w) /\ DeleteKeys(w)' \subseteq DeleteKeys(w)
           /\ \E z \in Planned(call[w].todo) : Wrote(w, z)
<1>1. PICK z \in Head(call[w].todo) :
         LET T == Planned(call[w].todo)
         IN  /\ z \in T /\ items' = After(z)
             /\ \A y \in T \ {z} : y.key # z.key
             /\ Planned(call'[w].todo) = T \ {z}
  BY DEF Writes
<1> DEFINE T == Planned(call[w].todo)
<1>2. z.do \in {"put", "delete"} BY <1>1, WhoWrites DEF Requests
<1>3. Planned(call[w].todo)' = T \ {z} BY <1>1
<1>4. /\ PutKeys(w) = PutsOf(T) /\ DeleteKeys(w) = DeletesOf(T)
      /\ PutKeys(w)' = PutsOf(T \ {z}) /\ DeleteKeys(w)' = DeletesOf(T \ {z})
  BY <1>3 DEF PutKeys, DeleteKeys
<1>5. z \in T /\ \A y \in T \ {z} : y.key # z.key BY <1>1
<1> HIDE DEF T
<1>6. CASE z.do = "put"
  <2>1. /\ DOMAIN items' = DOMAIN items \cup {z.key} /\ items'[z.key] = z.val
        /\ \A key \in DOMAIN items \ {z.key} : items'[key] = items[key]
    BY <1>1, <1>6, PutFacts
  <2>2. /\ z.key \in PutsOf(T) /\ z.key \notin DeletesOf(T)
        /\ PutsOf(T \ {z}) = PutsOf(T) \ {z.key} /\ DeletesOf(T \ {z}) = DeletesOf(T)
    BY <1>5, <1>6 DEF PutsOf, DeletesOf
  <2>3. Coming(w)' = Coming(w) BY <1>4, <2>1, <2>2 DEF Coming
  <2>4. Wrote(w, z) BY <1>4, <2>1, <2>2 DEF Wrote
  <2> QED BY <1>4, <1>5, <2>2, <2>3, <2>4 DEF T
<1>7. CASE z.do = "delete"
  <2>1. /\ DOMAIN items' = DOMAIN items \ {z.key}
        /\ \A key \in DOMAIN items' : items'[key] = items[key]
    BY <1>1, <1>7, DeleteFacts
  <2>2. /\ z.key \in DeletesOf(T) /\ z.key \notin PutsOf(T)
        /\ DeletesOf(T \ {z}) = DeletesOf(T) \ {z.key} /\ PutsOf(T \ {z}) = PutsOf(T)
    BY <1>5, <1>7 DEF PutsOf, DeletesOf
  <2>3. Coming(w)' = Coming(w) BY <1>4, <2>1, <2>2 DEF Coming
  <2>4. Wrote(w, z) BY <1>4, <2>1, <2>2 DEF Wrote
  <2> QED BY <1>4, <1>5, <2>2, <2>3, <2>4 DEF T
<1> QED BY <1>2, <1>6, <1>7

\* The keys that are about the pair.
KeysOf(x, y) ==
    {Friend(x, y), Friend(y, x), RequestIn(x, y), RequestIn(y, x),
     RequestOut(x, y), RequestOut(y, x), Block(x, y), Block(y, x)}

\* Only a request about the pair writes them.
LEMMA PairWriter ==
    ASSUME Requests, NEW w \in Worker, NEW x, NEW y,
           NEW key \in KeysOf(x, y), key \in PutKeys(w) \cup DeleteKeys(w)
    PROVE  call[w].op \in PairOps /\ {x, y} \in call[w].on
<1>1. PICK z \in Planned(call[w].todo) : z.key = key
  BY DEF PutKeys, DeleteKeys, PutsOf, DeletesOf
<1>2. key[1] \in {"FRIEND", "REQUEST_IN", "REQUEST_OUT", "BLOCK"}
  BY DEF KeysOf, Friend, RequestIn, RequestOut, Block
<1> DEFINE a == call[w].arg[1]
           b == call[w].arg[2]
<1>3. call[w].op \in PairOps /\ z \in PairWrites(a, b)
  BY <1>1, <1>2, WhoWrites DEF Requests
<1>4. call[w].on = {{a, b}} BY <1>3 DEF Requests, GoodCall, PairCall
<1> HIDE DEF a, b
<1>5. z.key \in {Friend(a, b), Friend(b, a), RequestIn(a, b), RequestIn(b, a),
                 RequestOut(a, b), RequestOut(b, a), Block(a, b)}
  BY <1>3, PairKeys
<1>6. {a, b} = {x, y}
  BY <1>1, <1>5 DEF KeysOf, Friend, RequestIn, RequestOut, Block
<1> QED BY <1>3, <1>4, <1>6

LEMMA OtherKeys ==
    ASSUME NEW v \in Worker, call'[v] = call[v]
    PROVE  PutKeys(v)' = PutKeys(v) /\ DeleteKeys(v)' = DeleteKeys(v)
BY DEF PutKeys, DeleteKeys

\* The plans that are not about friends and blocks.
LEMMA OtherPlans ==
    ASSUME NEW T, NEW x, NEW y, NEW o, NEW t,
           \/ T = {Put(InviteOwner(x), y), Put(Invite(y), x)}
           \/ T = RedeemWrites(y, o, x)
           \/ T = ThreadWrites(t, x, y)
           \/ T = {Put(Message(y, t), x)}
           \/ T \subseteq ToggleWrites(x)
    PROVE  \A a, b : (PutsOf(T) \cup DeletesOf(T)) \cap KeysOf(a, b) = {}
<1> DEFINE kinds == {"INVITE_OWNER", "INVITE", "REDEMPTION", "INVITER", "THREAD", "USER_THREAD",
                     "MESSAGE", "REACTION"}
<1>1. ASSUME NEW z \in T PROVE z.key[1] \in kinds
  <2>1. CASE T = {Put(InviteOwner(x), y), Put(Invite(y), x)}
    BY <1>1, <2>1, OfferKeys DEF InviteOwner, Invite
  <2>2. CASE T = RedeemWrites(y, o, x)
    BY <1>1, <2>2, RedeemKeys DEF Redemption, Counted
  <2>3. CASE T = ThreadWrites(t, x, y)
    BY <1>1, <2>3, ThreadKeys DEF Thread, Listed
  <2>4. CASE T = {Put(Message(y, t), x)} BY <1>1, <2>4 DEF Put, Message
  <2>5. CASE T \subseteq ToggleWrites(x) BY <1>1, <2>5, ToggleKeys DEF Reaction
  <2> QED BY <2>1, <2>2, <2>3, <2>4, <2>5
<1>2. \A key \in PutsOf(T) \cup DeletesOf(T) : key[1] \in kinds
  BY <1>1 DEF PutsOf, DeletesOf
<1>3. \A a, b : \A key \in KeysOf(a, b) :
         key[1] \in {"FRIEND", "REQUEST_IN", "REQUEST_OUT", "BLOCK"}
  BY DEF KeysOf, Friend, RequestIn, RequestOut, Block
<1> QED BY <1>2, <1>3

\* What w plans is about its pair, or not about friends and blocks.
LEMMA PlanKeys ==
    ASSUME NEW w \in Worker, Plans(w)
    PROVE  LET k == call[w]
               x == k.arg[1]
               y == k.arg[2]
               edges == {Friend(x, y), Friend(y, x)}
               asked == {RequestIn(x, y), RequestIn(y, x), RequestOut(x, y), RequestOut(y, x)}
           IN  \/ /\ k.op \in {"send", "accept"} /\ Has(RequestIn(y, x))
                  /\ PutKeys(w)' = edges /\ DeleteKeys(w)' = asked
                  /\ agreed' = agreed \cup {<<x, y>>}
               \/ /\ k.op = "send" /\ k.at = "outgoing"
                  /\ PutKeys(w)' = {RequestIn(x, y), RequestOut(x, y)} /\ DeleteKeys(w)' = {}
                  /\ agreed' = agreed \cup {<<x, y>>}
               \/ /\ agreed' = agreed
                  /\ \/ /\ k.op = "reject"
                        /\ PutKeys(w)' = {} /\ DeleteKeys(w)' = asked
                     \/ /\ k.op = "unfriend"
                        /\ PutKeys(w)' = {} /\ DeleteKeys(w)' = edges
                     \/ /\ k.op = "block"
                        /\ PutKeys(w)' = {Block(x, y)} /\ DeleteKeys(w)' = edges \cup asked
                     \/ /\ k.op = "unblock"
                        /\ PutKeys(w)' = {} /\ DeleteKeys(w)' = {Block(x, y)}
                     \/ /\ k.op \notin PairOps
                        /\ \A a, b : (PutKeys(w)' \cup DeleteKeys(w)') \cap KeysOf(a, b) = {}
<1> DEFINE k == call[w]
           x == k.arg[1]
           y == k.arg[2]
           T == Planned(call'[w].todo)
<1>1. PutKeys(w)' = PutsOf(T) /\ DeleteKeys(w)' = DeletesOf(T) BY DEF PutKeys, DeleteKeys
<1>2. \/ /\ k.op \in {"send", "accept"} /\ Has(RequestIn(y, x)) /\ T = BefriendWrites(x, y)
         /\ agreed' = agreed \cup {<<x, y>>}
      \/ /\ k.op = "send" /\ k.at = "outgoing" /\ T = UpsertWrites(x, y)
         /\ agreed' = agreed \cup {<<x, y>>}
      \/ agreed' = agreed /\ k.op = "reject" /\ T = RejectWrites(x, y)
      \/ agreed' = agreed /\ k.op = "unfriend" /\ T = UnfriendWrites(x, y)
      \/ agreed' = agreed /\ k.op = "block" /\ T = BlockWrites(x, y)
      \/ agreed' = agreed /\ k.op = "unblock" /\ T = {Delete(Block(x, y))}
      \/ /\ agreed' = agreed /\ k.op \in {"offer", "redeem", "open", "message", "toggle"}
         /\ \/ T = {Put(InviteOwner(x), y), Put(Invite(y), x)}
            \/ T = RedeemWrites(y, k.arg[3], x)
            \/ T = ThreadWrites(k.id, x, y)
            \/ T = {Put(Message(y, k.id), x)}
            \/ T \subseteq ToggleWrites(x)
  BY DEF Plans
<1>3. \A op \in {"offer", "redeem", "open", "message", "toggle"} : op \notin PairOps
  BY DEF PairOps
<1> HIDE DEF T
<1>4. CASE T = BefriendWrites(x, y) /\ agreed' = agreed \cup {<<x, y>>}
           /\ k.op \in {"send", "accept"} /\ Has(RequestIn(y, x))
  BY <1>1, <1>4, PairPlans
<1>5. CASE T = UpsertWrites(x, y) /\ agreed' = agreed \cup {<<x, y>>}
           /\ k.op = "send" /\ k.at = "outgoing"
  BY <1>1, <1>5, PairPlans
<1>6. CASE agreed' = agreed /\ k.op = "reject" /\ T = RejectWrites(x, y)
  BY <1>1, <1>6, PairPlans
<1>7. CASE agreed' = agreed /\ k.op = "unfriend" /\ T = UnfriendWrites(x, y)
  BY <1>1, <1>7, PairPlans
<1>8. CASE agreed' = agreed /\ k.op = "block" /\ T = BlockWrites(x, y)
  BY <1>1, <1>8, PairPlans
<1>9. CASE agreed' = agreed /\ k.op = "unblock" /\ T = {Delete(Block(x, y))}
  <2> DEFINE S == {Delete(Block(x, y))}
  <2>1. PutsOf(S) = {} /\ DeletesOf(S) = {Block(x, y)} BY PairPlans
  <2>2. T = S BY <1>9
  <2> HIDE DEF S
  <2> QED BY <1>1, <1>9, <2>1, <2>2
<1>10. CASE /\ agreed' = agreed /\ k.op \in {"offer", "redeem", "open", "message", "toggle"}
            /\ \/ T = {Put(InviteOwner(x), y), Put(Invite(y), x)}
               \/ T = RedeemWrites(y, k.arg[3], x)
               \/ T = ThreadWrites(k.id, x, y)
               \/ T = {Put(Message(y, k.id), x)}
               \/ T \subseteq ToggleWrites(x)
  <2>1. \A a, b : (PutsOf(T) \cup DeletesOf(T)) \cap KeysOf(a, b) = {}
    BY <1>10, OtherPlans
  <2> QED BY <1>1, <1>3, <1>10, <2>1
<1> QED BY <1>2, <1>4, <1>5, <1>6, <1>7, <1>8, <1>9, <1>10


-----------------------------------------------------------------------------
(* Friends are two users who have both said so.                            *)

AgreedKeys(S) ==
    \A x, y \in User :
        /\ Friend(x, y) \in S => <<x, y>> \in agreed /\ <<y, x>> \in agreed
        /\ RequestIn(x, y) \in S => <<x, y>> \in agreed

Agreed == AgreedKeys(DOMAIN items) /\ \A w \in Worker : AgreedKeys(PutKeys(w))

LEMMA AgreedInit == Init => Agreed
<1> SUFFICES ASSUME Init PROVE Agreed OBVIOUS
<1>1. DOMAIN items = {} /\ call = [w \in Worker |-> Idle] BY DEF Init, TableInit
<1>2. \A w \in Worker : PutKeys(w) = {} BY <1>1, NoKeys, IdleCall
<1> QED BY <1>1, <1>2 DEF Agreed, AgreedKeys

LEMMA AgreedStep ==
    ASSUME Requests, Agreed, NEW w \in Worker, Step(w)
    PROVE  Agreed'
<1>1. \A S, T : AgreedKeys(S) /\ AgreedKeys(T) => AgreedKeys(S \cup T)
  BY DEF AgreedKeys
<1>2. \A S, T : AgreedKeys(S) /\ T \subseteq S => AgreedKeys(T) BY DEF AgreedKeys
<1> DEFINE x == call[w].arg[1]
           y == call[w].arg[2]
<1>3. agreed \subseteq agreed' BY PlanKeys DEF Step, Begins, Moves, Ends, Writes, Crashes, Quiet
<1>4. \A S : AgreedKeys(S) => AgreedKeys(S)' BY <1>3 DEF AgreedKeys
<1>5. DOMAIN items' \subseteq DOMAIN items \cup PutKeys(w)
  <2>1. CASE Writes(w) BY <2>1, OneWrite DEF Wrote
  <2>2. CASE ~Writes(w)
    BY <2>2 DEF Step, Begins, Moves, Ends, Plans, Crashes, Quiet
  <2> QED BY <2>1, <2>2
<1>6. AgreedKeys(DOMAIN items)'
  <2>1. AgreedKeys(DOMAIN items \cup PutKeys(w)) BY <1>1 DEF Agreed
  <2>2. AgreedKeys(DOMAIN items') BY <1>2, <1>5, <2>1
  <2> QED BY <1>3, <2>2 DEF AgreedKeys
<1>7. AgreedKeys(PutKeys(w))'
  <2>1. CASE Plans(w)
    <3>1. CASE PutKeys(w)' = {Friend(x, y), Friend(y, x)} /\ Has(RequestIn(y, x))
               /\ agreed' = agreed \cup {<<x, y>>} /\ call[w].op \in PairOps
      <4>1. x \in User /\ y \in User BY <3>1, MePair DEF Me, Other
      <4>2. <<y, x>> \in agreed BY <3>1, <4>1 DEF Agreed, AgreedKeys, Has
      <4> QED BY <3>1, <4>2 DEF AgreedKeys, Friend, RequestIn
    <3>2. CASE PutKeys(w)' = {RequestIn(x, y), RequestOut(x, y)}
               /\ agreed' = agreed \cup {<<x, y>>}
      BY <3>2 DEF AgreedKeys, Friend, RequestIn, RequestOut
    <3>3. CASE PutKeys(w)' \subseteq {Block(x, y)}
      BY <3>3 DEF AgreedKeys, Friend, RequestIn, Block
    <3>4. CASE \A a, b : (PutKeys(w)' \cup DeleteKeys(w)') \cap KeysOf(a, b) = {}
      BY <3>4 DEF AgreedKeys, KeysOf
    <3> QED BY <2>1, <3>1, <3>2, <3>3, <3>4, PlanKeys DEF PairOps
  <2>2. CASE Writes(w)
    <3>1. PutKeys(w)' \subseteq PutKeys(w) /\ AgreedKeys(PutKeys(w)) BY <2>2, OneWrite DEF Agreed
    <3>2. AgreedKeys(PutKeys(w)') BY <1>2, <3>1
    <3> QED BY <1>3, <3>2 DEF AgreedKeys
  <2>3. CASE Begins(w) \/ Moves(w) \/ Ends(w) \/ Crashes(w)
    <3>1. call'[w].todo = <<>> BY <2>3, IdleCall DEF Begins, Moves, Ends, Crashes
    <3> QED BY <3>1, NoKeys DEF AgreedKeys
  <2> QED BY <2>1, <2>2, <2>3 DEF Step
<1>8. ASSUME NEW v \in Worker \ {w} PROVE AgreedKeys(PutKeys(v))'
  <2>1. PutKeys(v)' = PutKeys(v) BY OtherKeys DEF Step
  <2> QED BY <1>3, <2>1 DEF Agreed, AgreedKeys
<1> QED BY <1>6, <1>7, <1>8 DEF Agreed

-----------------------------------------------------------------------------
(* The facts about a pair.                                                 *)

\* The facts about a pair agree, among the keys S.
Clean(S, x, y) ==
    /\ Friend(x, y) \in S <=> Friend(y, x) \in S
    /\ RequestIn(x, y) \in S <=> RequestOut(x, y) \in S
    /\ RequestIn(y, x) \in S <=> RequestOut(y, x) \in S
    /\ Block(x, y) \in S \/ Block(y, x) \in S =>
          /\ Friend(x, y) \notin S
          /\ RequestIn(x, y) \notin S /\ RequestIn(y, x) \notin S

\* What a send has read.
Knows(w) ==
    LET k == call[w]
        x == k.arg[1]
        y == k.arg[2]
    IN  k.op = "send" =>
           /\ k.at \in {"blockedBy", "friend", "incoming", "outgoing"} => ~Has(Block(x, y))
           /\ k.at \in {"friend", "incoming", "outgoing"} => ~Has(Block(y, x))

OneAt(subject) ==
    \A v, w \in Worker : subject \in call[v].on /\ subject \in call[w].on => v = w

Paired(x, y) ==
    /\ OneAt({x, y})
    /\ AtRest({x, y}) => Clean(DOMAIN items, x, y)
    /\ \A w \in Worker : {x, y} \in call[w].on => Clean(Coming(w), x, y) /\ Knows(w)

Pairs ==
    /\ \A x, y \in User : x # y /\ Orderly({x, y}) => Paired(x, y)
    /\ \A x \in User : ~Has(Block(x, x))

LEMMA CleanAlike ==
    ASSUME NEW x, NEW y, NEW S, NEW T, Clean(S, x, y),
           \A key \in KeysOf(x, y) : key \in S <=> key \in T
    PROVE  Clean(T, x, y)
BY DEF Clean, KeysOf

\* A request gets no new subjects.
LEMMA SubjectsKept ==
    ASSUME NEW w \in Worker, Step(w), ~Begins(w)
    PROVE  call'[w].on \subseteq call[w].on
<1>1. CASE Moves(w) \/ Plans(w) BY <1>1 DEF Moves, Plans
<1>2. CASE Ends(w) \/ Crashes(w) BY <1>2, IdleCall DEF Ends, Crashes
<1>3. CASE Writes(w)
  <2>1. PICK todo : call'[w] = Idle \/ call'[w] = With(call[w], todo, "done")
    BY <1>3 DEF Writes
  <2> QED BY <2>1, IdleCall DEF With
<1> QED BY <1>1, <1>2, <1>3 DEF Step

LEMMA OneAtKept ==
    ASSUME NEW subject, NEW w \in Worker, Step(w),
           subject \notin shared', subject \notin shared => OneAt(subject)
    PROVE  /\ subject \notin shared
           /\ OneAt(subject)'
           /\ Begins(w) /\ subject \in call'[w].on => AtRest(subject)
           /\ subject \in call[w].on => \A v \in Worker \ {w} : subject \notin call[v].on
<1>1. shared \subseteq shared' BY DEF Step, Begins, Moves, Ends, Plans, Writes, Crashes, Quiet
<1>2. OneAt(subject) /\ \A v \in Worker \ {w} : call'[v] = call[v] BY <1>1 DEF Step
<1>3. CASE Begins(w)
  <2>1. subject \in call'[w].on => \A v \in Worker \ {w} : subject \notin call[v].on
    BY <1>3 DEF Begins
  <2>2. call[w].on = {} BY <1>3, IdleCall DEF Begins
  <2>3. subject \in call'[w].on => AtRest(subject) BY <2>1, <2>2 DEF AtRest
  <2>4. \A u, v \in Worker \ {w} : subject \in call'[u].on /\ subject \in call'[v].on => u = v
    BY <1>2 DEF OneAt
  <2>5. OneAt(subject)' BY <1>2, <2>1, <2>4 DEF OneAt
  <2> QED BY <1>1, <2>2, <2>3, <2>5
<1>4. CASE ~Begins(w)
  <2>1. call'[w].on \subseteq call[w].on
    BY <1>4, SubjectsKept
  <2> QED BY <1>1, <1>2, <1>4, <2>1 DEF OneAt
<1> QED BY <1>3, <1>4

LEMMA PairedStep ==
    ASSUME Requests, Pairs, NEW w \in Worker, Step(w),
           NEW x \in User, NEW y \in User, x # y, Orderly({x, y})'
    PROVE  Paired(x, y)'
<1>1. Orderly({x, y}) /\ Paired(x, y)
  <2>1. shared \subseteq shared' /\ torn \subseteq torn'
    BY DEF Step, Begins, Moves, Ends, Plans, Writes, Crashes, Quiet
  <2>2. Orderly({x, y}) BY <2>1 DEF Orderly
  <2> QED BY <2>2 DEF Pairs
<1>2. /\ OneAt({x, y})'
      /\ Begins(w) /\ {x, y} \in call'[w].on => AtRest({x, y})
      /\ {x, y} \in call[w].on => \A v \in Worker \ {w} : {x, y} \notin call[v].on
  BY <1>1, OneAtKept DEF Orderly, Paired
<1>3. \A v \in Worker \ {w} : call'[v] = call[v] BY DEF Step
<1>4. CASE {x, y} \notin call[w].on /\ {x, y} \notin call'[w].on
  <2>2. \A key \in KeysOf(x, y) : key \in DOMAIN items' <=> key \in DOMAIN items
    <3>1. CASE Writes(w)
      <4>1. PICK z : Wrote(w, z) BY <3>1, OneWrite
      <4>2. z.key \notin KeysOf(x, y) BY <1>4, <4>1, PairWriter DEF Wrote
      <4> QED BY <4>1, <4>2 DEF Wrote
    <3>2. CASE ~Writes(w)
      BY <1>4, <3>2 DEF Step, Begins, Moves, Ends, Plans, Crashes, Quiet
    <3> QED BY <3>1, <3>2
  <2>3. AtRest({x, y})' => Clean(DOMAIN items, x, y)' 
    <3>1. AtRest({x, y})' => AtRest({x, y}) BY <1>3, <1>4 DEF AtRest
    <3>2. AtRest({x, y}) => Clean(DOMAIN items, x, y) BY <1>1 DEF Paired
    <3>3. Clean(DOMAIN items, x, y) => Clean(DOMAIN items', x, y) BY <2>2, CleanAlike
    <3> QED BY <3>1, <3>2, <3>3 DEF Clean
  <2>4. ASSUME NEW v \in Worker, {x, y} \in call'[v].on
        PROVE  Clean(Coming(v), x, y)' /\ Knows(v)'
    <3>1. v # w /\ call'[v] = call[v] BY <1>3, <1>4, <2>4
    <3>2. Clean(Coming(v), x, y) /\ Knows(v) BY <1>1, <2>4, <3>1 DEF Paired
    <3>3. PutKeys(v)' = PutKeys(v) /\ DeleteKeys(v)' = DeleteKeys(v) BY <3>1, OtherKeys
    <3>4. \A key \in KeysOf(x, y) : key \in Coming(v) <=> key \in Coming(v)'
      BY <2>2, <3>3 DEF Coming
    <3>5. Clean(Coming(v)', x, y) BY <3>2, <3>4, CleanAlike
    <3>6. Knows(v)'
      <4> DEFINE a == call[v].arg[1]
                 b == call[v].arg[2]
      <4> SUFFICES ASSUME call[v].op = "send" PROVE Knows(v)'
        BY <3>1 DEF Knows
      <4>1. {a, b} = {x, y} BY <2>4, <3>1, MePair DEF PairOps, Me, Other
      <4>2. Block(a, b) \in KeysOf(x, y) /\ Block(b, a) \in KeysOf(x, y)
        BY <4>1 DEF KeysOf
      <4> QED BY <2>2, <3>1, <3>2, <4>2 DEF Knows, Has
    <3> QED BY <3>5, <3>6 DEF Clean
  <2> QED BY <1>2, <2>3, <2>4 DEF Paired
<1>5. ASSUME {x, y} \in call[w].on \/ {x, y} \in call'[w].on,
             Clean(Coming(w)', x, y),
             {x, y} \in call'[w].on => Knows(w)',
             {x, y} \notin call'[w].on => call'[w].todo = <<>>
      PROVE  Paired(x, y)'
  <2>1. \A v \in Worker \ {w} : {x, y} \notin call'[v].on
    <3>1. CASE {x, y} \in call[w].on BY <1>2, <1>3, <3>1
    <3>2. CASE {x, y} \notin call[w].on
      <4>1. Begins(w) BY <1>5, <3>2, SubjectsKept
      <4> QED BY <1>2, <1>3, <1>5, <3>2, <4>1 DEF AtRest
    <3> QED BY <3>1, <3>2
  <2>2. Clean(Coming(w), x, y)' BY <1>5 DEF Clean
  <2>3. ASSUME AtRest({x, y})' PROVE Clean(DOMAIN items, x, y)'
    <3>1. call'[w].todo = <<>> BY <1>5, <2>3 DEF AtRest
    <3>2. Coming(w)' = DOMAIN items' BY <3>1, NoKeys
    <3> QED BY <1>5, <3>2 DEF Clean
  <2> QED BY <1>2, <1>5, <2>1, <2>2, <2>3 DEF Paired
<1>6. CASE Begins(w) /\ {x, y} \in call'[w].on
  <2>1. Clean(DOMAIN items, x, y) BY <1>1, <1>2, <1>6 DEF Paired
  <2>2. call'[w].todo = <<>> /\ items' = items BY <1>6 DEF Begins
  <2>3. Coming(w)' = DOMAIN items BY <2>2, NoKeys
  <2>4. Knows(w)' BY <1>6 DEF Begins, Knows
  <2> QED BY <1>5, <1>6, <2>1, <2>3, <2>4
<1>7. CASE {x, y} \in call[w].on
  <2>0. Clean(Coming(w), x, y) /\ Knows(w) BY <1>1, <1>7 DEF Paired
  <2>1. CASE Begins(w) BY <1>7, <2>1, IdleCall DEF Begins
  <2>2. CASE Crashes(w) BY <1>7, <2>2 DEF Crashes, Orderly
  <2>3. CASE Ends(w)
    <3>1. /\ call[w].todo = <<>> /\ call'[w].todo = <<>> /\ {x, y} \notin call'[w].on
          /\ items' = items
      BY <2>3, IdleCall DEF Ends, Quiet
    <3>2. Coming(w)' = Coming(w) BY <3>1, NoKeys
    <3> QED BY <1>5, <1>7, <2>0, <3>1, <3>2
  <2>4. CASE Moves(w)
    <3>1. call[w].todo = <<>> /\ call'[w].todo = <<>> /\ call'[w].on = call[w].on /\ items' = items
      BY <2>4 DEF Moves, Quiet
    <3>2. Coming(w)' = Coming(w) BY <3>1, NoKeys
    <3>3. Knows(w)' BY <2>0, <2>4, <3>1 DEF Moves, Knows, Has
    <3> QED BY <1>5, <1>7, <2>0, <3>1, <3>2, <3>3
  <2>5. CASE Writes(w)
    <3>1. Coming(w)' = Coming(w) BY <2>5, OneWrite
    <3>2. call'[w] = Idle \/ (call'[w].on = call[w].on /\ call'[w].at = "done")
      BY <2>5 DEF Writes, With
    <3>3. Knows(w)' BY <3>2, IdleCall DEF Knows
    <3> QED BY <1>5, <1>7, <2>0, <3>1, <3>2, <3>3, IdleCall
  <2>6. CASE Plans(w)
    <3>1. /\ call'[w].on = call[w].on /\ call'[w].at = "done" /\ items' = items
          /\ call[w].todo = <<>>
      BY <2>6 DEF Plans
    <3>2. Knows(w)' BY <3>1 DEF Knows
    <3>3. Coming(w) = DOMAIN items BY <3>1, NoKeys
    <3>4. Clean(DOMAIN items, x, y) BY <2>0, <3>3
    <3> DEFINE a == call[w].arg[1]
               b == call[w].arg[2]
               edges == {Friend(a, b), Friend(b, a)}
               asked == {RequestIn(a, b), RequestIn(b, a), RequestOut(a, b), RequestOut(b, a)}
    <3>5. call[w].op \in PairOps => {a, b} = {x, y} /\ a # b
      BY <1>7, MePair DEF Me, Other
    <3>6. Coming(w)' = (DOMAIN items \ DeleteKeys(w)') \cup PutKeys(w)' BY <3>1 DEF Coming
    <3> DEFINE P == PutKeys(w)'
               D == DeleteKeys(w)'
    <3>7. \/ /\ call[w].op \in PairOps
             /\ \/ Has(RequestIn(b, a)) /\ P = edges /\ D = asked
                \/ /\ call[w].op = "send" /\ call[w].at = "outgoing"
                   /\ P = {RequestIn(a, b), RequestOut(a, b)} /\ D = {}
                \/ P = {} /\ D = asked
                \/ P = {} /\ D = edges
                \/ P = {Block(a, b)} /\ D = edges \cup asked
                \/ P = {} /\ D = {Block(a, b)}
          \/ (P \cup D) \cap KeysOf(x, y) = {}
      BY <2>6, PlanKeys DEF PairOps
    <3> HIDE DEF a, b, P, D
    <3>8. CASE (P \cup D) \cap KeysOf(x, y) = {}
      <4>1. \A key \in KeysOf(x, y) : key \in DOMAIN items <=> key \in Coming(w)'
        BY <3>6, <3>8 DEF P, D
      <4>2. Clean(Coming(w)', x, y) BY <3>4, <4>1, CleanAlike
      <4> QED BY <1>5, <1>7, <3>1, <3>2, <4>2
    <3>9. CASE call[w].op \in PairOps /\ (P \cup D) \cap KeysOf(x, y) # {}
      <4>1. Clean(DOMAIN items, a, b) BY <3>4, <3>5, <3>9 DEF Clean
      <4>2. Clean((DOMAIN items \ D) \cup P, a, b)
        <5>1. call[w].op = "send" /\ call[w].at = "outgoing" =>
                 Block(a, b) \notin DOMAIN items /\ Block(b, a) \notin DOMAIN items
          BY <2>0 DEF Knows, Has, a, b
        <5> QED BY <3>5, <3>7, <3>9, <4>1, <5>1
             DEF Clean, Has, Friend, RequestIn, RequestOut, Block
      <4>3. Clean(Coming(w)', x, y) BY <3>5, <3>6, <3>9, <4>2 DEF Clean, P, D
      <4> QED BY <1>5, <1>7, <3>1, <3>2, <4>3
    <3> QED BY <3>7, <3>8, <3>9
  <2> QED BY <2>1, <2>2, <2>3, <2>4, <2>5, <2>6 DEF Step
<1>8. CASE {x, y} \in call'[w].on /\ ~Begins(w) BY <1>7, <1>8, SubjectsKept
<1> QED BY <1>4, <1>6, <1>7, <1>8

LEMMA PairsInit == Init => Pairs
<1> SUFFICES ASSUME Init PROVE Pairs OBVIOUS
<1>1. DOMAIN items = {} /\ call = [w \in Worker |-> Idle] BY DEF Init, TableInit
<1>2. \A x, y : Paired(x, y)
  BY <1>1, IdleCall DEF Paired, OneAt, Clean
<1> QED BY <1>1, <1>2 DEF Pairs, Has

LEMMA PairsStep ==
    ASSUME Requests, Pairs, NEW w \in Worker, Step(w)
    PROVE  Pairs'
<1>1. ASSUME NEW x \in User, NEW y \in User, x # y, Orderly({x, y})' PROVE Paired(x, y)'
  BY <1>1, PairedStep
<1>2. ASSUME NEW x \in User PROVE ~Has(Block(x, x))'
  <2>1. CASE Writes(w)
    <3>1. PICK z \in Planned(call[w].todo) : Wrote(w, z) BY <2>1, OneWrite
    <3>2. z.key # Block(x, x)
      <4> SUFFICES ASSUME z.key = Block(x, x) PROVE FALSE OBVIOUS
      <4>1. z.key[1] = "BLOCK" BY DEF Block
      <4>2. call[w].op \in PairOps /\ z \in PairWrites(Me(w), Other(w))
        BY <4>1, WhoWrites DEF Requests, Me, Other
      <4>3. Me(w) # Other(w) BY <4>2, MePair
      <4> QED BY <4>2, <4>3, PairKeys DEF Block, Friend, RequestIn, RequestOut
    <3> QED BY <3>1, <3>2 DEF Pairs, Wrote, Has
  <2>2. CASE ~Writes(w)
    <3>1. items' = items BY <2>2 DEF Step, Begins, Moves, Ends, Plans, Crashes, Quiet
    <3> QED BY <3>1 DEF Pairs, Has
  <2> QED BY <2>1, <2>2
<1> QED BY <1>1, <1>2 DEF Pairs

Sound == Requests /\ Agreed /\ Pairs

LEMMA SoundNext == Sound /\ [Next]_vars => Sound'
<1>1. ASSUME Sound, Next PROVE Sound'
  <2>1. PICK w \in Worker : Requests' /\ Step(w) BY <1>1, Steps DEF Sound
  <2> QED BY <1>1, <2>1, AgreedStep, PairsStep DEF Sound
<1>2. ASSUME Sound, UNCHANGED vars PROVE Sound'
  <2>1. UNCHANGED <<items, call, agreed, shared, torn>> BY <1>2 DEF vars, tableVars
  <2>2. Requests' BY <1>2, RequestsNextGood DEF Sound
  <2>3. \A w \in Worker : PutKeys(w)' = PutKeys(w) /\ Coming(w)' = Coming(w)
    BY <2>1 DEF PutKeys, DeleteKeys, Coming
  <2>4. Agreed' BY <1>2, <2>1, <2>3 DEF Sound, Agreed, AgreedKeys
  <2>5. ASSUME NEW x \in User, NEW y \in User, Paired(x, y) PROVE Paired(x, y)'
    <3>1. OneAt({x, y})' /\ (AtRest({x, y})' => AtRest({x, y}))
      BY <2>1, <2>5 DEF Paired, OneAt, AtRest
    <3>2. Clean(DOMAIN items, x, y) => Clean(DOMAIN items, x, y)' BY <2>1 DEF Clean
    <3>3. ASSUME NEW w \in Worker, {x, y} \in call'[w].on
          PROVE  Clean(Coming(w), x, y)' /\ Knows(w)'
      <4>1. Clean(Coming(w), x, y) /\ Knows(w) BY <2>1, <2>5, <3>3 DEF Paired
      <4> QED BY <2>1, <2>3, <4>1 DEF Clean, Knows, Has
    <3> QED BY <2>5, <3>1, <3>2, <3>3 DEF Paired
  <2>6. \A x, y \in User : Orderly({x, y})' => Orderly({x, y}) BY <2>1 DEF Orderly
  <2>7. Pairs' BY <1>2, <2>1, <2>5, <2>6 DEF Sound, Pairs, Has
  <2> QED BY <2>2, <2>4, <2>7 DEF Sound
<1> QED BY <1>1, <1>2

LEMMA SoundAlways == Spec => []Sound
<1>1. Init => Sound BY RequestsInit, AgreedInit, PairsInit DEF Sound
<1> QED BY <1>1, SoundNext, PTL DEF Spec

\* Friends are two users who have both asked or accepted, whatever requests,
\* acceptances, removals and blocks overlap or end in the middle.
THEOREM FriendsWereAgreed == Spec => []EdgesWereAgreed
<1>1. Sound => EdgesWereAgreed
  BY DEF Sound, Agreed, AgreedKeys, EdgesWereAgreed, ListFriends, Has
<1> QED BY <1>1, SoundAlways, PTL

LEMMA RestIsClean ==
    ASSUME Sound, NEW x \in User, NEW y \in User, x # y, AtRest({x, y}), Orderly({x, y})
    PROVE  Clean(DOMAIN items, x, y)
BY DEF Sound, Pairs, Paired

\* A block severs the friendship and the requests of the two users, and none of
\* them comes back while it stands: send_friend_request reads both blocks, and the
\* others write what agrees with what is there.
THEOREM BlocksSever == Spec => []BlockSevers
<1>1. Sound => BlockSevers
  <2> SUFFICES ASSUME Sound, NEW x \in User, NEW y \in ListBlocks(x),
                      AtRest({x, y}), Orderly({x, y})
               PROVE  /\ x \notin ListActivity(y) /\ y \notin ListActivity(x)
                      /\ \A way \in 1..2 :
                            /\ x \notin ListFriendRequests(y)[way]
                            /\ y \notin ListFriendRequests(x)[way]
    BY DEF BlockSevers
  <2>1. y \in User /\ Has(Block(x, y)) BY DEF ListBlocks
  <2>2. x # y BY <2>1 DEF Sound, Pairs
  <2>3. Clean(DOMAIN items, x, y) BY <2>1, <2>2, RestIsClean
  <2>4. /\ ~Has(Friend(x, y)) /\ ~Has(Friend(y, x))
        /\ ~Has(RequestIn(x, y)) /\ ~Has(RequestIn(y, x))
        /\ ~Has(RequestOut(x, y)) /\ ~Has(RequestOut(y, x))
    BY <2>1, <2>3 DEF Clean, Has
  <2>5. \A way \in 1..2 : way = 1 \/ way = 2 OBVIOUS
  <2> QED BY <2>2, <2>4, <2>5 DEF ListActivity, ListFriends, ListFriendRequests
<1> QED BY <1>1, SoundAlways, PTL

\* The suggestions, picked by a user's own rows, are the users whose status is none,
\* and who have not blocked the user: the two rows of every fact agree.
THEOREM StrangersAreSuggested == Spec => []SuggestedAreStrangers
<1>1. Sound => SuggestedAreStrangers
  <2> SUFFICES ASSUME Sound, NEW x \in User, NEW y \in User \ {x},
                      AtRest({x, y}), Orderly({x, y})
               PROVE  y \in ListFriendSuggestions(x)
                         <=> FriendshipStatus(x, y) = "none" /\ ~Has(Block(y, x))
    BY DEF SuggestedAreStrangers
  <2>1. Clean(DOMAIN items, x, y) BY RestIsClean
  <2>2. Has(RequestIn(x, y)) <=> Has(RequestOut(x, y)) BY <2>1 DEF Clean, Has
  <2>3. y \in ListFriendSuggestions(x) <=>
           /\ ~Has(Friend(x, y)) /\ ~Has(RequestIn(y, x)) /\ ~Has(RequestOut(x, y))
           /\ ~Has(Block(x, y)) /\ ~Has(Block(y, x))
    BY DEF ListFriendSuggestions, ListFriendRequests, ListFriends
  <2>4. FriendshipStatus(x, y) = "none" <=>
           /\ ~Has(Block(x, y)) /\ ~Has(Friend(x, y))
           /\ ~Has(RequestIn(x, y)) /\ ~Has(RequestIn(y, x))
    BY DEF FriendshipStatus
  <2> QED BY <2>2, <2>3, <2>4
<1> QED BY <1>1, SoundAlways, PTL

-----------------------------------------------------------------------------
(* Threads, messages and codes.                                            *)

Threads == 1..MaxRequests

\* A thread between its request and its rows, and a message before its thread's
\* members are asked.
Opened(w) ==
    LET k == call[w]
        t == k.id
    IN  /\ k.op = "open" =>
              /\ k.at = "list" \/ Thread(t) \in PutKeys(w) => ~Has(Thread(t))
              /\ Thread(t) \in PutKeys(w) => \A z \in Head(k.todo) : z.key = Thread(t)
              /\ k.at = "done" /\ Thread(t) \notin PutKeys(w) =>
                    Has(Thread(t)) /\ items[Thread(t)] = {k.arg[1], k.arg[2]}
              /\ k.at \in {"list", "done"}
        /\ k.op = "message" /\ k.at = "done" =>
              Has(Thread(k.arg[2])) /\ k.arg[1] \in items[Thread(k.arg[2])]

Typed ==
    /\ \A t \in Threads :
          Has(Thread(t)) =>
             t \in 1..requests /\ \E x, y \in User : x # y /\ items[Thread(t)] = {x, y}
    /\ \A x \in User, t \in Threads :
          Has(Listed(x, t)) => /\ Has(Thread(t)) /\ x \in items[Thread(t)]
                               /\ items[Listed(x, t)] = items[Thread(t)]
    /\ \A t, m \in Threads :
          Has(Message(t, m)) => Has(Thread(t)) /\ items[Message(t, m)] \in items[Thread(t)]
    /\ \A o \in User : Has(InviteOwner(o)) => items[InviteOwner(o)] \in Code
    /\ \A w \in Worker : Opened(w)

LEMMA TypedInit == Init => Typed
<1> SUFFICES ASSUME Init PROVE Typed OBVIOUS
<1>1. DOMAIN items = {} /\ call = [w \in Worker |-> Idle] BY DEF Init, TableInit
<1>2. \A w \in Worker : call[w].op = "idle" BY <1>1, IdleCall
<1> QED BY <1>1, <1>2 DEF Typed, Opened, Has

\* Who writes a thread, its rows and its messages.
LEMMA ThreadWriter ==
    ASSUME Requests, NEW w \in Worker, NEW z \in Planned(call[w].todo)
    PROVE  LET k == call[w]
           IN  /\ \A t : z.key = Thread(t) =>
                     /\ k.op = "open" /\ t = k.id /\ z.do = "put"
                     /\ z.val = {k.arg[1], k.arg[2]}
               /\ \A x, t : z.key = Listed(x, t) =>
                     /\ k.op = "open" /\ t = k.id /\ z.do = "put"
                     /\ z.val = {k.arg[1], k.arg[2]} /\ x \in {k.arg[1], k.arg[2]}
               /\ \A t, m : z.key = Message(t, m) =>
                     /\ k.op = "message" /\ t = k.arg[2] /\ z.do = "put" /\ z.val = k.arg[1]
               /\ \A o : z.key = InviteOwner(o) =>
                     k.op = "offer" /\ o = k.arg[1] /\ z.do = "put" /\ z.val = k.arg[2]
<1> DEFINE k == call[w]
<1>0. GoodCall(k) BY DEF Requests
<1>1. ASSUME z.key[1] \in {"THREAD", "USER_THREAD"}
      PROVE  k.op = "open" /\ z \in ThreadWrites(k.id, k.arg[1], k.arg[2])
  BY <1>0, <1>1, WhoWrites
<1>2. ASSUME NEW t, z.key = Thread(t)
      PROVE  /\ k.op = "open" /\ t = k.id /\ z.do = "put"
             /\ z.val = {k.arg[1], k.arg[2]}
  <2>1. z.key[1] = "THREAD" BY <1>2 DEF Thread
  <2> QED BY <1>1, <1>2, <2>1, ThreadKeys DEF Thread, Listed
<1>3. ASSUME NEW x, NEW t, z.key = Listed(x, t)
      PROVE  /\ k.op = "open" /\ t = k.id /\ z.do = "put"
             /\ z.val = {k.arg[1], k.arg[2]} /\ x \in {k.arg[1], k.arg[2]}
  <2>1. z.key[1] = "USER_THREAD" BY <1>3 DEF Listed
  <2> QED BY <1>1, <1>3, <2>1, ThreadKeys DEF Thread, Listed
<1>4. ASSUME NEW t, NEW m, z.key = Message(t, m)
      PROVE  k.op = "message" /\ t = k.arg[2] /\ z.do = "put" /\ z.val = k.arg[1]
  <2>1. z.key[1] = "MESSAGE" BY <1>4 DEF Message
  <2>2. k.op = "message" /\ z = Put(Message(k.arg[2], k.id), k.arg[1])
    BY <1>0, <2>1, WhoWrites
  <2> QED BY <1>4, <2>2 DEF Put, Message
<1>5. ASSUME NEW o, z.key = InviteOwner(o)
      PROVE  k.op = "offer" /\ o = k.arg[1] /\ z.do = "put" /\ z.val = k.arg[2]
  <2>1. z.key[1] = "INVITE_OWNER" BY <1>5 DEF InviteOwner
  <2>2. k.op = "offer" /\ z \in {Put(InviteOwner(k.arg[1]), k.arg[2]),
                                 Put(Invite(k.arg[2]), k.arg[1])}
    BY <1>0, <2>1, WhoWrites
  <2>3. Invite(k.arg[2])[1] = "INVITE" BY DEF Invite
  <2>4. z.key # Invite(k.arg[2]) BY <2>1, <2>3
  <2>5. z.key = InviteOwner(k.arg[1]) /\ z.do = "put" /\ z.val = k.arg[2]
    BY <2>2, <2>4, OfferKeys
  <2> QED BY <1>5, <2>2, <2>5 DEF InviteOwner
<1> QED BY <1>2, <1>3, <1>4, <1>5

LEMMA PutOfKey ==
    ASSUME NEW w \in Worker, NEW z \in Planned(call[w].todo)
    PROVE  z.do = "put" => z.key \in PutKeys(w)
BY DEF PutKeys, PutsOf

\* Threads stay, with their members.
LEMMA ThreadsStay ==
    ASSUME Requests, Typed, NEW w \in Worker, Step(w), NEW t, Has(Thread(t))
    PROVE  Has(Thread(t))' /\ items'[Thread(t)] = items[Thread(t)]
<1>1. CASE Writes(w)
  <2>1. PICK z \in Planned(call[w].todo) : Wrote(w, z) BY <1>1, OneWrite
  <2>2. z.key # Thread(t)
    <3> SUFFICES ASSUME z.key = Thread(t) PROVE FALSE OBVIOUS
    <3>1. call[w].op = "open" /\ t = call[w].id /\ z.do = "put" BY <2>1, ThreadWriter
    <3>2. Thread(t) \in PutKeys(w) BY <3>1, PutOfKey
    <3> QED BY <3>1, <3>2 DEF Typed, Opened
  <2> QED BY <2>1, <2>2 DEF Wrote, Has
<1>2. CASE ~Writes(w)
  BY <1>2 DEF Step, Begins, Moves, Ends, Plans, Crashes, Quiet, Has
<1> QED BY <1>1, <1>2

LEMMA OpenedOther ==
    ASSUME Requests, Typed, NEW w \in Worker, Step(w), NEW v \in Worker \ {w}
    PROVE  Opened(v)'
<1> DEFINE k == call[v]
<1>0. PICK t, m : t = k.id /\ m = k.arg[2] OBVIOUS
<1>1. k = call'[v] /\ PutKeys(v)' = PutKeys(v) /\ Opened(v)
  BY OtherKeys DEF Step, Typed
<1>2. k.op = "open" /\ ~Has(Thread(t)) => ~Has(Thread(t))'
  <2> SUFFICES ASSUME k.op = "open", ~Has(Thread(t)), Has(Thread(t))' PROVE FALSE OBVIOUS
  <2>1. Writes(w) BY DEF Step, Begins, Moves, Ends, Plans, Crashes, Quiet, Has
  <2>2. PICK z \in Planned(call[w].todo) : Wrote(w, z) BY <2>1, OneWrite
  <2>3. z.key = Thread(t) BY <2>2 DEF Wrote, Has
  <2>4. t = call[w].id BY <2>2, <2>3, ThreadWriter
  <2> QED BY <1>0, <2>4 DEF Requests
<1>3. Has(Thread(t)) => Has(Thread(t))' /\ items'[Thread(t)] = items[Thread(t)]
  BY ThreadsStay
<1>4. Has(Thread(m)) => Has(Thread(m))' /\ items'[Thread(m)] = items[Thread(m)]
  BY ThreadsStay
<1>5. call'[v].id = t /\ call'[v].arg[2] = m BY <1>0, <1>1
<1> QED BY <1>0, <1>1, <1>2, <1>3, <1>4, <1>5 DEF Opened, Has

LEMMA OpenedOwn ==
    ASSUME Requests, Requests', Typed, NEW w \in Worker, Step(w)
    PROVE  Opened(w)'
<1> DEFINE k == call[w]
           n == call'[w]
<1>0. PICK t, m : t = n.id /\ m = k.arg[2] OBVIOUS
<1>1. CASE Begins(w)
  <2>1. /\ items' = items /\ n.todo = <<>> /\ n.at # "done"
        /\ n.op = "open" => n.at = "list"
        /\ t = requests + 1 /\ requests' = requests + 1
    BY <1>0, <1>1 DEF Begins
  <2>2. PutKeys(w)' = {} BY <2>1, NoKeys
  <2>3. requests \in Nat /\ requests + 1 \in Threads
    BY <2>1, TableConstants DEF Requests, Threads
  <2>4. ~Has(Thread(t)) BY <2>1, <2>3 DEF Typed
  <2> QED BY <1>0, <2>1, <2>2, <2>4 DEF Opened, Has
<1>2. CASE Moves(w) BY <1>2 DEF Moves, Opened
<1>3. CASE Ends(w) \/ Crashes(w) BY <1>3, IdleCall DEF Ends, Crashes, Opened
<1>4. CASE Plans(w)
  <2>1. /\ items' = items /\ n.at = "done" /\ n.op = k.op /\ t = k.id /\ n.arg = k.arg
        /\ k.op = "open" => /\ k.at = "list"
                            /\ Planned(n.todo) = ThreadWrites(k.id, k.arg[1], k.arg[2])
                            /\ Head(n.todo) = {Put(Thread(k.id), {k.arg[1], k.arg[2]})}
        /\ k.op = "message" => Has(Thread(k.arg[2])) /\ k.arg[1] \in items[Thread(k.arg[2])]
    BY <1>0, <1>4 DEF Plans, PairOps
  <2>2. k.op = "open" => Thread(t) \in PutKeys(w)'
    <3> DEFINE z == Put(Thread(t), {k.arg[1], k.arg[2]})
    <3>1. z.do = "put" /\ z.key = Thread(t) BY DEF Put
    <3>2. k.op = "open" => z \in Planned(n.todo) BY <2>1 DEF ThreadWrites
    <3> HIDE DEF z
    <3> QED BY <3>1, <3>2 DEF PutKeys, PutsOf
  <2>3. k.op = "open" => \A z \in Head(n.todo) : z.key = Thread(t) BY <2>1 DEF Put
  <2>4. k.op = "open" => ~Has(Thread(t)) BY <2>1 DEF Typed, Opened
  <2> QED BY <1>0, <2>1, <2>2, <2>3, <2>4 DEF Opened, Has
<1>5. CASE Writes(w)
  <2>1. PICK z \in Planned(k.todo) : Wrote(w, z) BY <1>5, OneWrite
  <2>2. CASE n = Idle BY <2>2, IdleCall DEF Opened
  <2>3. CASE n # Idle
    <3>1. n.op = k.op /\ n.id = k.id /\ n.arg = k.arg /\ n.at = "done"
      BY <1>5, <2>3 DEF Writes, With
    <3>0. t = k.id BY <1>0, <3>1
    <3>2. k.at = "done" BY <2>1, WhoWrites DEF Requests
    <3>3. Has(Thread(m)) => Has(Thread(m))' /\ items'[Thread(m)] = items[Thread(m)]
      BY ThreadsStay
    <3>4. ASSUME k.op = "open"
          PROVE  /\ Thread(t) \notin PutKeys(w)'
                 /\ Has(Thread(t))' /\ items'[Thread(t)] = {k.arg[1], k.arg[2]}
      <4>1. CASE Thread(t) \in PutKeys(w)
        <5>1. z.key = Thread(t) BY <2>1, <3>0, <3>4, <4>1 DEF Wrote, Typed, Opened
        <5>2. z.val = {k.arg[1], k.arg[2]} BY <2>1, <5>1, ThreadWriter
        <5> QED BY <2>1, <4>1, <5>1, <5>2 DEF Wrote, Has
      <4>2. CASE Thread(t) \notin PutKeys(w)
        <5>1. Has(Thread(t)) /\ items[Thread(t)] = {k.arg[1], k.arg[2]}
          BY <3>0, <3>2, <3>4, <4>2 DEF Typed, Opened
        <5>2. Has(Thread(t))' /\ items'[Thread(t)] = items[Thread(t)] BY <5>1, ThreadsStay
        <5> QED BY <2>1, <4>2, <5>1, <5>2 DEF Wrote
      <4> QED BY <4>1, <4>2
    <3>5. k.op = "message" => Has(Thread(m)) /\ k.arg[1] \in items[Thread(m)]
      BY <1>0, <3>2 DEF Opened, Typed
    <3> QED BY <1>0, <3>1, <3>3, <3>4, <3>5 DEF Opened, Has
  <2> QED BY <2>2, <2>3
<1> QED BY <1>1, <1>2, <1>3, <1>4, <1>5 DEF Step

LEMMA TypedStep ==
    ASSUME Requests, Requests', Typed, NEW w \in Worker, Step(w)
    PROVE  Typed'
<1>1. \A v \in Worker : Opened(v)' BY OpenedOther, OpenedOwn
<1> DEFINE k == call[w]
<1>2. CASE Writes(w)
  <2>1. PICK z \in Planned(k.todo) : Wrote(w, z) BY <1>2, OneWrite
  <2>2. requests' = requests /\ Opened(w) /\ GoodCall(k) /\ k.op # "idle" /\ k.at = "done"
    BY <1>2, <2>1, WhoWrites DEF Writes, Typed, Requests
  <2>3. \A key : Has(key)' /\ key # z.key => Has(key) /\ items'[key] = items[key]
    BY <2>1 DEF Wrote, Has
  <2>4. \A key : Has(key)' /\ key = z.key => items'[key] = z.val BY <2>1 DEF Wrote, Has
  <2>5. \A t : Has(Thread(t)) => Has(Thread(t))' /\ items'[Thread(t)] = items[Thread(t)]
    BY ThreadsStay
  <2>6. ASSUME NEW t \in Threads, Has(Thread(t))'
        PROVE  t \in 1..requests /\ \E x, y \in User : x # y /\ items'[Thread(t)] = {x, y}
    <3>1. CASE z.key = Thread(t)
      <4>1. k.op = "open" /\ t = k.id /\ items'[Thread(t)] = {k.arg[1], k.arg[2]}
        BY <2>1, <2>4, <2>6, <3>1, ThreadWriter
      <4>2. t \in 1..requests BY <2>2, <4>1 DEF GoodCall
      <4>3. k.arg[1] \in User /\ k.arg[2] \in User /\ k.arg[1] # k.arg[2]
        BY <2>2, <4>1 DEF GoodCall, PairCall
      <4> QED BY <4>1, <4>2, <4>3
    <3>2. CASE z.key # Thread(t) BY <2>3, <2>6, <3>2 DEF Typed
    <3> QED BY <3>1, <3>2
  <2>7. ASSUME NEW x \in User, NEW t \in Threads, Has(Listed(x, t))'
        PROVE  /\ Has(Thread(t))' /\ x \in items'[Thread(t)]
               /\ items'[Listed(x, t)] = items'[Thread(t)]
    <3>1. CASE z.key = Listed(x, t)
      <4>1. /\ k.op = "open" /\ t = k.id /\ items'[Listed(x, t)] = {k.arg[1], k.arg[2]}
            /\ x \in {k.arg[1], k.arg[2]}
        BY <2>1, <2>4, <2>7, <3>1, ThreadWriter
      <4>2. z.key # Thread(t) BY <3>1 DEF Thread, Listed
      <4>3. Has(Thread(t)) /\ items[Thread(t)] = {k.arg[1], k.arg[2]}
        BY <2>1, <2>2, <4>1, <4>2 DEF Opened, Wrote
      <4> QED BY <2>5, <4>1, <4>3
    <3>2. CASE z.key # Listed(x, t) BY <2>3, <2>5, <2>7, <3>2 DEF Typed
    <3> QED BY <3>1, <3>2
  <2>8. ASSUME NEW t \in Threads, NEW m \in Threads, Has(Message(t, m))'
        PROVE  Has(Thread(t))' /\ items'[Message(t, m)] \in items'[Thread(t)]
    <3>1. CASE z.key = Message(t, m)
      <4>1. k.op = "message" /\ t = k.arg[2] /\ items'[Message(t, m)] = k.arg[1]
        BY <2>1, <2>4, <2>8, <3>1, ThreadWriter
      <4> QED BY <2>2, <2>5, <4>1 DEF Opened
    <3>2. CASE z.key # Message(t, m) BY <2>3, <2>5, <2>8, <3>2 DEF Typed
    <3> QED BY <3>1, <3>2
  <2>9. ASSUME NEW o \in User, Has(InviteOwner(o))' PROVE items'[InviteOwner(o)] \in Code
    <3>1. CASE z.key = InviteOwner(o)
      <4>1. k.op = "offer" /\ items'[InviteOwner(o)] = k.arg[2]
        BY <2>1, <2>4, <2>9, <3>1, ThreadWriter
      <4> QED BY <2>2, <4>1 DEF GoodCall, OfferCall
    <3>2. CASE z.key # InviteOwner(o) BY <2>3, <2>9, <3>2 DEF Typed
    <3> QED BY <3>1, <3>2
  <2> QED BY <1>1, <2>2, <2>6, <2>7, <2>8, <2>9 DEF Typed
<1>3. CASE ~Writes(w)
  <2>1. items' = items /\ requests' \in {requests, requests + 1}
    BY <1>3 DEF Step, Begins, Moves, Ends, Plans, Crashes, Quiet
  <2>2. requests \in Nat BY TableConstants DEF Requests
  <2>3. \A t : t \in 1..requests => t \in 1..requests' BY <2>1, <2>2
  <2> QED BY <1>1, <2>1, <2>3 DEF Typed, Has
<1> QED BY <1>2, <1>3

LEMMA TwoMembers ==
    ASSUME NEW x, NEW y, x # y
    PROVE  Cardinality({x, y}) = 2
<1>1. Cardinality({x}) = 1 /\ IsFiniteSet({x}) BY FS_Singleton
<1>2. {x, y} = {x} \cup {y} OBVIOUS
<1> QED BY <1>1, <1>2, FS_AddElement

-----------------------------------------------------------------------------
(* One thread for two users.                                               *)

\* The threads of the two in x's list, when w has made its writes.
Opens(w, x, y) == ThreadsWith(x, y) \cup {t \in Threads : Listed(x, t) \in PutKeys(w)}

\* The same threads, and no two of them.
Agree(A, B) == A = B /\ \A s, t \in A : s = t

Mutual(x, y) ==
    /\ AtRest({x, y}) => Agree(ThreadsWith(x, y), ThreadsWith(y, x))
    /\ \A w \in Worker : {x, y} \in call[w].on => Agree(Opens(w, x, y), Opens(w, y, x))

Listings == \A x, y \in User : x # y /\ Orderly({x, y}) => Mutual(x, y)

\* A row of a list is as the thread is.
LEMMA ListedThread ==
    ASSUME Typed, NEW x \in User, NEW y, NEW t
    PROVE  t \in ThreadsWith(x, y) <=>
              t \in Threads /\ Has(Listed(x, t)) /\ items[Thread(t)] = {x, y}
BY DEF Typed, ThreadsWith, ThreadsOf, Threads

LEMMA ListedThreadNext ==
    ASSUME Typed', NEW x \in User, NEW y, NEW t
    PROVE  t \in ThreadsWith(x, y)' <=>
              t \in Threads /\ Has(Listed(x, t))' /\ items'[Thread(t)] = {x, y}
BY DEF Typed, ThreadsWith, ThreadsOf, Threads

\* What a write does to a list.
LEMMA ListWrite ==
    ASSUME Requests, Typed, Typed', NEW w \in Worker, Step(w), Writes(w),
           NEW x \in User, NEW y \in User
    PROVE  /\ {x, y} \in call[w].on => Opens(w, x, y)' = Opens(w, x, y)
           /\ {x, y} \notin call[w].on => ThreadsWith(x, y)' = ThreadsWith(x, y)
<1> DEFINE k == call[w]
<1>1. PICK z \in Planned(k.todo) : Wrote(w, z) BY OneWrite
<1>2. ASSUME NEW t, z.key = Listed(x, t)
      PROVE  /\ k.on = {items[Thread(t)]} /\ Has(Thread(t)) /\ x \in items[Thread(t)]
             /\ Has(Listed(x, t))' /\ Listed(x, t) \in PutKeys(w)
             /\ items'[Thread(t)] = items[Thread(t)]
  <2>1. /\ k.op = "open" /\ t = k.id /\ z.do = "put"
        /\ x \in {k.arg[1], k.arg[2]}
    BY <1>1, <1>2, ThreadWriter
  <2>2. z.key # Thread(t) BY <1>2 DEF Thread, Listed
  <2>3. k.at = "done" BY <1>1, WhoWrites DEF Requests
  <2>4. Has(Thread(t)) /\ items[Thread(t)] = {k.arg[1], k.arg[2]}
    BY SMTT(30), <1>1, <2>1, <2>2, <2>3 DEF Typed, Opened, Wrote
  <2>5. k.on = {{k.arg[1], k.arg[2]}} BY <2>1 DEF Requests, GoodCall, PairCall
  <2>6. Listed(x, t) \in PutKeys(w) BY <1>1, <1>2, <2>1, PutOfKey
  <2>7. items'[Thread(t)] = items[Thread(t)] BY <2>4, ThreadsStay
  <2> QED BY <1>1, <1>2, <2>1, <2>4, <2>5, <2>6, <2>7 DEF Wrote, Has
<1>3. \A t : z.key # Listed(x, t) =>
         /\ Has(Listed(x, t))' <=> Has(Listed(x, t))
         /\ Listed(x, t) \in PutKeys(w)' <=> Listed(x, t) \in PutKeys(w)
  BY <1>1 DEF Wrote, Has
<1>4. \A t \in Threads : Has(Listed(x, t)) => items'[Thread(t)] = items[Thread(t)]
  <2>1. \A t \in Threads : Has(Listed(x, t)) => Has(Thread(t)) BY DEF Typed
  <2> QED BY <2>1, ThreadsStay
<1>5. \A t \in Threads : z.key # Listed(x, t) =>
         (t \in ThreadsWith(x, y)' <=> t \in ThreadsWith(x, y))
  BY <1>3, <1>4, ListedThread, ListedThreadNext
<1>6. ThreadsWith(x, y) \subseteq Threads /\ ThreadsWith(x, y)' \subseteq Threads
  BY ListedThread, ListedThreadNext
<1>7. ASSUME {x, y} \in k.on PROVE Opens(w, x, y)' = Opens(w, x, y)
  <2>1. ASSUME NEW t \in Threads
        PROVE  t \in Opens(w, x, y)' <=> t \in Opens(w, x, y)
    <3>1. CASE z.key = Listed(x, t)
      <4>1. t \in ThreadsWith(x, y)' BY <1>2, <1>7, <3>1, ListedThreadNext
      <4> QED BY <1>2, <3>1, <4>1 DEF Opens
    <3>2. CASE z.key # Listed(x, t) BY <1>3, <1>5, <3>2 DEF Opens
    <3> QED BY <3>1, <3>2
  <2> QED BY <1>6, <2>1 DEF Opens
<1>8. ASSUME {x, y} \notin k.on PROVE ThreadsWith(x, y)' = ThreadsWith(x, y)
  <2>1. ASSUME NEW t \in Threads, z.key = Listed(x, t)
        PROVE  t \notin ThreadsWith(x, y)' /\ t \notin ThreadsWith(x, y)
    BY SMTT(30), <1>2, <1>8, <2>1, ListedThread, ListedThreadNext
  <2> QED BY <1>5, <1>6, <2>1
<1> QED BY <1>7, <1>8

LEMMA ListSame ==
    ASSUME items' = items, NEW x, NEW y
    PROVE  ThreadsWith(x, y)' = ThreadsWith(x, y)
BY DEF ThreadsWith, ThreadsOf, Has

\* What a plan lists.
LEMMA ListPlan ==
    ASSUME NEW w \in Worker, Plans(w)
    PROVE  LET k == call[w]
           IN  \/ /\ k.op = "open" /\ ThreadsWith(k.arg[1], k.arg[2]) = {}
                  /\ \A x, t : Listed(x, t) \in PutKeys(w)' <=>
                        x \in {k.arg[1], k.arg[2]} /\ t = k.id
               \/ k.op # "open" /\ \A x, t : Listed(x, t) \notin PutKeys(w)'
<1> DEFINE k == call[w]
           a == k.arg[1]
           b == k.arg[2]
           T == Planned(call'[w].todo)
<1>1. PutKeys(w)' = PutsOf(T) BY DEF PutKeys
<1>2. CASE k.op = "open"
  <2>1. ThreadsWith(a, b) = {} /\ T = ThreadWrites(k.id, a, b)
    BY <1>2 DEF Plans, PairOps
  <2>2. PutsOf(T) = {Thread(k.id), Listed(a, k.id), Listed(b, k.id)}
    <3> DEFINE p == Put(Thread(k.id), {a, b})
               q == Put(Listed(a, k.id), {a, b})
               r == Put(Listed(b, k.id), {a, b})
    <3>1. /\ p.do = "put" /\ q.do = "put" /\ r.do = "put"
          /\ p.key = Thread(k.id) /\ q.key = Listed(a, k.id) /\ r.key = Listed(b, k.id)
      BY DEF Put
    <3>2. T = {p, q, r} BY <2>1 DEF ThreadWrites
    <3> HIDE DEF p, q, r, T
    <3> QED BY <3>1, <3>2 DEF PutsOf
  <2> QED BY <1>1, <1>2, <2>1, <2>2 DEF Thread, Listed
<1>3. CASE k.op # "open"
  <2>1. \A z \in T : z.key[1] # "USER_THREAD"
    <3>1. \/ T \in {BefriendWrites(a, b), UpsertWrites(a, b), RejectWrites(a, b),
                    UnfriendWrites(a, b), BlockWrites(a, b), {Delete(Block(a, b))}}
          \/ T = {Put(InviteOwner(a), b), Put(Invite(b), a)}
          \/ T = RedeemWrites(b, k.arg[3], a)
          \/ T = {Put(Message(b, k.id), a)}
          \/ T \subseteq ToggleWrites(a)
      BY <1>3 DEF Plans
    <3> HIDE DEF T, a, b
    <3>2. CASE T \in {BefriendWrites(a, b), UpsertWrites(a, b), RejectWrites(a, b),
                      UnfriendWrites(a, b), BlockWrites(a, b), {Delete(Block(a, b))}}
      <4>1. T \subseteq PairWrites(a, b) \cup PairWrites(b, a)
        BY <3>2, Zenon DEF BefriendWrites, UpsertWrites, RejectWrites, UnfriendWrites,
                           BlockWrites, PairWrites
      <4> QED BY <4>1, PairKeys DEF Friend, RequestIn, RequestOut, Block
    <3>3. CASE T = {Put(InviteOwner(a), b), Put(Invite(b), a)}
      BY <3>3, OfferKeys DEF InviteOwner, Invite
    <3>4. CASE T = RedeemWrites(b, k.arg[3], a) BY <3>4, RedeemKeys DEF Redemption, Counted
    <3>5. CASE T = {Put(Message(b, k.id), a)} BY <3>5 DEF Put, Message
    <3>6. CASE T \subseteq ToggleWrites(a) BY <3>6, ToggleKeys DEF Reaction
    <3> QED BY <3>1, <3>2, <3>3, <3>4, <3>5, <3>6
  <2> QED BY <1>1, <1>3, <2>1 DEF PutsOf, Listed
<1> QED BY <1>2, <1>3

LEMMA MutualStep ==
    ASSUME Requests, Typed, Typed', Pairs, Listings, NEW w \in Worker, Step(w),
           NEW x \in User, NEW y \in User, x # y, Orderly({x, y})'
    PROVE  Mutual(x, y)'
<1>1. Paired(x, y) /\ Mutual(x, y)
  <2>1. shared \subseteq shared' /\ torn \subseteq torn'
    BY DEF Step, Begins, Moves, Ends, Plans, Writes, Crashes, Quiet
  <2>2. Orderly({x, y}) BY <2>1 DEF Orderly
  <2> QED BY <2>2 DEF Pairs, Listings
<1>2. /\ Begins(w) /\ {x, y} \in call'[w].on => AtRest({x, y})
      /\ {x, y} \in call[w].on => \A v \in Worker \ {w} : {x, y} \notin call[v].on
  BY <1>1, OneAtKept DEF Orderly, Paired
<1>3. \A v \in Worker \ {w} : call'[v] = call[v] BY DEF Step
<1>4. {x, y} = {y, x} OBVIOUS
<1>5. ~Writes(w) => /\ ThreadsWith(x, y)' = ThreadsWith(x, y)
                    /\ ThreadsWith(y, x)' = ThreadsWith(y, x)
  <2>1. ~Writes(w) => items' = items
    BY DEF Step, Begins, Moves, Ends, Plans, Crashes, Quiet
  <2> QED BY <2>1, ListSame
<1>6. CASE {x, y} \notin call[w].on /\ {x, y} \notin call'[w].on
  <2>1. ThreadsWith(x, y)' = ThreadsWith(x, y) /\ ThreadsWith(y, x)' = ThreadsWith(y, x)
    BY <1>4, <1>5, <1>6, ListWrite
  <2>2. AtRest({x, y})' => AtRest({x, y}) BY <1>3, <1>6 DEF AtRest
  <2>3. ASSUME NEW v \in Worker, {x, y} \in call'[v].on
        PROVE  Agree(Opens(v, x, y), Opens(v, y, x))'
    <3>1. v # w /\ call'[v] = call[v] BY <1>3, <1>6, <2>3
    <3>2. PutKeys(v)' = PutKeys(v) BY <3>1, OtherKeys
    <3>3. Agree(Opens(v, x, y), Opens(v, y, x)) BY <1>1, <2>3, <3>1 DEF Mutual
    <3> QED BY <2>1, <3>2, <3>3 DEF Opens, Agree
  <2> QED BY <1>1, <2>1, <2>2, <2>3 DEF Mutual, Agree
<1>7. ASSUME {x, y} \in call[w].on \/ {x, y} \in call'[w].on,
             Agree(Opens(w, x, y)', Opens(w, y, x)'),
             {x, y} \notin call'[w].on => call'[w].todo = <<>>
      PROVE  Mutual(x, y)'
  <2>1. \A v \in Worker \ {w} : {x, y} \notin call'[v].on
    <3>1. CASE {x, y} \in call[w].on BY <1>2, <1>3, <3>1
    <3>2. CASE {x, y} \notin call[w].on
      <4>1. Begins(w) BY <1>7, <3>2, SubjectsKept
      <4> QED BY <1>2, <1>3, <1>7, <3>2, <4>1 DEF AtRest
    <3> QED BY <3>1, <3>2
  <2>2. ASSUME AtRest({x, y})' PROVE Agree(ThreadsWith(x, y), ThreadsWith(y, x))'
    <3>1. call'[w].todo = <<>> BY <1>7, <2>2 DEF AtRest
    <3>2. PutKeys(w)' = {} BY <3>1, NoKeys
    <3> QED BY <1>7, <3>2 DEF Agree, Opens
  <2> QED BY <1>7, <2>1, <2>2 DEF Mutual, Agree
<1>8. CASE Begins(w) /\ {x, y} \in call'[w].on
  <2>1. Agree(ThreadsWith(x, y), ThreadsWith(y, x)) BY <1>1, <1>2, <1>8 DEF Mutual
  <2>2. PutKeys(w)' = {} BY <1>8, NoKeys DEF Begins
  <2>3. items' = items BY <1>8 DEF Begins
  <2>4. ThreadsWith(x, y)' = ThreadsWith(x, y) /\ ThreadsWith(y, x)' = ThreadsWith(y, x)
    BY <2>3, ListSame
  <2>5. Agree(Opens(w, x, y)', Opens(w, y, x)') BY <2>1, <2>2, <2>4 DEF Agree, Opens
  <2> QED BY <1>7, <1>8, <2>5
<1>9. CASE {x, y} \in call[w].on
  <2>0. Agree(Opens(w, x, y), Opens(w, y, x)) BY <1>1, <1>9 DEF Mutual
  <2>1. CASE Begins(w) BY <1>9, <2>1, IdleCall DEF Begins
  <2>2. CASE Crashes(w) BY <1>9, <2>2 DEF Crashes, Orderly
  <2>3. CASE (Ends(w) \/ Moves(w)) /\ ~Writes(w)
    <3>1. call[w].todo = <<>> /\ call'[w].todo = <<>> BY <2>3, IdleCall DEF Ends, Moves
    <3>2. PutKeys(w) = {} /\ PutKeys(w)' = {} BY <3>1, NoKeys
    <3>3. Opens(w, x, y)' = Opens(w, x, y) /\ Opens(w, y, x)' = Opens(w, y, x)
      BY <1>5, <2>3, <3>2 DEF Opens
    <3> QED BY <1>7, <1>9, <2>0, <3>1, <3>3
  <2>4. CASE Writes(w)
    <3>1. Opens(w, x, y)' = Opens(w, x, y) /\ Opens(w, y, x)' = Opens(w, y, x)
      BY <1>4, <1>9, <2>4, ListWrite
    <3>2. call'[w] = Idle \/ call'[w].on = call[w].on BY <2>4 DEF Writes, With
    <3> QED BY <1>7, <1>9, <2>0, <3>1, <3>2, IdleCall
  <2>5. CASE Plans(w) /\ ~Writes(w)
    <3>1. call[w].todo = <<>> /\ call'[w].on = call[w].on BY <2>5 DEF Plans
    <3>2. Opens(w, x, y) = ThreadsWith(x, y) /\ Opens(w, y, x) = ThreadsWith(y, x)
      BY <3>1, NoKeys DEF Opens
    <3>3. CASE call[w].op # "open"
      <4>1. \A u, t : Listed(u, t) \notin PutKeys(w)' BY <2>5, <3>3, ListPlan
      <4>2. Opens(w, x, y)' = Opens(w, x, y) /\ Opens(w, y, x)' = Opens(w, y, x)
        BY <1>5, <2>5, <3>2, <4>1 DEF Opens
      <4> QED BY <1>7, <1>9, <2>0, <3>1, <4>2
    <3>4. CASE call[w].op = "open"
      <4> DEFINE a == call[w].arg[1]
                 b == call[w].arg[2]
                 i == call[w].id
      <4>1. /\ ThreadsWith(a, b) = {}
            /\ \A u, t : Listed(u, t) \in PutKeys(w)' <=> u \in {a, b} /\ t = i
        BY <2>5, <3>4, ListPlan
      <4>2. {a, b} = {x, y} BY <1>9, <3>4, MePair DEF Me, Other
      <4> HIDE DEF a, b, i
      <4>3. ThreadsWith(x, y) = {} /\ ThreadsWith(y, x) = {}
        <5>1. (a = x /\ b = y) \/ (a = y /\ b = x) BY <4>2
        <5>2. ThreadsWith(x, y) = ThreadsWith(y, x) BY <2>0, <3>2 DEF Agree
        <5> QED BY <4>1, <5>1, <5>2
      <4>4. Opens(w, x, y)' = {t \in Threads : t = i} /\ Opens(w, y, x)' = {t \in Threads : t = i}
        BY <1>5, <2>5, <4>1, <4>2, <4>3 DEF Opens
      <4>5. Agree(Opens(w, x, y)', Opens(w, y, x)') BY <4>4 DEF Agree
      <4> QED BY <1>7, <1>9, <3>1, <4>5
    <3> QED BY <3>3, <3>4
  <2> QED BY <2>1, <2>2, <2>3, <2>4, <2>5 DEF Step
<1>10. CASE {x, y} \in call'[w].on /\ ~Begins(w) BY <1>9, <1>10, SubjectsKept
<1> QED BY <1>6, <1>8, <1>9, <1>10

LEMMA ListingsInit == Init => Listings
<1> SUFFICES ASSUME Init PROVE Listings OBVIOUS
<1>1. DOMAIN items = {} /\ call = [w \in Worker |-> Idle] BY DEF Init, TableInit
<1>2. \A x, y : ThreadsWith(x, y) = {} BY <1>1 DEF ThreadsWith, ThreadsOf, Has
<1>3. \A w \in Worker : call[w].on = {} BY <1>1, IdleCall
<1> QED BY <1>2, <1>3 DEF Listings, Mutual, Agree

Talk == Sound /\ Typed /\ Listings

LEMMA TalkSteps == Talk /\ [Next]_vars => Talk'
<1>1. ASSUME Talk, Next PROVE Talk'
  <2>1. PICK w \in Worker : Requests' /\ Step(w) BY <1>1, Steps DEF Talk, Sound
  <2>2. Sound' BY <1>1, SoundNext DEF Talk
  <2>3. Typed' BY <1>1, <2>1, TypedStep DEF Talk, Sound
  <2>4. Listings' BY <1>1, <2>1, <2>3, MutualStep DEF Talk, Sound, Listings
  <2> QED BY <2>2, <2>3, <2>4 DEF Talk
<1>2. ASSUME Talk, UNCHANGED vars PROVE Talk'
  <2>1. UNCHANGED <<items, call, requests, shared, torn>> BY <1>2 DEF vars, tableVars
  <2>2. Sound' BY <1>2, SoundNext DEF Talk
  <2>3. \A w \in Worker : PutKeys(w)' = PutKeys(w) BY <2>1 DEF PutKeys
  <2>4. \A w \in Worker : Opened(w) => Opened(w)' BY <2>1, <2>3 DEF Opened, Has
  <2>5. Typed' BY <1>2, <2>1, <2>4 DEF Talk, Typed, Has
  <2>6. \A x, y : ThreadsWith(x, y)' = ThreadsWith(x, y) BY <2>1, ListSame
  <2>7. \A w \in Worker, x, y \in User : Opens(w, x, y)' = Opens(w, x, y)
    BY <2>3, <2>6 DEF Opens
  <2>8. ASSUME NEW x \in User, NEW y \in User, Mutual(x, y) PROVE Mutual(x, y)'
    <3>1. AtRest({x, y})' => AtRest({x, y}) BY <2>1 DEF AtRest
    <3>2. \A w \in Worker : {x, y} \in call'[w].on => {x, y} \in call[w].on BY <2>1
    <3> QED BY <2>6, <2>7, <2>8, <3>1, <3>2 DEF Mutual, Agree
  <2>9. \A x, y \in User : Orderly({x, y})' => Orderly({x, y}) BY <2>1 DEF Orderly
  <2>10. Listings' BY <1>2, <2>8, <2>9 DEF Talk, Listings
  <2> QED BY <2>2, <2>5, <2>10 DEF Talk
<1> QED BY <1>1, <1>2

LEMMA TalkAlways == Spec => []Talk
<1>1. Init => Talk
  BY RequestsInit, AgreedInit, PairsInit, TypedInit, ListingsInit DEF Sound, Talk
<1> QED BY <1>1, TalkSteps, PTL DEF Spec

\* An item holds what its key says, whatever ends in the middle: a thread is
\* written before it is listed, and a message after its thread (put_thread,
\* put_message).
THEOREM ItemsAreTyped == Spec => []TypeOK
<1>1. Talk => TypeOK
  <2> SUFFICES ASSUME Talk PROVE TypeOK OBVIOUS
  <2>0. Requests /\ Typed BY DEF Talk, Sound
  <2>1. ASSUME NEW w \in Worker PROVE call[w].on \subseteq SUBSET User
    <3>1. GoodCall(call[w]) /\ (call[w].op = "idle" => call[w] = Idle)
      BY <2>0 DEF Requests, CallsOK
    <3>2. CASE call[w].op = "idle" BY <3>1, <3>2, IdleCall
    <3>3. CASE call[w].op # "idle"
      BY <3>1, <3>3 DEF GoodCall, PairCall, OfferCall, RedeemCall, MessageCall, ToggleCall
    <3> QED BY <3>2, <3>3
  <2>2. ASSUME NEW x \in User, NEW t \in 1..MaxRequests, Has(Listed(x, t))
        PROVE  /\ Has(Thread(t)) /\ x \in items[Thread(t)]
               /\ Cardinality(items[Thread(t)]) = 2
    <3>1. Has(Thread(t)) /\ x \in items[Thread(t)] BY <2>0, <2>2 DEF Typed, Threads
    <3>2. PICK a, b \in User : a # b /\ items[Thread(t)] = {a, b}
      BY <2>0, <3>1 DEF Typed, Threads
    <3> QED BY <3>1, <3>2, TwoMembers
  <2>3. \A t, m \in 1..MaxRequests :
           Has(Message(t, m)) => Has(Thread(t)) /\ items[Message(t, m)] \in items[Thread(t)]
    BY <2>0 DEF Typed, Threads
  <2>4. \A c \in Code : Has(Invite(c)) => items[Invite(c)] \in User BY <2>0 DEF Requests
  <2>5. \A o \in User : Has(InviteOwner(o)) => items[InviteOwner(o)] \in Code
    BY <2>0 DEF Typed
  <2> QED BY <2>1, <2>2, <2>3, <2>4, <2>5 DEF TypeOK
<1> QED BY <1>1, TalkAlways, PTL

\* Two users whose openings came one at a time, and were finished, have at most one
\* thread, in the lists of both, and both see the same messages
\* (open_or_create_thread_with, list_threads, get_thread_detail).
THEOREM ThreadsAreOne == Spec => []OneThread
<1>1. Talk => OneThread
  <2> SUFFICES ASSUME Talk, NEW x \in User, NEW y \in User, x # y,
                      AtRest({x, y}), Orderly({x, y})
               PROVE  /\ Cardinality(ThreadsWith(x, y)) <= 1
                      /\ {y} \in ListThreads(x) <=> {x} \in ListThreads(y)
                      /\ \A t \in ThreadsWith(x, y) :
                            GetThreadDetail(x, t) = GetThreadDetail(y, t)
    BY DEF OneThread
  <2>0. Typed BY DEF Talk
  <2>1. Agree(ThreadsWith(x, y), ThreadsWith(y, x)) BY DEF Talk, Listings, Mutual
  <2>2. Cardinality(ThreadsWith(x, y)) <= 1
    <3>1. CASE ThreadsWith(x, y) = {} BY <3>1, FS_EmptySet
    <3>2. CASE ThreadsWith(x, y) # {}
      <4>1. PICK t : t \in ThreadsWith(x, y) BY <3>2
      <4>2. ThreadsWith(x, y) = {t} BY <2>1, <4>1 DEF Agree
      <4>3. Cardinality({t}) = 1 BY FS_Singleton
      <4> QED BY <4>2, <4>3
    <3> QED BY <3>1, <3>2
  <2>3. ASSUME NEW a \in User, NEW b \in User, a # b
        PROVE  {b} \in ListThreads(a) <=> ThreadsWith(a, b) # {}
    <3>1. ASSUME NEW t \in ThreadsOf(a)
          PROVE  items[Listed(a, t)] \ {a} = {b} <=> items[Listed(a, t)] = {a, b}
      <4>1. a \in items[Listed(a, t)] BY <2>0, <3>1 DEF Typed, ThreadsOf, Threads
      <4> QED BY <2>3, <4>1
    <3> QED BY <3>1 DEF ListThreads, ThreadsWith
  <2>4. {y} \in ListThreads(x) <=> {x} \in ListThreads(y)
    BY <2>1, <2>3 DEF Agree
  <2>5. ASSUME NEW t \in ThreadsWith(x, y)
        PROVE  GetThreadDetail(x, t) = GetThreadDetail(y, t)
    <3>1. items[Thread(t)] = {x, y} BY <2>0, ListedThread
    <3> QED BY <3>1 DEF GetThreadDetail
  <2> QED BY <2>2, <2>4, <2>5
<1> QED BY <1>1, TalkAlways, PTL

-----------------------------------------------------------------------------
(* Invites.                                                                *)

\* Counted for o, now or when the plans are done, and by whom.
CountedSoon(o) ==
    {x \in User : Has(Counted(o, x)) \/ \E w \in Worker : Counted(o, x) \in PutKeys(w)}

Redeeming(o) == {w \in Worker : \E x \in User : Counted(o, x) \in PutKeys(w)}

Capped(o) ==
    /\ IsFiniteSet(CountedSoon(o))
    /\ Cardinality(CountedFor(o)) + Cardinality(Redeeming(o))
          <= MonthlyCap + Cardinality(Worker) - 1
    /\ Orderly({}) => Cardinality(CountedSoon(o)) <= MonthlyCap

Caps ==
    /\ \A o \in User : Capped(o)
    /\ {} \notin shared => OneAt({})

LEMMA Sizes ==
    ASSUME NEW o, IsFiniteSet(CountedSoon(o))
    PROVE  /\ CountedFor(o) \subseteq CountedSoon(o) /\ IsFiniteSet(CountedFor(o))
           /\ Cardinality(CountedFor(o)) \in Nat /\ Cardinality(CountedSoon(o)) \in Nat
           /\ IsFiniteSet(Redeeming(o)) /\ Cardinality(Redeeming(o)) \in Nat
           /\ Cardinality(Redeeming(o)) <= Cardinality(Worker)
           /\ Cardinality(Worker) \in Nat /\ Cardinality(Worker) >= 1
<1>1. CountedFor(o) \subseteq CountedSoon(o) BY DEF CountedFor, CountedSoon
<1>2. IsFiniteSet(CountedFor(o)) BY <1>1, FS_Subset
<1>3. Redeeming(o) \in SUBSET Worker /\ IsFiniteSet(Worker) BY SocialConstants DEF Redeeming
<1>4. IsFiniteSet(Redeeming(o)) /\ Cardinality(Redeeming(o)) <= Cardinality(Worker)
  BY <1>3, FS_Subset
<1>5. Cardinality(Worker) \in Nat /\ Cardinality(Worker) # 0
  BY <1>3, SocialConstants, FS_CardinalityType, FS_EmptySet
<1> QED BY <1>1, <1>2, <1>4, <1>5, FS_CardinalityType

\* Who writes what is counted, and redemptions.
LEMMA CountedWriter ==
    ASSUME Requests, NEW w \in Worker, NEW z \in Planned(call[w].todo)
    PROVE  LET k == call[w]
           IN  /\ \A o, x : z.key = Counted(o, x) =>
                     k.op = "redeem" /\ o = k.arg[3] /\ x = k.arg[1] /\ z.do = "put"
               /\ \A c, x : z.key = Redemption(c, x) =>
                     k.op = "redeem" /\ c = k.arg[2] /\ x = k.arg[1] /\ z.do = "put"
               /\ \A c : z.key = Invite(c) =>
                     /\ k.op = "offer" /\ c = k.arg[2] /\ z.do = "put" /\ z.val = k.arg[1]
<1> DEFINE k == call[w]
<1>0. GoodCall(k) BY DEF Requests
<1>1. ASSUME z.key[1] \in {"REDEMPTION", "INVITER"}
      PROVE  /\ k.op = "redeem" /\ z.do = "put"
             /\ z.key \in {Redemption(k.arg[2], k.arg[1]), Counted(k.arg[3], k.arg[1])}
  BY <1>0, <1>1, WhoWrites, RedeemKeys
<1>2. ASSUME NEW o, NEW x, z.key = Counted(o, x)
      PROVE  k.op = "redeem" /\ o = k.arg[3] /\ x = k.arg[1] /\ z.do = "put"
  BY <1>1, <1>2 DEF Redemption, Counted
<1>3. ASSUME NEW c, NEW x, z.key = Redemption(c, x)
      PROVE  k.op = "redeem" /\ c = k.arg[2] /\ x = k.arg[1] /\ z.do = "put"
  BY <1>1, <1>3 DEF Redemption, Counted
<1>4. ASSUME NEW c, z.key = Invite(c)
      PROVE  k.op = "offer" /\ c = k.arg[2] /\ z.do = "put" /\ z.val = k.arg[1]
  <2>1. z.key[1] = "INVITE" BY <1>4 DEF Invite
  <2>2. k.op = "offer" /\ z \in {Put(InviteOwner(k.arg[1]), k.arg[2]),
                                 Put(Invite(k.arg[2]), k.arg[1])}
    BY <1>0, <2>1, WhoWrites
  <2>3. z.key # InviteOwner(k.arg[1]) BY <2>1 DEF InviteOwner
  <2>4. z.key = Invite(k.arg[2]) /\ z.do = "put" /\ z.val = k.arg[1]
    BY <2>2, <2>3, OfferKeys
  <2> QED BY <1>4, <2>2, <2>4 DEF Invite
<1> QED BY <1>2, <1>3, <1>4

LEMMA CountedPlanned ==
    ASSUME Requests, NEW w \in Worker, NEW o, NEW x, Counted(o, x) \in PutKeys(w)
    PROVE  /\ call[w].op = "redeem" /\ o = call[w].arg[3] /\ x = call[w].arg[1]
           /\ {} \in call[w].on
<1>1. PICK z \in Planned(call[w].todo) : z.key = Counted(o, x) BY DEF PutKeys, PutsOf
<1>2. call[w].op = "redeem" /\ o = call[w].arg[3] /\ x = call[w].arg[1]
  BY <1>1, CountedWriter
<1> QED BY <1>2 DEF Requests, GoodCall, RedeemCall

\* What a plan counts, redeems and offers.
LEMMA InvitePlanKeys ==
    ASSUME NEW w \in Worker, Plans(w)
    PROVE  LET k == call[w]
           IN  \/ /\ k.op = "redeem" /\ k.at = "count"
                  /\ ~(Cardinality(CountedFor(k.arg[3])) >= MonthlyCap)
                  /\ PutKeys(w)' = {Redemption(k.arg[2], k.arg[1]), Counted(k.arg[3], k.arg[1])}
               \/ /\ k.op = "offer" /\ k.at = "create"
                  /\ PutKeys(w)' = {InviteOwner(k.arg[1]), Invite(k.arg[2])}
               \/ /\ k.op \notin {"redeem", "offer"}
                  /\ \A o, x : /\ Counted(o, x) \notin PutKeys(w)'
                               /\ Redemption(o, x) \notin PutKeys(w)'
                               /\ Invite(o) \notin PutKeys(w)'
<1> DEFINE k == call[w]
           a == k.arg[1]
           b == k.arg[2]
           T == Planned(call'[w].todo)
<1>1. PutKeys(w)' = PutsOf(T) BY DEF PutKeys
<1>2. CASE k.op = "redeem"
  <2>1. /\ k.at = "count" /\ ~(Cardinality(CountedFor(k.arg[3])) >= MonthlyCap)
        /\ T = RedeemWrites(b, k.arg[3], a)
    BY <1>2 DEF Plans
  <2> DEFINE p == Put(Redemption(b, a), TRUE)
             q == Put(Counted(k.arg[3], a), TRUE)
  <2>2. /\ p.do = "put" /\ q.do = "put"
        /\ p.key = Redemption(b, a) /\ q.key = Counted(k.arg[3], a)
    BY WriteKeys
  <2>3. T = {p, q} BY <2>1 DEF RedeemWrites
  <2> HIDE DEF p, q, T
  <2>4. PutsOf(T) = {Redemption(b, a), Counted(k.arg[3], a)} BY <2>2, <2>3 DEF PutsOf
  <2> QED BY <1>1, <1>2, <2>1, <2>4
<1>3. CASE k.op = "offer"
  <2>1. k.at = "create" /\ T = {Put(InviteOwner(a), b), Put(Invite(b), a)}
    BY <1>3 DEF Plans, PairOps
  <2> DEFINE p == Put(InviteOwner(a), b)
             q == Put(Invite(b), a)
  <2>2. p.do = "put" /\ q.do = "put" /\ p.key = InviteOwner(a) /\ q.key = Invite(b)
    BY DEF Put
  <2>3. T = {p, q} BY <2>1
  <2> HIDE DEF p, q, T
  <2>4. PutsOf(T) = {InviteOwner(a), Invite(b)} BY <2>2, <2>3 DEF PutsOf
  <2> QED BY <1>1, <1>3, <2>1, <2>4
<1>4. CASE k.op \notin {"redeem", "offer"}
  <2>1. \A z \in T : z.key[1] \notin {"REDEMPTION", "INVITER", "INVITE"}
    <3>1. \/ T \in {BefriendWrites(a, b), UpsertWrites(a, b), RejectWrites(a, b),
                    UnfriendWrites(a, b), BlockWrites(a, b), {Delete(Block(a, b))}}
          \/ T = ThreadWrites(k.id, a, b)
          \/ T = {Put(Message(b, k.id), a)}
          \/ T \subseteq ToggleWrites(a)
      BY <1>4 DEF Plans
    <3> HIDE DEF T, a, b
    <3>2. CASE T \in {BefriendWrites(a, b), UpsertWrites(a, b), RejectWrites(a, b),
                      UnfriendWrites(a, b), BlockWrites(a, b), {Delete(Block(a, b))}}
      <4>1. T \subseteq PairWrites(a, b) \cup PairWrites(b, a)
        BY <3>2, Zenon DEF BefriendWrites, UpsertWrites, RejectWrites, UnfriendWrites,
                           BlockWrites, PairWrites
      <4> QED BY <4>1, PairKeys DEF Friend, RequestIn, RequestOut, Block
    <3>3. CASE T = ThreadWrites(k.id, a, b) BY <3>3, ThreadKeys DEF Thread, Listed
    <3>5. CASE T = {Put(Message(b, k.id), a)} BY <3>5 DEF Put, Message
    <3>6. CASE T \subseteq ToggleWrites(a) BY <3>6, ToggleKeys DEF Reaction
    <3> QED BY <3>1, <3>2, <3>3, <3>5, <3>6
  <2> QED BY <1>1, <1>4, <2>1 DEF PutsOf, Counted, Redemption, Invite
<1> QED BY <1>2, <1>3, <1>4

\* Nothing new is counted.
LEMMA CappedFewer ==
    ASSUME NEW o \in User, Capped(o), Orderly({})' => Orderly({}),
           CountedSoon(o)' \subseteq CountedSoon(o),
           \/ CountedFor(o)' = CountedFor(o) /\ Redeeming(o)' \subseteq Redeeming(o)
           \/ \E x \in User, w \in Redeeming(o) :
                 CountedFor(o)' = CountedFor(o) \cup {x} /\ Redeeming(o)' = Redeeming(o) \ {w}
    PROVE  Capped(o)'
<1> DEFINE m == Cardinality(CountedFor(o))
           n == Cardinality(Redeeming(o))
<1>1. IsFiniteSet(CountedSoon(o)) BY DEF Capped
<1>2. /\ IsFiniteSet(CountedFor(o)) /\ m \in Nat /\ IsFiniteSet(Redeeming(o)) /\ n \in Nat
      /\ Cardinality(CountedSoon(o)) \in Nat /\ Cardinality(Worker) \in Nat
  BY <1>1, Sizes
<1>3. IsFiniteSet(CountedSoon(o)') /\ Cardinality(CountedSoon(o)') <= Cardinality(CountedSoon(o))
      /\ Cardinality(CountedSoon(o)') \in Nat
  BY <1>1, FS_Subset, FS_CardinalityType
<1>4. Cardinality(CountedFor(o)') + Cardinality(Redeeming(o)') <= m + n
  <2>1. CASE CountedFor(o)' = CountedFor(o) /\ Redeeming(o)' \subseteq Redeeming(o)
    <3>1. Cardinality(Redeeming(o)') <= n /\ Cardinality(Redeeming(o)') \in Nat
      BY <1>2, <2>1, FS_Subset, FS_CardinalityType
    <3> QED BY <1>2, <2>1, <3>1
  <2>2. ASSUME NEW x \in User, NEW w \in Redeeming(o),
               CountedFor(o)' = CountedFor(o) \cup {x}, Redeeming(o)' = Redeeming(o) \ {w}
        PROVE  Cardinality(CountedFor(o)') + Cardinality(Redeeming(o)') <= m + n
    <3>1. Cardinality(CountedFor(o)') = m \/ Cardinality(CountedFor(o)') = m + 1
      BY <1>2, <2>2, FS_AddElement
    <3>2. Cardinality(Redeeming(o)') = n - 1 BY <1>2, <2>2, FS_RemoveElement
    <3> QED BY <1>2, <3>1, <3>2
  <2> QED BY <2>1, <2>2
<1>5. /\ Cardinality(CountedFor(o)') \in Nat /\ Cardinality(Redeeming(o)') \in Nat
  <2>1. IsFiniteSet(CountedFor(o)')
    <3>1. CASE CountedFor(o)' = CountedFor(o) BY <1>2, <3>1
    <3>2. ASSUME NEW x \in User, CountedFor(o)' = CountedFor(o) \cup {x}
          PROVE  IsFiniteSet(CountedFor(o)')
      <4>1. IsFiniteSet(CountedFor(o) \cup {x}) BY <1>2, FS_AddElement
      <4> QED BY <3>2, <4>1
    <3>3. CountedFor(o)' = CountedFor(o) \/ \E x \in User : CountedFor(o)' = CountedFor(o) \cup {x}
      OBVIOUS
    <3> QED BY <3>1, <3>2, <3>3
  <2>2. Redeeming(o)' \subseteq Redeeming(o) OBVIOUS
  <2> QED BY <1>2, <2>1, <2>2, FS_Subset, FS_CardinalityType
<1>6. m + n <= MonthlyCap + Cardinality(Worker) - 1 BY DEF Capped
<1>7. Cardinality(CountedFor(o)') + Cardinality(Redeeming(o)')
         <= MonthlyCap + Cardinality(Worker) - 1
  BY <1>2, <1>4, <1>5, <1>6, SocialConstants
<1>8. Orderly({})' => Cardinality(CountedSoon(o)') <= MonthlyCap
  BY <1>2, <1>3, SocialConstants DEF Capped
<1> QED BY <1>3, <1>7, <1>8 DEF Capped

\* One more, while there is room.
LEMMA CappedMore ==
    ASSUME NEW o \in User, NEW x \in User, Capped(o),
           ~(Cardinality(CountedFor(o)) >= MonthlyCap),
           CountedFor(o)' = CountedFor(o), CountedSoon(o)' = CountedSoon(o) \cup {x},
           Redeeming(o)' \subseteq Worker,
           Orderly({})' => CountedSoon(o) = CountedFor(o)
    PROVE  Capped(o)'
<1>1. IsFiniteSet(CountedSoon(o)) BY DEF Capped
<1>2. /\ Cardinality(CountedFor(o)) \in Nat /\ Cardinality(Worker) \in Nat
      /\ Cardinality(CountedSoon(o)) \in Nat
  BY <1>1, Sizes
<1>3. /\ IsFiniteSet(CountedSoon(o)')
      /\ \/ Cardinality(CountedSoon(o)') = Cardinality(CountedSoon(o))
         \/ Cardinality(CountedSoon(o)') = Cardinality(CountedSoon(o)) + 1
  BY <1>1, FS_AddElement
<1>4. Cardinality(Redeeming(o)') \in Nat /\ Cardinality(Redeeming(o)') <= Cardinality(Worker)
  BY SocialConstants, FS_Subset, FS_CardinalityType
<1>5. Cardinality(CountedFor(o)) < MonthlyCap BY <1>2, SocialConstants
<1>6. Cardinality(CountedFor(o)') + Cardinality(Redeeming(o)')
         <= MonthlyCap + Cardinality(Worker) - 1
  BY <1>2, <1>4, <1>5, SocialConstants
<1>7. Orderly({})' => Cardinality(CountedSoon(o)') <= MonthlyCap
  BY <1>2, <1>3, <1>5, SocialConstants
<1> QED BY <1>3, <1>6, <1>7 DEF Capped

LEMMA CountedSame ==
    ASSUME NEW o, NEW w \in Worker, \A v \in Worker \ {w} : call'[v] = call[v],
           items' = items,
           \A x : Counted(o, x) \in PutKeys(w)' => Counted(o, x) \in PutKeys(w)
    PROVE  /\ CountedFor(o)' = CountedFor(o) /\ CountedSoon(o)' \subseteq CountedSoon(o)
           /\ Redeeming(o)' \subseteq Redeeming(o)
<1>1. \A v \in Worker \ {w} : PutKeys(v)' = PutKeys(v) BY OtherKeys
<1>2. \A key : Has(key)' <=> Has(key) BY DEF Has
<1>3. CountedFor(o)' = CountedFor(o) BY <1>2 DEF CountedFor
<1>4. ASSUME NEW v \in Worker, NEW x, Counted(o, x) \in PutKeys(v)'
      PROVE  Counted(o, x) \in PutKeys(v)
  BY <1>1, <1>4
<1>5. CountedSoon(o)' \subseteq CountedSoon(o) BY <1>2, <1>4 DEF CountedSoon
<1>6. Redeeming(o)' \subseteq Redeeming(o) BY <1>4 DEF Redeeming
<1> QED BY <1>3, <1>5, <1>6

LEMMA CapsStep ==
    ASSUME Requests, Caps, NEW w \in Worker, Step(w)
    PROVE  Caps'
<1>0. \A v \in Worker \ {w} : call'[v] = call[v] BY DEF Step
<1>1. shared \subseteq shared' /\ torn \subseteq torn'
  BY DEF Step, Begins, Moves, Ends, Plans, Writes, Crashes, Quiet
<1>2. Orderly({})' => Orderly({}) BY <1>1 DEF Orderly
<1>3. {} \notin shared' => OneAt({})' BY OneAtKept DEF Caps
<1>4. ASSUME NEW o \in User PROVE Capped(o)'
  <2>0. Capped(o) BY DEF Caps
  <2>1. CASE Begins(w) \/ Moves(w) \/ Ends(w) \/ Crashes(w)
    <3>1. items' = items /\ call'[w].todo = <<>>
      BY <2>1, IdleCall DEF Begins, Moves, Ends, Crashes, Quiet
    <3>2. PutKeys(w)' = {} BY <3>1, NoKeys
    <3>3. /\ CountedFor(o)' = CountedFor(o) /\ CountedSoon(o)' \subseteq CountedSoon(o)
          /\ Redeeming(o)' \subseteq Redeeming(o)
      BY <1>0, <3>1, <3>2, CountedSame
    <3> QED BY <1>2, <2>0, <3>3, CappedFewer
  <2>2. CASE Plans(w)
    <3>1. items' = items /\ call[w].todo = <<>> BY <2>2 DEF Plans
    <3>2. PutKeys(w) = {} BY <3>1, NoKeys
    <3>3. CASE \A x : Counted(o, x) \notin PutKeys(w)'
      <4>1. /\ CountedFor(o)' = CountedFor(o) /\ CountedSoon(o)' \subseteq CountedSoon(o)
            /\ Redeeming(o)' \subseteq Redeeming(o)
        BY <1>0, <3>1, <3>3, CountedSame
      <4> QED BY <1>2, <2>0, <4>1, CappedFewer
    <3>4. ASSUME NEW x, Counted(o, x) \in PutKeys(w)' PROVE Capped(o)'
      <4>1. /\ call[w].op = "redeem" /\ ~(Cardinality(CountedFor(o)) >= MonthlyCap)
            /\ x = call[w].arg[1]
            /\ \A y : Counted(o, y) \in PutKeys(w)' <=> y = x
        <5> DEFINE k == call[w]
        <5>1. \/ /\ k.op = "redeem" /\ k.at = "count"
                 /\ ~(Cardinality(CountedFor(k.arg[3])) >= MonthlyCap)
                 /\ PutKeys(w)' = {Redemption(k.arg[2], k.arg[1]), Counted(k.arg[3], k.arg[1])}
              \/ /\ k.op = "offer" /\ k.at = "create"
                 /\ PutKeys(w)' = {InviteOwner(k.arg[1]), Invite(k.arg[2])}
              \/ /\ k.op \notin {"redeem", "offer"}
                 /\ \A p, q : /\ Counted(p, q) \notin PutKeys(w)'
                              /\ Redemption(p, q) \notin PutKeys(w)'
                              /\ Invite(p) \notin PutKeys(w)'
          BY <2>2, InvitePlanKeys
        <5>2. /\ \A p : Counted(o, x) # InviteOwner(p) /\ Counted(o, x) # Invite(p)
              /\ \A p, q, y : Counted(o, y) # Redemption(p, q)
              /\ \A p, q, y : Counted(o, y) = Counted(p, q) <=> o = p /\ y = q
          BY DEF Counted, Redemption, Invite, InviteOwner
        <5>3. /\ k.op = "redeem" /\ ~(Cardinality(CountedFor(k.arg[3])) >= MonthlyCap)
              /\ PutKeys(w)' = {Redemption(k.arg[2], k.arg[1]), Counted(k.arg[3], k.arg[1])}
          BY <3>4, <5>1, <5>2
        <5>4. o = k.arg[3] /\ x = k.arg[1] BY <3>4, <5>2, <5>3
        <5> QED BY <5>2, <5>3, <5>4
      <4>2. x \in User /\ {} \in call[w].on BY <4>1 DEF Requests, GoodCall, RedeemCall
      <4>3. \A key : Has(key)' <=> Has(key) BY <3>1 DEF Has
      <4>4. \A v \in Worker \ {w} : PutKeys(v)' = PutKeys(v) BY <1>0, OtherKeys
      <4>5. CountedFor(o)' = CountedFor(o) BY <4>3 DEF CountedFor
      <4>6. CountedSoon(o)' = CountedSoon(o) \cup {x}
        <5>1. ASSUME NEW y \in User PROVE y \in CountedSoon(o)' <=> y \in CountedSoon(o) \/ y = x
          BY <3>2, <4>1, <4>3, <4>4 DEF CountedSoon
        <5> QED BY <4>2, <5>1 DEF CountedSoon
      <4>7. Redeeming(o)' \subseteq Worker BY DEF Redeeming
      <4>8. Orderly({})' => CountedSoon(o) = CountedFor(o)
        <5> SUFFICES ASSUME Orderly({}) PROVE CountedSoon(o) = CountedFor(o)
          BY <1>2
        <5>1. \A v \in Worker : \A y : Counted(o, y) \notin PutKeys(v)
          BY <3>2, <4>2, CountedPlanned DEF Orderly, Caps, OneAt
        <5> QED BY <5>1 DEF CountedSoon, CountedFor
      <4> QED BY <2>0, <4>1, <4>2, <4>5, <4>6, <4>7, <4>8, CappedMore
    <3> QED BY <3>3, <3>4
  <2>3. CASE Writes(w)
    <3>1. PICK z \in Planned(call[w].todo) : Wrote(w, z) BY <2>3, OneWrite
    <3>2. \A v \in Worker \ {w} : PutKeys(v)' = PutKeys(v) BY <1>0, OtherKeys
    <3>3. \A key : key # z.key => /\ Has(key)' <=> Has(key)
                                  /\ key \in PutKeys(w)' <=> key \in PutKeys(w)
      BY <3>1 DEF Wrote, Has
    <3>4. CASE \A x : z.key # Counted(o, x)
      <4>1. \A x : /\ Has(Counted(o, x))' <=> Has(Counted(o, x))
                   /\ \A v \in Worker : Counted(o, x) \in PutKeys(v)' <=> Counted(o, x) \in PutKeys(v)
        BY <3>2, <3>3, <3>4
      <4>2. CountedFor(o)' = CountedFor(o) BY <4>1 DEF CountedFor
      <4>3. CountedSoon(o)' = CountedSoon(o) BY <4>1 DEF CountedSoon
      <4>4. Redeeming(o)' = Redeeming(o) BY <4>1 DEF Redeeming
      <4> QED BY <1>2, <2>0, <4>2, <4>3, <4>4, CappedFewer
    <3>5. ASSUME NEW x, z.key = Counted(o, x) PROVE Capped(o)'
      <4>1. call[w].op = "redeem" /\ x = call[w].arg[1] /\ z.do = "put" BY <3>1, <3>5, CountedWriter
      <4>2. x \in User BY <4>1 DEF Requests, GoodCall, RedeemCall
      <4>3. Counted(o, x) \in PutKeys(w) BY <3>1, <3>5, <4>1, PutOfKey
      <4>4. Has(Counted(o, x))' /\ Counted(o, x) \notin PutKeys(w)' BY <3>1, <3>5, <4>3 DEF Wrote, Has
      <4>5. \A y : y # x => Counted(o, y) # Counted(o, x) BY DEF Counted
      <4>6. \A y : y # x => /\ Has(Counted(o, y))' <=> Has(Counted(o, y))
                            /\ Counted(o, y) \in PutKeys(w)' <=> Counted(o, y) \in PutKeys(w)
        BY <3>3, <3>5, <4>5
      <4>7. CountedFor(o)' = CountedFor(o) \cup {x} BY <4>2, <4>4, <4>6 DEF CountedFor
      <4>8. CountedSoon(o)' \subseteq CountedSoon(o)
        <5>1. ASSUME NEW y \in CountedSoon(o)' PROVE y \in CountedSoon(o)
          BY <3>2, <4>2, <4>3, <4>6 DEF CountedSoon
        <5> QED BY <5>1
      <4>9. w \in Redeeming(o) BY <4>2, <4>3 DEF Redeeming
      <4>10. \A y : Counted(o, y) \notin PutKeys(w)'
        <5>1. \A y : Counted(o, y) \in PutKeys(w) => y = x BY <4>1, CountedPlanned
        <5> QED BY <4>4, <4>6, <5>1
      <4>11. Redeeming(o)' = Redeeming(o) \ {w} BY <3>2, <4>10 DEF Redeeming
      <4> QED BY <1>2, <2>0, <4>2, <4>7, <4>8, <4>9, <4>11, CappedFewer
    <3> QED BY <3>4, <3>5
  <2> QED BY <2>1, <2>2, <2>3 DEF Step
<1> QED BY <1>3, <1>4 DEF Caps

CodeOf(c, o) == Has(Invite(c)) /\ items[Invite(c)] = o

\* What an offer and a redemption know of the code they are about.
Leads(w) ==
    LET k == call[w]
        c == k.arg[2]
    IN  /\ k.op = "offer" =>
              /\ k.at = "create" \/ Invite(c) \in PutKeys(w) => ~Has(Invite(c))
              /\ k.at = "done" => Invite(c) \in PutKeys(w) \/ CodeOf(c, k.arg[1])
        /\ k.op = "redeem" =>
              /\ k.at # "invite" => CodeOf(c, k.arg[3])
              /\ k.at = "done" => \/ Counted(k.arg[3], k.arg[1]) \in PutKeys(w)
                                  \/ Has(Counted(k.arg[3], k.arg[1]))

\* Every redemption of a code is counted for its owner.
Backed ==
    \A c \in Code, x \in User : Has(Redemption(c, x)) =>
        \E o \in User : CodeOf(c, o) /\ x \in CountedSoon(o)

\* The code of an owner names the owner, or an offer is about to make it do so.
Offered(o) ==
    Has(InviteOwner(o)) =>
       \/ CodeOf(items[InviteOwner(o)], o)
       \/ \E w \in Worker : /\ call[w].op = "offer" /\ call[w].arg[1] = o
                            /\ call[w].arg[2] = items[InviteOwner(o)]
                            /\ Invite(items[InviteOwner(o)]) \in PutKeys(w)

Codes ==
    User \notin shared =>
       /\ OneAt(User)
       /\ \A w \in Worker : Leads(w)
       /\ {} \notin torn => Backed
       /\ \A o \in User : {o} \notin torn => Offered(o)

\* A code that is in use is not given again.
LEMMA CodesStay ==
    ASSUME Requests, \A v \in Worker : Leads(v), NEW w \in Worker, Step(w), NEW c,
           Has(Invite(c))
    PROVE  Has(Invite(c))' /\ items'[Invite(c)] = items[Invite(c)]
<1>1. CASE Writes(w)
  <2>1. PICK z \in Planned(call[w].todo) : Wrote(w, z) BY <1>1, OneWrite
  <2>2. z.key # Invite(c)
    <3> SUFFICES ASSUME z.key = Invite(c) PROVE FALSE OBVIOUS
    <3>1. call[w].op = "offer" /\ c = call[w].arg[2] /\ z.do = "put" BY <2>1, CountedWriter
    <3>2. Invite(c) \in PutKeys(w) BY <2>1, <3>1, PutOfKey
    <3> QED BY <3>1, <3>2 DEF Leads
  <2> QED BY <2>1, <2>2 DEF Wrote, Has
<1>2. CASE ~Writes(w)
  BY <1>2 DEF Step, Begins, Moves, Ends, Plans, Crashes, Quiet, Has
<1> QED BY <1>1, <1>2

LEMMA CountedStays ==
    ASSUME Requests, NEW w \in Worker, Step(w), NEW o, NEW x, Has(Counted(o, x))
    PROVE  Has(Counted(o, x))'
<1>1. CASE Writes(w)
  <2>1. PICK z \in Planned(call[w].todo) : Wrote(w, z) BY <1>1, OneWrite
  <2>2. CASE z.key = Counted(o, x)
    <3>1. z.do = "put" BY <2>1, <2>2, CountedWriter
    <3>2. z.key \in PutKeys(w) BY <2>1, <3>1, PutOfKey
    <3> QED BY <2>1, <2>2, <3>2 DEF Wrote, Has
  <2>3. CASE z.key # Counted(o, x) BY <2>1, <2>3 DEF Wrote, Has
  <2> QED BY <2>2, <2>3
<1>2. CASE ~Writes(w)
  BY <1>2 DEF Step, Begins, Moves, Ends, Plans, Crashes, Quiet, Has
<1> QED BY <1>1, <1>2

\* What a worker was about to count is counted, unless its request is torn.
LEMMA CountedSoonStays ==
    ASSUME Requests, NEW w \in Worker, Step(w), {} \notin torn', NEW o \in User,
           NEW x \in CountedSoon(o)
    PROVE  x \in CountedSoon(o)'
<1>0. x \in User BY DEF CountedSoon
<1>1. CASE Has(Counted(o, x)) BY <1>0, <1>1, CountedStays DEF CountedSoon
<1>2. ASSUME NEW v \in Worker, Counted(o, x) \in PutKeys(v)
      PROVE  x \in CountedSoon(o)'
  <2>1. CASE v # w
    <3>1. PutKeys(v)' = PutKeys(v) BY <2>1, OtherKeys DEF Step
    <3> QED BY <1>0, <1>2, <3>1 DEF CountedSoon
  <2>2. CASE v = w /\ Writes(w)
    <3>1. PICK z \in Planned(call[w].todo) : Wrote(w, z) BY <2>2, OneWrite
    <3>2. \/ Counted(o, x) \in PutKeys(w)'
          \/ Has(Counted(o, x))'
      BY <1>2, <2>2, <3>1 DEF Wrote, Has
    <3> QED BY <1>0, <3>2 DEF CountedSoon
  <2>3. CASE v = w /\ ~Writes(w)
    <3>1. {} \in call[w].on BY <1>2, <2>3, CountedPlanned
    <3>2. ~Crashes(w) BY <3>1 DEF Crashes
    <3>3. call[w].todo # <<>> BY <1>2, <2>3, NoKeys
    <3> QED BY <2>3, <3>2, <3>3, IdleCall DEF Step, Begins, Moves, Ends, Plans
  <2> QED BY <2>1, <2>2, <2>3
<1> QED BY <1>1, <1>2 DEF CountedSoon

LEMMA LeadsOther ==
    ASSUME Requests, \A v \in Worker : Leads(v), OneAt(User),
           NEW w \in Worker, Step(w), NEW v \in Worker \ {w}
    PROVE  Leads(v)'
<1> DEFINE k == call[v]
<1>0. PICK c, o, x, p : c = k.arg[2] /\ o = k.arg[1] /\ x = k.arg[1] /\ p = k.arg[3] OBVIOUS
<1>1. k = call'[v] /\ PutKeys(v)' = PutKeys(v) /\ Leads(v) BY OtherKeys DEF Step
<1>2. k.op = "offer" /\ ~Has(Invite(c)) => ~Has(Invite(c))'
  <2> SUFFICES ASSUME k.op = "offer", ~Has(Invite(c)), Has(Invite(c))' PROVE FALSE OBVIOUS
  <2>1. Writes(w) BY DEF Step, Begins, Moves, Ends, Plans, Crashes, Quiet, Has
  <2>2. PICK z \in Planned(call[w].todo) : Wrote(w, z) BY <2>1, OneWrite
  <2>3. z.key = Invite(c) BY <2>2 DEF Wrote, Has
  <2>4. call[w].op = "offer" BY <2>2, <2>3, CountedWriter
  <2>5. User \in call[w].on /\ User \in call[v].on BY <2>4 DEF Requests, GoodCall, OfferCall
  <2> QED BY <2>5 DEF OneAt
<1>3. Has(Invite(c)) => Has(Invite(c))' /\ items'[Invite(c)] = items[Invite(c)]
  BY CodesStay
<1>4. Has(Counted(p, x)) => Has(Counted(p, x))' BY CountedStays
<1>5. call'[v].arg[1] = x /\ call'[v].arg[2] = c /\ call'[v].arg[3] = p BY <1>0, <1>1
<1> QED BY <1>0, <1>1, <1>2, <1>3, <1>4, <1>5 DEF Leads, CodeOf, Has

LEMMA LeadsOwn ==
    ASSUME Requests, \A v \in Worker : Leads(v), NEW w \in Worker, Step(w)
    PROVE  Leads(w)'
<1> DEFINE k == call[w]
           n == call'[w]
<1>0. PICK c, x, p : c = n.arg[2] /\ x = n.arg[1] /\ p = n.arg[3] OBVIOUS
<1>1. CASE Begins(w)
  <2>1. /\ n.todo = <<>> /\ n.at # "done"
        /\ n.op = "offer" => n.at = "owner"
        /\ n.op = "redeem" => n.at = "invite"
    BY <1>1 DEF Begins
  <2>2. PutKeys(w)' = {} BY <2>1, NoKeys
  <2> QED BY <2>1, <2>2 DEF Leads
<1>2. CASE Moves(w)
  <2>1. PutKeys(w)' = {} /\ items' = items /\ n.at # "done"
    <3>1. items' = items /\ n.todo = <<>> /\ n.at # "done" BY <1>2 DEF Moves, Quiet
    <3> QED BY <3>1, NoKeys
  <2>2. n.op = "offer" /\ n.at = "create" => ~Has(Invite(c)) BY <1>0, <1>2 DEF Moves
  <2>3. n.op = "redeem" => CodeOf(c, p)
    BY <1>0, <1>2 DEF Moves, Leads, CodeOf
  <2> QED BY <1>0, <2>1, <2>2, <2>3 DEF Leads, CodeOf, Has
<1>3. CASE Ends(w) \/ Crashes(w) BY <1>3, IdleCall DEF Ends, Crashes, Leads
<1>4. CASE Plans(w)
  <2>1. /\ items' = items /\ n.at = "done" /\ n.op = k.op /\ n.arg = k.arg
        /\ k.op = "offer" => k.at = "create"
        /\ k.op = "redeem" => k.at = "count"
    BY <1>4 DEF Plans, PairOps
  <2>2. /\ k.op = "offer" => PutKeys(w)' = {InviteOwner(x), Invite(c)}
        /\ k.op = "redeem" => PutKeys(w)' = {Redemption(c, x), Counted(p, x)}
    BY <1>0, <1>4, <2>1, InvitePlanKeys
  <2>3. /\ k.op = "offer" => ~Has(Invite(c))
        /\ k.op = "redeem" => CodeOf(c, p)
    BY <1>0, <2>1 DEF Leads
  <2> QED BY <1>0, <2>1, <2>2, <2>3 DEF Leads, CodeOf, Has
<1>5. CASE Writes(w)
  <2>1. PICK z \in Planned(k.todo) : Wrote(w, z) BY <1>5, OneWrite
  <2>2. CASE n = Idle BY <2>2, IdleCall DEF Leads
  <2>3. CASE n # Idle
    <3>1. n.op = k.op /\ n.arg = k.arg /\ n.at = "done" BY <1>5, <2>3 DEF Writes, With
    <3>2. k.at = "done" BY <2>1, WhoWrites DEF Requests
    <3>3. Has(Invite(c)) => Has(Invite(c))' /\ items'[Invite(c)] = items[Invite(c)]
      BY CodesStay
    <3>4. ASSUME k.op = "offer"
          PROVE  /\ Invite(c) \in PutKeys(w)' => ~Has(Invite(c))'
                 /\ Invite(c) \in PutKeys(w)' \/ CodeOf(c, x)'
      <4>1. CASE z.key = Invite(c)
        <5>1. z.do = "put" /\ z.val = x BY <1>0, <2>1, <3>1, <4>1, CountedWriter
        <5>2. z.key \in PutKeys(w) BY <2>1, <5>1, PutOfKey
        <5> QED BY <2>1, <4>1, <5>1, <5>2 DEF Wrote, CodeOf, Has
      <4>2. CASE z.key # Invite(c)
        <5>1. /\ Invite(c) \in PutKeys(w)' <=> Invite(c) \in PutKeys(w)
              /\ Has(Invite(c))' <=> Has(Invite(c))
          BY <2>1, <4>2 DEF Wrote, Has
        <5>2. /\ Invite(c) \in PutKeys(w) => ~Has(Invite(c))
              /\ Invite(c) \in PutKeys(w) \/ CodeOf(c, x)
          BY <1>0, <3>1, <3>2, <3>4 DEF Leads
        <5> QED BY <3>3, <5>1, <5>2 DEF CodeOf
      <4> QED BY <4>1, <4>2
    <3>5. ASSUME k.op = "redeem"
          PROVE  /\ CodeOf(c, p)'
                 /\ Counted(p, x) \in PutKeys(w)' \/ Has(Counted(p, x))'
      <4>1. /\ CodeOf(c, p)
            /\ Counted(p, x) \in PutKeys(w) \/ Has(Counted(p, x))
        BY <1>0, <3>1, <3>2, <3>5 DEF Leads
      <4>2. Has(Counted(p, x)) => Has(Counted(p, x))' BY CountedStays
      <4>3. Counted(p, x) \in PutKeys(w) =>
               Counted(p, x) \in PutKeys(w)' \/ Has(Counted(p, x))'
        BY <2>1 DEF Wrote, Has
      <4> QED BY <3>3, <4>1, <4>2, <4>3 DEF CodeOf
    <3> QED BY <1>0, <3>1, <3>4, <3>5 DEF Leads, CodeOf, Has
  <2> QED BY <2>2, <2>3
<1> QED BY <1>1, <1>2, <1>3, <1>4, <1>5 DEF Step

LEMMA BackedStep ==
    ASSUME Requests, \A v \in Worker : Leads(v), Backed, NEW w \in Worker, Step(w),
           {} \notin torn'
    PROVE  Backed'
<1> SUFFICES ASSUME NEW c \in Code, NEW x \in User, Has(Redemption(c, x))'
             PROVE  \E o \in User : CodeOf(c, o)' /\ x \in CountedSoon(o)'
  BY DEF Backed
<1>1. ASSUME NEW o \in User, CodeOf(c, o), x \in CountedSoon(o)
      PROVE  CodeOf(c, o)' /\ x \in CountedSoon(o)'
  <2>1. CodeOf(c, o)' BY <1>1, CodesStay DEF CodeOf
  <2> QED BY <1>1, <2>1, CountedSoonStays
<1>2. CASE Has(Redemption(c, x))
  <2>1. PICK o \in User : CodeOf(c, o) /\ x \in CountedSoon(o) BY <1>2 DEF Backed
  <2> QED BY <1>1, <2>1
<1>3. CASE ~Has(Redemption(c, x))
  <2> DEFINE k == call[w]
  <2>1. Writes(w) BY <1>3 DEF Step, Begins, Moves, Ends, Plans, Crashes, Quiet, Has
  <2>2. PICK z \in Planned(k.todo) : Wrote(w, z) BY <2>1, OneWrite
  <2>3. z.key = Redemption(c, x) BY <1>3, <2>2 DEF Wrote, Has
  <2>4. k.op = "redeem" /\ c = k.arg[2] /\ x = k.arg[1] BY <2>2, <2>3, CountedWriter
  <2>5. k.at = "done" BY <2>2, WhoWrites DEF Requests
  <2>6. PICK o \in User : o = k.arg[3] BY <2>4, <2>5 DEF Requests, GoodCall, RedeemCall
  <2>7. CodeOf(c, o) /\ (Counted(o, x) \in PutKeys(w) \/ Has(Counted(o, x)))
    BY <2>4, <2>5, <2>6 DEF Leads
  <2>8. x \in CountedSoon(o) BY <2>7 DEF CountedSoon
  <2> QED BY <1>1, <2>7, <2>8
<1> QED BY <1>2, <1>3

\* An owner is offered one code, by one request.
LEMMA OfferedStep ==
    ASSUME Requests, \A v \in Worker : Leads(v), \A v \in Worker : Leads(v)',
           NEW o \in User, Offered(o), NEW w \in Worker, Step(w), {o} \notin torn'
    PROVE  Offered(o)'
<1> DEFINE k == call[w]
           n == call'[w]
           key == InviteOwner(o)
<1> SUFFICES ASSUME Has(key)' PROVE Offered(o)' BY DEF Offered
<1>0. PICK c : c = items'[key] OBVIOUS
<1>1. CASE Has(key) /\ items[key] = c
  <2>1. CASE CodeOf(c, o) BY <1>0, <2>1, CodesStay DEF CodeOf, Offered
  <2>2. ASSUME NEW v \in Worker, call[v].op = "offer", call[v].arg[1] = o,
               call[v].arg[2] = c, Invite(c) \in PutKeys(v)
        PROVE  Offered(o)'
    <3>1. CASE v # w
      <4>1. PutKeys(v)' = PutKeys(v) /\ call'[v] = call[v] BY <3>1, OtherKeys DEF Step
      <4> QED BY <1>0, <2>2, <4>1 DEF Offered
    <3>2. CASE v = w /\ Writes(w)
      <4>1. PICK z \in Planned(k.todo) : Wrote(w, z) BY <3>2, OneWrite
      <4>2. CASE z.key = Invite(c)
        <5>1. z.do = "put" /\ z.val = o BY <2>2, <3>2, <4>1, <4>2, CountedWriter
        <5>2. z.key \in PutKeys(w) BY <4>1, <5>1, PutOfKey
        <5> QED BY <1>0, <4>1, <4>2, <5>1, <5>2 DEF Wrote, Has, CodeOf, Offered
      <4>3. CASE z.key # Invite(c)
        <5>1. Invite(c) \in PutKeys(w)' BY <2>2, <3>2, <4>1, <4>3 DEF Wrote
        <5>2. n.todo # <<>> BY <5>1, NoKeys
        <5>3. n.op = k.op /\ n.arg = k.arg BY <3>2, <5>2, IdleCall DEF Writes, With
        <5> QED BY <1>0, <2>2, <3>2, <5>1, <5>3 DEF Offered
      <4> QED BY <4>2, <4>3
    <3>3. CASE v = w /\ ~Writes(w)
      <4>1. {o} \in k.on BY <2>2, <3>3 DEF Requests, GoodCall, OfferCall
      <4>2. ~Crashes(w) BY <4>1 DEF Crashes
      <4>3. k.todo # <<>> BY <2>2, <3>3, NoKeys
      <4> QED BY <3>3, <4>2, <4>3, IdleCall DEF Step, Begins, Moves, Ends, Plans
    <3> QED BY <3>1, <3>2, <3>3
  <2>3. \/ CodeOf(c, o)
        \/ \E v \in Worker : /\ call[v].op = "offer" /\ call[v].arg[1] = o
                             /\ call[v].arg[2] = c /\ Invite(c) \in PutKeys(v)
    BY <1>1 DEF Offered
  <2> QED BY <2>1, <2>2, <2>3
<1>2. CASE ~(Has(key) /\ items[key] = c)
  <2>1. Writes(w)
    BY <1>0, <1>2 DEF Step, Begins, Moves, Ends, Plans, Crashes, Quiet, Has
  <2>2. PICK z \in Planned(k.todo) : Wrote(w, z) BY <2>1, OneWrite
  <2>3. z.key = key BY <1>0, <1>2, <2>2 DEF Wrote, Has
  <2>4. /\ k.op = "offer" /\ o = k.arg[1] /\ items'[key] = k.arg[2]
    <3>1. GoodCall(k) BY DEF Requests
    <3>2. key[1] = "INVITE_OWNER" BY DEF InviteOwner
    <3>3. k.op = "offer" /\ z \in {Put(InviteOwner(k.arg[1]), k.arg[2]),
                                   Put(Invite(k.arg[2]), k.arg[1])}
      BY <2>2, <2>3, <3>1, <3>2, WhoWrites
    <3>4. z.key # Invite(k.arg[2]) BY <2>3 DEF InviteOwner, Invite
    <3>5. z.do = "put" /\ z.key = InviteOwner(k.arg[1]) /\ z.val = k.arg[2]
      BY <3>3, <3>4, OfferKeys
    <3>6. z.key \in PutKeys(w) BY <2>2, <3>5, PutOfKey
    <3> QED BY <2>2, <2>3, <3>3, <3>5, <3>6 DEF Wrote, InviteOwner
  <2>5. c = k.arg[2] BY <1>0, <2>4
  <2>6. k.at = "done" BY <2>2, WhoWrites DEF Requests
  <2>7. Invite(c) \in PutKeys(w) \/ CodeOf(c, o) BY <2>4, <2>5, <2>6 DEF Leads
  <2>8. CASE CodeOf(c, o) BY <1>0, <2>8, CodesStay DEF CodeOf, Offered
  <2>9. CASE Invite(c) \in PutKeys(w)
    <3>1. Invite(c) \in PutKeys(w)' BY <2>2, <2>3, <2>9 DEF Wrote, Invite, InviteOwner
    <3>2. n.todo # <<>> BY <3>1, NoKeys
    <3>3. n.op = k.op /\ n.arg = k.arg BY <2>1, <3>2, IdleCall DEF Writes, With
    <3> QED BY <1>0, <2>4, <2>5, <3>1, <3>3 DEF Offered
  <2> QED BY <2>7, <2>8, <2>9
<1> QED BY <1>1, <1>2

LEMMA CodesStep ==
    ASSUME Requests, Codes, NEW w \in Worker, Step(w)
    PROVE  Codes'
<1> SUFFICES ASSUME User \notin shared'
             PROVE  /\ OneAt(User)'
                    /\ \A v \in Worker : Leads(v)'
                    /\ {} \notin torn' => Backed'
                    /\ \A o \in User : {o} \notin torn' => Offered(o)'
  BY DEF Codes
<1>1. shared \subseteq shared' /\ torn \subseteq torn'
  BY DEF Step, Begins, Moves, Ends, Plans, Writes, Crashes, Quiet
<1>2. /\ OneAt(User) /\ \A v \in Worker : Leads(v)
      /\ {} \notin torn => Backed
      /\ \A o \in User : {o} \notin torn => Offered(o)
  BY <1>1 DEF Codes
<1>3. OneAt(User)' BY <1>2, OneAtKept
<1>4. \A v \in Worker : Leads(v)' BY <1>2, LeadsOther, LeadsOwn
<1>5. {} \notin torn' => Backed' BY <1>1, <1>2, BackedStep
<1>6. \A o \in User : {o} \notin torn' => Offered(o)' BY <1>1, <1>2, <1>4, OfferedStep
<1> QED BY <1>3, <1>4, <1>5, <1>6

LEMMA InvitesInit == Init => Caps /\ Codes
<1> SUFFICES ASSUME Init PROVE Caps /\ Codes OBVIOUS
<1>1. DOMAIN items = {} /\ \A w \in Worker : call[w] = Idle BY DEF Init, TableInit
<1>2. \A w \in Worker : PutKeys(w) = {} /\ call[w].on = {} /\ call[w].op = "idle"
  BY <1>1, NoKeys, IdleCall
<1>3. \A o : CountedFor(o) = {} /\ CountedSoon(o) = {} /\ Redeeming(o) = {}
  BY <1>1, <1>2 DEF CountedFor, CountedSoon, Redeeming, Has
<1>4. ASSUME NEW o PROVE Capped(o)
  <2>3. CountedFor(o) = {} /\ CountedSoon(o) = {} /\ Redeeming(o) = {} BY <1>3
  <2>1. Cardinality({}) = 0 /\ IsFiniteSet({}) BY FS_EmptySet
  <2>2. Cardinality(Worker) \in Nat /\ Cardinality(Worker) # 0
    BY SocialConstants, FS_CardinalityType, FS_EmptySet
  <2>4. 0 + 0 <= MonthlyCap + Cardinality(Worker) - 1 /\ 0 <= MonthlyCap BY <2>2, SocialConstants
  <2> QED BY <2>1, <2>3, <2>4 DEF Capped
<1>5. \A S : OneAt(S) BY <1>2 DEF OneAt
<1>6. \A w \in Worker : Leads(w) BY <1>2 DEF Leads
<1>7. Backed /\ \A o \in User : Offered(o) BY <1>1 DEF Backed, Offered, Has
<1> QED BY <1>4, <1>5, <1>6, <1>7 DEF Caps, Codes

Invites == Requests /\ Caps /\ Codes

LEMMA InvitesAlways == Spec => []Invites
<1>1. Init => Invites BY RequestsInit, InvitesInit DEF Invites
<1>2. Invites /\ [Next]_vars => Invites'
  <2> SUFFICES ASSUME Invites, [Next]_vars PROVE Invites' OBVIOUS
  <2>1. CASE Next
    <3>1. Requests' /\ \E w \in Worker : Step(w) BY <2>1, Steps DEF Invites
    <3>2. Caps' /\ Codes' BY <3>1, CapsStep, CodesStep DEF Invites
    <3> QED BY <3>1, <3>2 DEF Invites
  <2>2. CASE UNCHANGED vars
    <3>1. /\ items' = items /\ call' = call /\ requests' = requests
          /\ shared' = shared /\ torn' = torn
      BY <2>2 DEF vars, tableVars
    <3>2. Requests' BY <2>2, RequestsNextGood DEF Invites
    <3>3. \A w \in Worker : PutKeys(w)' = PutKeys(w) BY <3>1, OtherKeys
    <3>4. \A key : Has(key)' <=> Has(key) BY <3>1 DEF Has
    <3>5. \A o : /\ CountedFor(o)' = CountedFor(o) /\ CountedSoon(o)' = CountedSoon(o)
                 /\ Redeeming(o)' = Redeeming(o)
      BY <3>3, <3>4 DEF CountedFor, CountedSoon, Redeeming
    <3>6. \A S : OneAt(S)' <=> OneAt(S) BY <3>1 DEF OneAt
    <3>7. \A o : Capped(o)' <=> Capped(o) BY <3>1, <3>5 DEF Capped, Orderly
    <3>8. Caps' BY <3>1, <3>6, <3>7 DEF Caps, Invites
    <3>9. \A c, o : CodeOf(c, o)' <=> CodeOf(c, o) BY <3>1 DEF CodeOf, Has
    <3>10. \A w \in Worker : Leads(w)' <=> Leads(w) BY <3>1, <3>3, <3>4, <3>9 DEF Leads
    <3>11. Backed' <=> Backed BY <3>4, <3>5, <3>9 DEF Backed
    <3>12. \A o : Offered(o)' <=> Offered(o) BY <3>1, <3>3, <3>4, <3>9 DEF Offered
    <3>13. Codes' BY <3>1, <3>6, <3>10, <3>11, <3>12 DEF Codes, Invites
    <3> QED BY <3>2, <3>8, <3>13 DEF Invites
  <2> QED BY <2>1, <2>2
<1> QED BY <1>1, <1>2, PTL DEF Spec

\* Whatever redemptions overlap, an inviter gets no more of them than the cap and
\* those that ran at once; one at a time, no more than the cap, by whatever codes
\* they came (redeem_invite).  And the code of a user leads back to the user, unless
\* two offers overlapped or one ended between its rows (_resolve_or_create_invite).
THEOREM InvitesAreCapped == Spec => []InvitesHold
<1>1. Invites => InvitesHold
  <2> SUFFICES ASSUME Invites, NEW o \in User
               PROVE  /\ Cardinality(CountedFor(o)) <= MonthlyCap + Cardinality(Worker) - 1
                      /\ Orderly({}) /\ User \notin shared =>
                            Cardinality(RedeemedOf(o)) <= MonthlyCap
                      /\ /\ Has(InviteOwner(o)) /\ AtRest({o})
                         /\ {o} \notin torn /\ User \notin shared
                         => CodeOf(items[InviteOwner(o)], o)
    BY DEF InvitesHold, CodeOf
  <2>1. Capped(o) /\ Codes BY DEF Invites, Caps
  <2>2. IsFiniteSet(CountedSoon(o)) BY <2>1 DEF Capped
  <2>3. Cardinality(CountedFor(o)) <= MonthlyCap + Cardinality(Worker) - 1
    <3>1. /\ Cardinality(CountedFor(o)) \in Nat /\ Cardinality(Redeeming(o)) \in Nat
          /\ Cardinality(Worker) \in Nat
      BY <2>2, Sizes
    <3> QED BY <2>1, <3>1, SocialConstants DEF Capped
  <2>4. ASSUME Orderly({}), User \notin shared
        PROVE  Cardinality(RedeemedOf(o)) <= MonthlyCap
    <3>1. Backed BY <2>1, <2>4 DEF Codes, Orderly
    <3>2. RedeemedOf(o) \subseteq CountedSoon(o) BY <3>1 DEF RedeemedOf, Backed, CodeOf
    <3>3. /\ Cardinality(RedeemedOf(o)) <= Cardinality(CountedSoon(o))
          /\ Cardinality(RedeemedOf(o)) \in Nat /\ Cardinality(CountedSoon(o)) \in Nat
      BY <2>2, <3>2, FS_Subset, FS_CardinalityType
    <3> QED BY <2>1, <2>4, <3>3, SocialConstants DEF Capped
  <2>5. ASSUME Has(InviteOwner(o)), AtRest({o}), {o} \notin torn, User \notin shared
        PROVE  CodeOf(items[InviteOwner(o)], o)
    <3>1. Offered(o) BY <2>1, <2>5 DEF Codes
    <3>2. ASSUME NEW w \in Worker, call[w].op = "offer", call[w].arg[1] = o PROVE FALSE
      <4>1. {o} \in call[w].on BY <3>2 DEF Invites, Requests, GoodCall, OfferCall
      <4> QED BY <2>5, <4>1 DEF AtRest
    <3> QED BY <2>5, <3>1, <3>2 DEF Offered
  <2> QED BY <2>3, <2>4, <2>5
<1> QED BY <1>1, InvitesAlways, PTL

-----------------------------------------------------------------------------
(* The two repositories.  What the items say of a fact is what the table   *)
(* says, and each method keeps it so, for it writes its own kinds of items *)
(* and its own table.                                                      *)

LEMMA WritesOfGraph ==
    /\ \A todo : Graph!AfterAll(todo) = AfterPlan(store, todo)
    /\ \A k, v : Graph!Put(k, v) = Put(k, v)
    /\ \A k : Graph!Delete(k) = Delete(k)
<1>1. ASSUME NEW todo PROVE Graph!AfterAll(todo) = AfterPlan(store, todo)
  <2>1. \A table, x : Graph!AfterIn(table, x) = AfterIn(table, x)
    BY Zenon DEF Graph!AfterIn, Graph!Updated, AfterIn, Updated
  <2>2. \A table, W : Graph!AfterSet(table, W) = AfterSet(table, W)
    BY Zenon, <2>1 DEF Graph!AfterSet, AfterSet
  <2>3. \A table : Graph!AfterPlan(table, todo) = AfterPlan(table, todo)
    BY Zenon, <2>2 DEF Graph!AfterPlan, AfterPlan
  <2> QED BY <2>3 DEF Graph!AfterAll
<1>2. ASSUME NEW k, NEW v
      PROVE  Graph!Put(k, v) = Put(k, v) /\ Graph!Delete(k) = Delete(k)
  BY DEF Graph!Put, Put, Graph!Delete, Delete
<1> QED BY <1>1, <1>2

LEMMA OnePut ==
    ASSUME NEW k, NEW v, store' = Graph!AfterAll(<<{Graph!Put(k, v)}>>)
    PROVE  Is(store', k, v) /\ \A other : other # k => Same(store', store, other)
<1>1. store' = AfterSet(store, {Put(k, v)}) BY WritesOfGraph, AfterOne
<1> QED BY <1>1, AfterPut

LEMMA OneDelete ==
    ASSUME NEW k, store' = Graph!AfterAll(<<{Graph!Delete(k)}>>)
    PROVE  k \notin DOMAIN store' /\ \A other : other # k => Same(store', store, other)
<1>1. store' = AfterSet(store, {Delete(k)}) BY WritesOfGraph, AfterOne
<1> QED BY <1>1, AfterDelete

LEMMA TwoPuts ==
    ASSUME NEW k, NEW v, NEW l, NEW u, k # l,
           store' = Graph!AfterAll(<<{Graph!Put(k, v)}, {Graph!Put(l, u)}>>)
    PROVE  /\ Is(store', k, v) /\ Is(store', l, u)
           /\ \A other : other # k /\ other # l => Same(store', store, other)
<1> DEFINE one == AfterSet(store, {Put(k, v)})
<1>1. Is(one, k, v) /\ \A other : other # k => Same(one, store, other) BY AfterPut
<1>2. store' = AfterSet(one, {Put(l, u)}) BY WritesOfGraph, AfterTwo
<1> HIDE DEF one
<1>3. Is(store', l, u) /\ \A other : other # l => Same(store', one, other)
  BY <1>2, AfterPut
<1> QED BY <1>1, <1>3 DEF Is, Same

LEMMA TwoDeletes ==
    ASSUME NEW k, NEW l,
           store' = Graph!AfterAll(<<{Graph!Delete(k)}, {Graph!Delete(l)}>>)
    PROVE  /\ k \notin DOMAIN store' /\ l \notin DOMAIN store'
           /\ \A other : other # k /\ other # l => Same(store', store, other)
<1> DEFINE one == AfterSet(store, {Delete(k)})
<1>1. k \notin DOMAIN one /\ \A other : other # k => Same(one, store, other) BY AfterDelete
<1>2. store' = AfterSet(one, {Delete(l)}) BY WritesOfGraph, AfterTwo
<1> HIDE DEF one
<1>3. l \notin DOMAIN store' /\ \A other : other # l => Same(store', one, other)
  BY <1>2, AfterDelete
<1> QED BY <1>1, <1>3 DEF Same

LEMMA ThreePuts ==
    ASSUME NEW k, NEW v, NEW l, NEW m, l # m, k # l, k # m,
           store' = Graph!AfterAll(<<{Graph!Put(k, v)}, {Graph!Put(l, v), Graph!Put(m, v)}>>)
    PROVE  /\ Is(store', k, v) /\ Is(store', l, v) /\ Is(store', m, v)
           /\ \A other : other # k /\ other # l /\ other # m => Same(store', store, other)
<1> DEFINE one == AfterSet(store, {Put(k, v)})
<1>1. Is(one, k, v) /\ \A other : other # k => Same(one, store, other) BY AfterPut
<1>2. store' = AfterSet(one, {Put(l, v), Put(m, v)}) BY WritesOfGraph, AfterTwo
<1> HIDE DEF one
<1> DEFINE two == AfterSet(one, {Put(l, v), Put(m, v)})
<1>3. /\ Is(two, l, v) /\ Is(two, m, v)
      /\ \A other : other # l /\ other # m => Same(two, one, other)
  BY AfterPuts
<1>4. store' = two BY <1>2
<1> HIDE DEF two
<1> QED BY <1>1, <1>3, <1>4 DEF Is, Same

-----------------------------------------------------------------------------
(* What the two keep of a fact.                                            *)

TableNames == {"friends", "requests", "blocks", "reactions", "codes", "redemptions",
               "threads", "messages"}

Tabled == DOMAIN tables = TableNames /\ calls \in 0..MaxCalls

FriendsSame ==
    \A x, y \in Member : There(Graph!Friend(x, y)) <=> <<x, y>> \in tables.friends

RequestsSame ==
    \A x, y \in Member :
        /\ There(Graph!RequestIn(x, y)) <=> <<x, y>> \in tables.requests
        /\ There(Graph!RequestOut(x, y)) <=> <<x, y>> \in tables.requests

BlocksSame ==
    \A x, y \in Member : There(Graph!Block(x, y)) <=> <<x, y>> \in tables.blocks

ReactionsSame ==
    /\ tables.reactions \subseteq Member
    /\ \A x \in Member : There(Graph!Reaction(x)) <=> x \in tables.reactions

CodesSame ==
    /\ tables.codes \subseteq Coupon \X Member
    /\ \A c \in Coupon, o \in Member :
          /\ <<c, o>> \in tables.codes <=> Is(store, Graph!Invite(c), o)
          /\ <<c, o>> \in tables.codes <=> Is(store, Graph!InviteOwner(o), c)
    /\ \A c \in Coupon : There(Graph!Invite(c)) => store[Graph!Invite(c)] \in Member
    /\ \A o \in Member : There(Graph!InviteOwner(o)) => store[Graph!InviteOwner(o)] \in Coupon

\* A redemption is of the code of its inviter, who has one.
RedemptionsSame ==
    /\ IsFiniteSet(tables.redemptions)
    /\ tables.redemptions \subseteq Coupon \X Member \X Member
    /\ \A r \in tables.redemptions : <<r[1], r[3]>> \in tables.codes
    /\ \A o, x \in Member :
          There(Graph!Counted(o, x)) <=> \E c \in Coupon : <<c, x, o>> \in tables.redemptions

TalksSame ==
    /\ \A r \in tables.threads :
          r.id \in 1..calls /\ \A x \in r.of : Is(store, Graph!Listed(x, r.id), r.of)
    /\ \A x \in Member, t \in 1..MaxCalls :
          There(Graph!Listed(x, t)) => \E r \in tables.threads : r.id = t /\ x \in r.of

MessagesSame ==
    /\ \A r \in tables.messages :
          /\ r.id \in 1..calls
          /\ r.thread \in 1..calls
          /\ Is(store, Graph!Message(r.thread, r.id), r.sender)
    /\ \A t, m \in 1..MaxCalls :
          There(Graph!Message(t, m)) => \E r \in tables.messages : r.thread = t /\ r.id = m

StoresInv ==
    /\ Tabled
    /\ FriendsSame /\ RequestsSame /\ BlocksSame /\ ReactionsSame
    /\ CodesSame /\ RedemptionsSame /\ TalksSame /\ MessagesSame

\* A step that is about some kinds of items and one table.
Touches(kinds, table) ==
    /\ \A key : key[1] \notin kinds => Same(store', store, key)
    /\ DOMAIN tables' = TableNames
    /\ \A other \in TableNames \ {table} : tables'[other] = tables[other]

LEMMA FriendsKept ==
    ASSUME NEW kinds, NEW table \in TableNames \ {"friends"}, Touches(kinds, table),
           "FRIEND" \notin kinds, FriendsSame
    PROVE  FriendsSame'
<1>1. tables'.friends = tables.friends BY DEF Touches, TableNames
<1>2. \A x, y : Same(store', store, Graph!Friend(x, y)) BY DEF Touches, Graph!Friend
<1> QED BY <1>1, <1>2 DEF FriendsSame, Same, There

LEMMA AskedKept ==
    ASSUME NEW kinds, NEW table \in TableNames \ {"requests"}, Touches(kinds, table),
           "REQUEST_IN" \notin kinds, "REQUEST_OUT" \notin kinds, RequestsSame
    PROVE  RequestsSame'
<1>1. tables'.requests = tables.requests BY DEF Touches, TableNames
<1>2. \A x, y : /\ Same(store', store, Graph!RequestIn(x, y))
                /\ Same(store', store, Graph!RequestOut(x, y))
  BY DEF Touches, Graph!RequestIn, Graph!RequestOut
<1> QED BY <1>1, <1>2 DEF RequestsSame, Same, There

LEMMA BlocksKept ==
    ASSUME NEW kinds, NEW table \in TableNames \ {"blocks"}, Touches(kinds, table),
           "BLOCK" \notin kinds, BlocksSame
    PROVE  BlocksSame'
<1>1. tables'.blocks = tables.blocks BY DEF Touches, TableNames
<1>2. \A x, y : Same(store', store, Graph!Block(x, y)) BY DEF Touches, Graph!Block
<1> QED BY <1>1, <1>2 DEF BlocksSame, Same, There

LEMMA ReactionsKept ==
    ASSUME NEW kinds, NEW table \in TableNames \ {"reactions"}, Touches(kinds, table),
           "REACTION" \notin kinds, ReactionsSame
    PROVE  ReactionsSame'
<1>1. tables'.reactions = tables.reactions BY DEF Touches, TableNames
<1>2. \A x : Same(store', store, Graph!Reaction(x)) BY DEF Touches, Graph!Reaction
<1> QED BY <1>1, <1>2 DEF ReactionsSame, Same, There

LEMMA CodesKept ==
    ASSUME NEW kinds, NEW table \in TableNames \ {"codes"}, Touches(kinds, table),
           "INVITE" \notin kinds, "INVITE_OWNER" \notin kinds, CodesSame
    PROVE  CodesSame'
<1>1. tables'.codes = tables.codes BY DEF Touches, TableNames
<1>2. \A x : /\ Same(store', store, Graph!Invite(x))
             /\ Same(store', store, Graph!InviteOwner(x))
  BY DEF Touches, Graph!Invite, Graph!InviteOwner
<1> QED BY <1>1, <1>2 DEF CodesSame, Same, There, Is

LEMMA RedemptionsKept ==
    ASSUME NEW kinds, NEW table \in TableNames \ {"redemptions"}, Touches(kinds, table),
           "INVITER" \notin kinds, RedemptionsSame, tables.codes \subseteq tables'.codes
    PROVE  RedemptionsSame'
<1>1. tables'.redemptions = tables.redemptions BY DEF Touches, TableNames
<1>2. \A o, x : Same(store', store, Graph!Counted(o, x)) BY DEF Touches, Graph!Counted
<1> QED BY <1>1, <1>2 DEF RedemptionsSame, Same, There

LEMMA TalksKept ==
    ASSUME NEW kinds, NEW table \in TableNames \ {"threads"}, Touches(kinds, table),
           "USER_THREAD" \notin kinds, Tabled, calls' = calls \/ calls' = calls + 1,
           TalksSame
    PROVE  TalksSame'
<1>1. tables'.threads = tables.threads BY DEF Touches, TableNames
<1>2. \A x, t : Same(store', store, Graph!Listed(x, t)) BY DEF Touches, Graph!Listed
<1>3. \A t \in 1..calls : t \in 1..calls' BY DEF Tabled
<1> QED BY <1>1, <1>2, <1>3 DEF TalksSame, Same, There, Is

LEMMA MessagesKept ==
    ASSUME NEW kinds, NEW table \in TableNames \ {"messages"}, Touches(kinds, table),
           "MESSAGE" \notin kinds, Tabled, calls' = calls \/ calls' = calls + 1,
           MessagesSame
    PROVE  MessagesSame'
<1>1. tables'.messages = tables.messages BY DEF Touches, TableNames
<1>2. \A t, m : Same(store', store, Graph!Message(t, m)) BY DEF Touches, Graph!Message
<1>3. \A t \in 1..calls : t \in 1..calls' BY DEF Tabled
<1> QED BY <1>1, <1>2, <1>3 DEF MessagesSame, Same, There, Is

-----------------------------------------------------------------------------
(* What each method does to its own items and its table.                   *)

LEMMA TableOf ==
    ASSUME Tabled, NEW todo, NEW table \in TableNames, NEW rows,
           \/ Both(todo, table, rows)
           \/ BothNew(todo, table, rows)
    PROVE  /\ store' = Graph!AfterAll(todo)
           /\ DOMAIN tables' = TableNames
           /\ tables'[table] = rows
           /\ \A other \in TableNames \ {table} : tables'[other] = tables[other]
           /\ calls' = calls \/ calls' = calls + 1
           /\ Tabled'
BY SocialStoresConstants DEF Tabled, Both, BothNew

LEMMA EdgesStep ==
    ASSUME Tabled, FriendsSame, EdgesNext
    PROVE  Touches({"FRIEND"}, "friends") /\ Tabled' /\ calls' = calls /\ FriendsSame'
<1> PICK x \in Member, y \in Member : x # y /\ (AddEdge(x, y) \/ RemoveEdge(x, y))
  BY DEF EdgesNext, Couples
<1> DEFINE k == Graph!Friend(x, y)
           l == Graph!Friend(y, x)
<1>1. /\ k # l /\ k[1] = "FRIEND" /\ l[1] = "FRIEND"
      /\ \A a, b : /\ Graph!Friend(a, b) = k <=> a = x /\ b = y
                   /\ Graph!Friend(a, b) = l <=> a = y /\ b = x
  BY DEF Graph!Friend
<1>2. "friends" \in TableNames /\ tables["friends"] = tables.friends BY DEF TableNames
<1>3. CASE AddEdge(x, y)
  <2>1. Both(<<{Graph!Put(k, TRUE)}, {Graph!Put(l, TRUE)}>>, "friends",
             tables.friends \cup {<<x, y>>, <<y, x>>})
    BY <1>3 DEF AddEdge, Graph!AddFriendEdge
  <2>2. /\ store' = Graph!AfterAll(<<{Graph!Put(k, TRUE)}, {Graph!Put(l, TRUE)}>>)
        /\ Tabled' /\ calls' = calls /\ DOMAIN tables' = TableNames
        /\ tables'["friends"] = tables.friends \cup {<<x, y>>, <<y, x>>}
        /\ \A other \in TableNames \ {"friends"} : tables'[other] = tables[other]
    BY <1>2, <2>1, TableOf DEF Both
  <2>3. /\ Is(store', k, TRUE) /\ Is(store', l, TRUE)
        /\ \A other : other # k /\ other # l => Same(store', store, other)
    <3>1. k # l BY <1>1
    <3>2. store' = Graph!AfterAll(<<{Graph!Put(k, TRUE)}, {Graph!Put(l, TRUE)}>>) BY <2>2
    <3> HIDE DEF k, l
    <3> QED BY <3>1, <3>2, TwoPuts
  <2> HIDE DEF k, l
  <2>4. Touches({"FRIEND"}, "friends") BY <1>1, <2>2, <2>3 DEF Touches
  <2>5. ASSUME NEW a \in Member, NEW b \in Member
        PROVE  Graph!Friend(a, b) \in DOMAIN store' <=> <<a, b>> \in tables'.friends
    <3>1. Graph!Friend(a, b) \in DOMAIN store <=> <<a, b>> \in tables.friends
      BY DEF FriendsSame, There
    <3>2. <<a, b>> \in {<<x, y>>, <<y, x>>} <=> Graph!Friend(a, b) \in {k, l}
      BY <1>1
    <3>3. Graph!Friend(a, b) \notin {k, l}
            => (Graph!Friend(a, b) \in DOMAIN store' <=> Graph!Friend(a, b) \in DOMAIN store)
      BY <2>3 DEF Same
    <3>4. Graph!Friend(a, b) \in {k, l} => Graph!Friend(a, b) \in DOMAIN store'
      BY <2>3 DEF Is
    <3> QED BY <2>2, <3>1, <3>2, <3>3, <3>4
  <2>6. FriendsSame' BY <2>5 DEF FriendsSame, There
  <2> QED BY <2>2, <2>4, <2>6
<1>4. CASE RemoveEdge(x, y)
  <2>1. Both(<<{Graph!Delete(k)}, {Graph!Delete(l)}>>, "friends",
             tables.friends \ {<<x, y>>, <<y, x>>})
    BY <1>4 DEF RemoveEdge, Graph!RemoveFriendEdge
  <2>2. /\ store' = Graph!AfterAll(<<{Graph!Delete(k)}, {Graph!Delete(l)}>>)
        /\ Tabled' /\ calls' = calls /\ DOMAIN tables' = TableNames
        /\ tables'["friends"] = tables.friends \ {<<x, y>>, <<y, x>>}
        /\ \A other \in TableNames \ {"friends"} : tables'[other] = tables[other]
    BY <1>2, <2>1, TableOf DEF Both
  <2>3. /\ k \notin DOMAIN store' /\ l \notin DOMAIN store'
        /\ \A other : other # k /\ other # l => Same(store', store, other)
    BY <2>2, TwoDeletes
  <2> HIDE DEF k, l
  <2>4. Touches({"FRIEND"}, "friends") BY <1>1, <2>2, <2>3 DEF Touches
  <2>5. ASSUME NEW a \in Member, NEW b \in Member
        PROVE  Graph!Friend(a, b) \in DOMAIN store' <=> <<a, b>> \in tables'.friends
    <3>1. Graph!Friend(a, b) \in DOMAIN store <=> <<a, b>> \in tables.friends
      BY DEF FriendsSame, There
    <3>2. <<a, b>> \in {<<x, y>>, <<y, x>>} <=> Graph!Friend(a, b) \in {k, l}
      BY <1>1
    <3>3. Graph!Friend(a, b) \notin {k, l}
            => (Graph!Friend(a, b) \in DOMAIN store' <=> Graph!Friend(a, b) \in DOMAIN store)
      BY <2>3 DEF Same
    <3>4. Graph!Friend(a, b) \in {k, l} => Graph!Friend(a, b) \notin DOMAIN store'
      BY <2>3 DEF Is
    <3> QED BY <2>2, <3>1, <3>2, <3>3, <3>4
  <2>6. FriendsSame' BY <2>5 DEF FriendsSame, There
  <2> QED BY <2>2, <2>4, <2>6
<1> QED BY <1>3, <1>4

LEMMA RequestsStep ==
    ASSUME Tabled, RequestsSame, RequestsNext
    PROVE  /\ Touches({"REQUEST_IN", "REQUEST_OUT"}, "requests")
           /\ Tabled' /\ calls' = calls /\ RequestsSame'
<1> PICK x \in Member, y \in Member : UpsertRequest(x, y) \/ DeleteRequest(x, y)
  BY DEF RequestsNext, Couples
<1> DEFINE k == Graph!RequestIn(x, y)
           l == Graph!RequestOut(x, y)
<1>1. /\ k # l /\ k[1] = "REQUEST_IN" /\ l[1] = "REQUEST_OUT"
      /\ \A a, b : /\ Graph!RequestIn(a, b)[1] = "REQUEST_IN"
                   /\ Graph!RequestOut(a, b)[1] = "REQUEST_OUT"
                   /\ Graph!RequestIn(a, b) = k <=> a = x /\ b = y
                   /\ Graph!RequestOut(a, b) = l <=> a = x /\ b = y
  <2>1. k[1] = "REQUEST_IN" /\ l[1] = "REQUEST_OUT" BY DEF Graph!RequestIn, Graph!RequestOut
  <2>2. k # l BY <2>1
  <2> QED BY <2>1, <2>2 DEF Graph!RequestIn, Graph!RequestOut
<1>2. "requests" \in TableNames /\ tables["requests"] = tables.requests BY DEF TableNames
<1>3. CASE UpsertRequest(x, y)
  <2>1. Both(<<{Graph!Put(k, TRUE)}, {Graph!Put(l, TRUE)}>>, "requests",
             tables.requests \cup {<<x, y>>})
    BY <1>3 DEF UpsertRequest, Graph!UpsertFriendRequest
  <2>2. /\ store' = Graph!AfterAll(<<{Graph!Put(k, TRUE)}, {Graph!Put(l, TRUE)}>>)
        /\ Tabled' /\ calls' = calls /\ DOMAIN tables' = TableNames
        /\ tables'["requests"] = tables.requests \cup {<<x, y>>}
        /\ \A other \in TableNames \ {"requests"} : tables'[other] = tables[other]
    BY <1>2, <2>1, TableOf DEF Both
  <2> HIDE DEF k, l
  <2>3. /\ Is(store', k, TRUE) /\ Is(store', l, TRUE)
        /\ \A other : other # k /\ other # l => Same(store', store, other)
    <3>1. k # l BY <1>1
    <3>2. store' = Graph!AfterAll(<<{Graph!Put(k, TRUE)}, {Graph!Put(l, TRUE)}>>) BY <2>2
    <3> HIDE DEF k, l
    <3> QED BY <3>1, <3>2, TwoPuts
  <2>4. Touches({"REQUEST_IN", "REQUEST_OUT"}, "requests") BY <1>1, <2>2, <2>3 DEF Touches
  <2>5. ASSUME NEW a \in Member, NEW b \in Member
        PROVE  /\ Graph!RequestIn(a, b) \in DOMAIN store' <=> <<a, b>> \in tables'.requests
               /\ Graph!RequestOut(a, b) \in DOMAIN store' <=> <<a, b>> \in tables'.requests
    <3>1. /\ Graph!RequestIn(a, b) \in DOMAIN store <=> <<a, b>> \in tables.requests
          /\ Graph!RequestOut(a, b) \in DOMAIN store <=> <<a, b>> \in tables.requests
      BY DEF RequestsSame, There
    <3>2. Graph!RequestIn(a, b) # l /\ Graph!RequestOut(a, b) # k BY <1>1
    <3>3. CASE a = x /\ b = y
      <4>1. Graph!RequestIn(a, b) = k /\ Graph!RequestOut(a, b) = l BY <1>1, <3>3
      <4> QED BY <2>2, <2>3, <3>3, <4>1 DEF Is
    <3>4. CASE ~(a = x /\ b = y)
      <4>1. Graph!RequestIn(a, b) # k /\ Graph!RequestOut(a, b) # l BY <1>1, <3>4
      <4>2. /\ Same(store', store, Graph!RequestIn(a, b))
            /\ Same(store', store, Graph!RequestOut(a, b))
        BY <2>3, <3>2, <4>1
      <4>3. <<a, b>> \in tables'.requests <=> <<a, b>> \in tables.requests BY <2>2, <3>4
      <4> QED BY <3>1, <4>2, <4>3 DEF Same
    <3> QED BY <3>3, <3>4
  <2>6. RequestsSame' BY <2>5 DEF RequestsSame, There
  <2> QED BY <2>2, <2>4, <2>6
<1>4. CASE DeleteRequest(x, y)
  <2>1. Both(<<{Graph!Delete(k)}, {Graph!Delete(l)}>>, "requests",
             tables.requests \ {<<x, y>>})
    BY <1>4 DEF DeleteRequest, Graph!DeleteFriendRequest
  <2>2. /\ store' = Graph!AfterAll(<<{Graph!Delete(k)}, {Graph!Delete(l)}>>)
        /\ Tabled' /\ calls' = calls /\ DOMAIN tables' = TableNames
        /\ tables'["requests"] = tables.requests \ {<<x, y>>}
        /\ \A other \in TableNames \ {"requests"} : tables'[other] = tables[other]
    BY <1>2, <2>1, TableOf DEF Both
  <2> HIDE DEF k, l
  <2>3. /\ k \notin DOMAIN store' /\ l \notin DOMAIN store'
        /\ \A other : other # k /\ other # l => Same(store', store, other)
    BY <1>1, <2>2, TwoDeletes
  <2>4. Touches({"REQUEST_IN", "REQUEST_OUT"}, "requests") BY <1>1, <2>2, <2>3 DEF Touches
  <2>5. ASSUME NEW a \in Member, NEW b \in Member
        PROVE  /\ Graph!RequestIn(a, b) \in DOMAIN store' <=> <<a, b>> \in tables'.requests
               /\ Graph!RequestOut(a, b) \in DOMAIN store' <=> <<a, b>> \in tables'.requests
    <3>1. /\ Graph!RequestIn(a, b) \in DOMAIN store <=> <<a, b>> \in tables.requests
          /\ Graph!RequestOut(a, b) \in DOMAIN store <=> <<a, b>> \in tables.requests
      BY DEF RequestsSame, There
    <3>2. Graph!RequestIn(a, b) # l /\ Graph!RequestOut(a, b) # k BY <1>1
    <3>3. CASE a = x /\ b = y
      <4>1. Graph!RequestIn(a, b) = k /\ Graph!RequestOut(a, b) = l BY <1>1, <3>3
      <4> QED BY <2>2, <2>3, <3>3, <4>1
    <3>4. CASE ~(a = x /\ b = y)
      <4>1. Graph!RequestIn(a, b) # k /\ Graph!RequestOut(a, b) # l BY <1>1, <3>4
      <4>2. /\ Same(store', store, Graph!RequestIn(a, b))
            /\ Same(store', store, Graph!RequestOut(a, b))
        BY <2>3, <3>2, <4>1
      <4>3. <<a, b>> \in tables'.requests <=> <<a, b>> \in tables.requests BY <2>2, <3>4
      <4> QED BY <3>1, <4>2, <4>3 DEF Same
    <3> QED BY <3>3, <3>4
  <2>6. RequestsSame' BY <2>5 DEF RequestsSame, There
  <2> QED BY <2>2, <2>4, <2>6
<1> QED BY <1>3, <1>4

LEMMA BlocksStep ==
    ASSUME Tabled, BlocksSame, BlocksNext
    PROVE  /\ Touches({"BLOCK"}, "blocks")
           /\ Tabled' /\ calls' = calls /\ BlocksSame'
<1> PICK x \in Member, y \in Member : PutBlock(x, y) \/ DeleteBlock(x, y)
  BY DEF BlocksNext, Couples
<1> DEFINE k == Graph!Block(x, y)
<1>1. /\ k[1] = "BLOCK"
      /\ \A a, b : Graph!Block(a, b) = k <=> a = x /\ b = y
  BY DEF Graph!Block
<1>2. "blocks" \in TableNames /\ tables["blocks"] = tables.blocks BY DEF TableNames
<1>3. CASE PutBlock(x, y)
  <2>1. Both(<<{Graph!Put(k, TRUE)}>>, "blocks", tables.blocks \cup {<<x, y>>})
    BY <1>3 DEF PutBlock, Graph!BlockUser
  <2>2. /\ store' = Graph!AfterAll(<<{Graph!Put(k, TRUE)}>>)
        /\ Tabled' /\ calls' = calls /\ DOMAIN tables' = TableNames
        /\ tables'["blocks"] = tables.blocks \cup {<<x, y>>}
        /\ \A other \in TableNames \ {"blocks"} : tables'[other] = tables[other]
    BY <1>2, <2>1, TableOf DEF Both
  <2>3. Is(store', k, TRUE) /\ \A other : other # k => Same(store', store, other)
    BY <2>2, OnePut
  <2> HIDE DEF k
  <2>4. Touches({"BLOCK"}, "blocks") BY <1>1, <2>2, <2>3 DEF Touches
  <2>5. ASSUME NEW a \in Member, NEW b \in Member
        PROVE  Graph!Block(a, b) \in DOMAIN store' <=> <<a, b>> \in tables'.blocks
    <3>1. Graph!Block(a, b) \in DOMAIN store <=> <<a, b>> \in tables.blocks
      BY DEF BlocksSame, There
    <3>2. CASE a = x /\ b = y
      <4>1. Graph!Block(a, b) = k BY <1>1, <3>2
      <4> QED BY <2>2, <2>3, <3>2, <4>1 DEF Is
    <3>3. CASE ~(a = x /\ b = y)
      <4>1. Graph!Block(a, b) # k BY <1>1, <3>3
      <4>2. Same(store', store, Graph!Block(a, b)) BY <2>3, <4>1
      <4>3. <<a, b>> \in tables'.blocks <=> <<a, b>> \in tables.blocks BY <2>2, <3>3
      <4> QED BY <3>1, <4>2, <4>3 DEF Same
    <3> QED BY <3>2, <3>3
  <2>6. BlocksSame' BY <2>5 DEF BlocksSame, There
  <2> QED BY <2>2, <2>4, <2>6
<1>4. CASE DeleteBlock(x, y)
  <2>1. Both(<<{Graph!Delete(k)}>>, "blocks", tables.blocks \ {<<x, y>>})
    BY <1>4 DEF DeleteBlock
  <2>2. /\ store' = Graph!AfterAll(<<{Graph!Delete(k)}>>)
        /\ Tabled' /\ calls' = calls /\ DOMAIN tables' = TableNames
        /\ tables'["blocks"] = tables.blocks \ {<<x, y>>}
        /\ \A other \in TableNames \ {"blocks"} : tables'[other] = tables[other]
    BY <1>2, <2>1, TableOf DEF Both
  <2>3. k \notin DOMAIN store' /\ \A other : other # k => Same(store', store, other)
    BY <2>2, OneDelete
  <2> HIDE DEF k
  <2>4. Touches({"BLOCK"}, "blocks") BY <1>1, <2>2, <2>3 DEF Touches
  <2>5. ASSUME NEW a \in Member, NEW b \in Member
        PROVE  Graph!Block(a, b) \in DOMAIN store' <=> <<a, b>> \in tables'.blocks
    <3>1. Graph!Block(a, b) \in DOMAIN store <=> <<a, b>> \in tables.blocks
      BY DEF BlocksSame, There
    <3>2. CASE a = x /\ b = y
      <4>1. Graph!Block(a, b) = k BY <1>1, <3>2
      <4> QED BY <2>2, <2>3, <3>2, <4>1
    <3>3. CASE ~(a = x /\ b = y)
      <4>1. Graph!Block(a, b) # k BY <1>1, <3>3
      <4>2. Same(store', store, Graph!Block(a, b)) BY <2>3, <4>1
      <4>3. <<a, b>> \in tables'.blocks <=> <<a, b>> \in tables.blocks BY <2>2, <3>3
      <4> QED BY <3>1, <4>2, <4>3 DEF Same
    <3> QED BY <3>2, <3>3
  <2>6. BlocksSame' BY <2>5 DEF BlocksSame, There
  <2> QED BY <2>2, <2>4, <2>6
<1> QED BY <1>3, <1>4

LEMMA ToggleStep ==
    ASSUME Tabled, ReactionsSame, NEW x \in Member, Toggle(x)
    PROVE  /\ Touches({"REACTION"}, "reactions")
           /\ Tabled' /\ calls' = calls /\ ReactionsSame'
<1> DEFINE k == Graph!Reaction(x)
<1>1. /\ k[1] = "REACTION"
      /\ \A a : Graph!Reaction(a) = k <=> a = x
  BY DEF Graph!Reaction
<1>2. "reactions" \in TableNames /\ tables["reactions"] = tables.reactions BY DEF TableNames
<1>3. There(k) <=> x \in tables.reactions BY DEF ReactionsSame
<1> DEFINE rows == IF x \in tables.reactions THEN tables.reactions \ {x}
                   ELSE tables.reactions \cup {x}
           write == IF There(k) THEN Graph!Delete(k) ELSE Graph!Put(k, TRUE)
<1>4. Both(<<{write}>>, "reactions", rows) BY DEF Toggle
<1>5. /\ store' = Graph!AfterAll(<<{write}>>)
      /\ Tabled' /\ calls' = calls /\ DOMAIN tables' = TableNames
      /\ tables'["reactions"] = rows
      /\ \A other \in TableNames \ {"reactions"} : tables'[other] = tables[other]
  <2> HIDE DEF rows, write
  <2> QED BY <1>2, <1>4, TableOf DEF Both
<1>6. /\ k \in DOMAIN store' <=> x \notin tables.reactions
      /\ \A other : other # k => Same(store', store, other)
  <2>1. CASE There(k)
    <3>1. store' = Graph!AfterAll(<<{Graph!Delete(k)}>>) BY <1>5, <2>1
    <3> HIDE DEF k
    <3> QED BY <1>3, <2>1, <3>1, OneDelete
  <2>2. CASE ~There(k)
    <3>1. store' = Graph!AfterAll(<<{Graph!Put(k, TRUE)}>>) BY <1>5, <2>2
    <3> HIDE DEF k
    <3> QED BY <1>3, <2>2, <3>1, OnePut DEF Is
  <2> QED BY <2>1, <2>2
<1> HIDE DEF k
<1>7. Touches({"REACTION"}, "reactions") BY <1>1, <1>5, <1>6 DEF Touches
<1>8. tables'.reactions \subseteq Member BY <1>5 DEF ReactionsSame
<1>9. ASSUME NEW a \in Member
      PROVE  Graph!Reaction(a) \in DOMAIN store' <=> a \in tables'.reactions
  <2>1. Graph!Reaction(a) \in DOMAIN store <=> a \in tables.reactions
    BY DEF ReactionsSame, There
  <2>2. CASE a = x
    BY <1>1, <1>5, <1>6, <2>2
  <2>3. CASE a # x
    <3>1. Same(store', store, Graph!Reaction(a)) BY <1>1, <1>6, <2>3
    <3>2. a \in tables'.reactions <=> a \in tables.reactions BY <1>5, <2>3
    <3> QED BY <2>1, <3>1, <3>2 DEF Same
  <2> QED BY <2>2, <2>3
<1>10. ReactionsSame' BY <1>8, <1>9 DEF ReactionsSame, There
<1> QED BY <1>5, <1>7, <1>10

LEMMA CreateStep ==
    ASSUME Tabled, CodesSame, NEW o \in Member, NEW c \in Coupon, CreateCode(o, c)
    PROVE  /\ Touches({"INVITE", "INVITE_OWNER"}, "codes")
           /\ Tabled' /\ calls' = calls /\ CodesSame'
           /\ tables.codes \subseteq tables'.codes
<1> DEFINE k == Graph!InviteOwner(o)
           l == Graph!Invite(c)
           taken == \E row \in tables.codes : row[2] = o
           todo == IF There(k) THEN <<>> ELSE Graph!CreateInviteCode(o, c)
           rows == IF taken THEN tables.codes ELSE tables.codes \cup {<<c, o>>}
<1>1. /\ \A a : /\ Graph!InviteOwner(a)[1] = "INVITE_OWNER"
                /\ Graph!Invite(a)[1] = "INVITE"
                /\ Graph!InviteOwner(a) = k <=> a = o
                /\ Graph!Invite(a) = l <=> a = c
  BY DEF Graph!InviteOwner, Graph!Invite
<1>2. "codes" \in TableNames /\ tables["codes"] = tables.codes BY DEF TableNames
<1>3. ~There(l) /\ Both(todo, "codes", rows) BY DEF CreateCode
<1>4. /\ store' = Graph!AfterAll(todo)
      /\ Tabled' /\ calls' = calls /\ DOMAIN tables' = TableNames
      /\ tables'["codes"] = rows
      /\ \A other \in TableNames \ {"codes"} : tables'[other] = tables[other]
  <2> HIDE DEF todo, rows
  <2> QED BY <1>2, <1>3, TableOf DEF Both
<1>5. taken <=> There(k)
  <2>1. ASSUME NEW row \in tables.codes, row[2] = o PROVE There(k)
    <3>1. row = <<row[1], o>> /\ row[1] \in Coupon BY <2>1 DEF CodesSame
    <3> QED BY <2>1, <3>1 DEF CodesSame, Is, There
  <2>2. ASSUME There(k) PROVE taken
    <3>1. store[k] \in Coupon /\ Is(store, k, store[k])
      BY <2>2 DEF CodesSame, Is, There
    <3>2. <<store[k], o>> \in tables.codes BY <3>1 DEF CodesSame
    <3> QED BY <3>2
  <2> QED BY <2>1, <2>2
<1>6. CASE There(k)
  <2>1. store' = store /\ tables'.codes = tables.codes
    BY <1>4, <1>5, <1>6, WritesOfGraph, AfterNone
  <2>2. CodesSame' BY <2>1 DEF CodesSame, Is, There
  <2>3. Touches({"INVITE", "INVITE_OWNER"}, "codes") BY <1>4, <2>1 DEF Touches, Same
  <2> QED BY <1>4, <2>1, <2>2, <2>3
<1>7. CASE ~There(k)
  <2>1. store' = Graph!AfterAll(<<{Graph!Put(k, c)}, {Graph!Put(l, o)}>>)
    BY <1>4, <1>7 DEF Graph!CreateInviteCode
  <2>2. tables'.codes = tables.codes \cup {<<c, o>>} BY <1>4, <1>5, <1>7
  <2>3. k # l BY <1>1
  <2> HIDE DEF k, l
  <2>4. /\ Is(store', k, c) /\ Is(store', l, o)
        /\ \A other : other # k /\ other # l => Same(store', store, other)
    BY <2>1, <2>3, TwoPuts
  <2>5. k[1] = "INVITE_OWNER" /\ l[1] = "INVITE" BY <1>1 DEF k, l
  <2>6. Touches({"INVITE", "INVITE_OWNER"}, "codes")
    <3>1. \A key : key[1] \notin {"INVITE", "INVITE_OWNER"} => Same(store', store, key)
      BY <2>4, <2>5
    <3> HIDE DEF rows, todo
    <3> QED BY <1>4, <3>1 DEF Touches
  <2>7. tables'.codes \subseteq Coupon \X Member BY <2>2 DEF CodesSame
  <2>8. \A d : d # c => Same(store', store, Graph!Invite(d))
    BY <1>1, <2>4, <2>5
  <2>9. \A q : q # o => Same(store', store, Graph!InviteOwner(q))
    BY <1>1, <2>4, <2>5
  <2>10. Graph!Invite(c) = l /\ Graph!InviteOwner(o) = k BY DEF k, l
  <2>11. ASSUME NEW d \in Coupon, NEW q \in Member
         PROVE  /\ <<d, q>> \in tables'.codes <=> Is(store', Graph!Invite(d), q)
                /\ <<d, q>> \in tables'.codes <=> Is(store', Graph!InviteOwner(q), d)
    <3>1. /\ <<d, q>> \in tables.codes <=> Is(store, Graph!Invite(d), q)
          /\ <<d, q>> \in tables.codes <=> Is(store, Graph!InviteOwner(q), d)
      BY DEF CodesSame
    <3>2. <<d, q>> \in tables'.codes <=> <<d, q>> \in tables.codes \/ (d = c /\ q = o)
      BY <2>2
    <3>3. d = c \/ q = o => <<d, q>> \notin tables.codes
      BY <1>3, <1>7, <2>10, <3>1 DEF Is, There
    <3>4. Is(store', Graph!Invite(d), q)
            <=> (d = c /\ q = o) \/ (d # c /\ Is(store, Graph!Invite(d), q))
      BY <2>4, <2>8, <2>10 DEF Is, Same
    <3>5. Is(store', Graph!InviteOwner(q), d)
            <=> (d = c /\ q = o) \/ (q # o /\ Is(store, Graph!InviteOwner(q), d))
      BY <2>4, <2>9, <2>10 DEF Is, Same
    <3> QED BY <3>1, <3>2, <3>3, <3>4, <3>5
  <2>12. ASSUME NEW d \in Coupon, Graph!Invite(d) \in DOMAIN store'
         PROVE  store'[Graph!Invite(d)] \in Member
    BY <2>4, <2>8, <2>10, <2>12 DEF CodesSame, Is, Same, There
  <2>13. ASSUME NEW q \in Member, Graph!InviteOwner(q) \in DOMAIN store'
         PROVE  store'[Graph!InviteOwner(q)] \in Coupon
    BY <2>4, <2>9, <2>10, <2>13 DEF CodesSame, Is, Same, There
  <2>14. CodesSame' BY <2>7, <2>11, <2>12, <2>13 DEF CodesSame, There
  <2> HIDE DEF rows, todo
  <2> QED BY <1>4, <2>2, <2>6, <2>14
<1> QED BY <1>6, <1>7

LEMMA RedeemStep ==
    ASSUME Tabled, CodesSame, RedemptionsSame, NEW c \in Coupon, NEW o \in Member,
           NEW x \in Member, Redeem(c, o, x)
    PROVE  /\ Touches({"REDEMPTION", "INVITER"}, "redemptions")
           /\ Tabled' /\ calls' = calls /\ RedemptionsSame'
<1> DEFINE k == Graph!Redemption(c, x)
           l == Graph!Counted(o, x)
<1>1. /\ k[1] = "REDEMPTION" /\ l[1] = "INVITER"
      /\ \A a, b : /\ Graph!Counted(a, b)[1] = "INVITER"
                   /\ Graph!Counted(a, b) = l <=> a = o /\ b = x
  BY DEF Graph!Redemption, Graph!Counted
<1>2. "redemptions" \in TableNames /\ tables["redemptions"] = tables.redemptions
  BY DEF TableNames
<1>3. Both(<<{Graph!Put(k, TRUE)}, {Graph!Put(l, TRUE)}>>, "redemptions",
           tables.redemptions \cup {<<c, x, o>>})
  BY DEF Redeem, Graph!UpsertRedemption
<1>4. <<c, o>> \in tables.codes BY DEF Redeem, CodesSame, Is, There
<1>5. /\ store' = Graph!AfterAll(<<{Graph!Put(k, TRUE)}, {Graph!Put(l, TRUE)}>>)
      /\ Tabled' /\ calls' = calls /\ DOMAIN tables' = TableNames
      /\ tables'["redemptions"] = tables.redemptions \cup {<<c, x, o>>}
      /\ \A other \in TableNames \ {"redemptions"} : tables'[other] = tables[other]
  BY <1>2, <1>3, TableOf DEF Both
<1>6. k # l BY <1>1
<1> HIDE DEF k, l
<1>7. /\ Is(store', k, TRUE) /\ Is(store', l, TRUE)
      /\ \A other : other # k /\ other # l => Same(store', store, other)
  BY <1>5, <1>6, TwoPuts
<1>8. Touches({"REDEMPTION", "INVITER"}, "redemptions") BY <1>1, <1>5, <1>7 DEF Touches
<1>9. tables'.codes = tables.codes BY <1>5 DEF TableNames
<1>10. tables'.redemptions = tables.redemptions \cup {<<c, x, o>>} BY <1>5
<1>11. IsFiniteSet(tables'.redemptions) BY <1>10, FS_AddElement DEF RedemptionsSame
<1>12. tables'.redemptions \subseteq Coupon \X Member \X Member
  BY <1>10 DEF RedemptionsSame
<1>13. \A r \in tables'.redemptions : <<r[1], r[3]>> \in tables'.codes
  <2> SUFFICES ASSUME NEW r \in tables'.redemptions PROVE <<r[1], r[3]>> \in tables'.codes
    OBVIOUS
  <2>1. CASE r = <<c, x, o>>
    <3>1. r[1] = c /\ r[3] = o BY <2>1
    <3> QED BY <1>4, <1>9, <3>1
  <2>2. CASE r \in tables.redemptions BY <1>9, <2>2 DEF RedemptionsSame
  <2> QED BY <1>10, <2>1, <2>2
<1>14. ASSUME NEW p \in Member, NEW q \in Member
       PROVE  Graph!Counted(p, q) \in DOMAIN store'
                <=> \E d \in Coupon : <<d, q, p>> \in tables'.redemptions
  <2>1. Graph!Counted(p, q) \in DOMAIN store
          <=> \E d \in Coupon : <<d, q, p>> \in tables.redemptions
    BY DEF RedemptionsSame, There
  <2>2. CASE p = o /\ q = x
    <3>1. Graph!Counted(p, q) = l BY <1>1, <2>2
    <3>2. <<c, q, p>> \in tables'.redemptions BY <1>10, <2>2
    <3> QED BY <1>7, <3>1, <3>2 DEF Is
  <2>3. CASE ~(p = o /\ q = x)
    <3>1. Graph!Counted(p, q) # l /\ Graph!Counted(p, q) # k BY <1>1, <2>3
    <3>2. Same(store', store, Graph!Counted(p, q)) BY <1>7, <3>1
    <3>3. \A d : <<d, q, p>> \in tables'.redemptions <=> <<d, q, p>> \in tables.redemptions
      BY <1>10, <2>3
    <3> QED BY <2>1, <3>2, <3>3 DEF Same
  <2> QED BY <2>2, <2>3
<1>15. RedemptionsSame' BY <1>11, <1>12, <1>13, <1>14 DEF RedemptionsSame, There
<1> QED BY <1>5, <1>8, <1>15

LEMMA OpenStep ==
    ASSUME Tabled, TalksSame, NEW x \in Member, NEW y \in Member, x # y, OpenBoth(x, y)
    PROVE  /\ Touches({"THREAD", "USER_THREAD"}, "threads")
           /\ Tabled' /\ calls' = calls + 1 /\ TalksSame'
<1> DEFINE t == calls + 1
           k == Graph!Thread(t)
           l == Graph!Listed(x, t)
           m == Graph!Listed(y, t)
           row == [id |-> t, of |-> {x, y}]
<1>1. /\ k[1] = "THREAD" /\ l[1] = "USER_THREAD" /\ m[1] = "USER_THREAD" /\ l # m
      /\ \A a, b : /\ Graph!Listed(a, b)[1] = "USER_THREAD"
                   /\ Graph!Listed(a, b) = l <=> a = x /\ b = t
                   /\ Graph!Listed(a, b) = m <=> a = y /\ b = t
  BY DEF Graph!Thread, Graph!Listed
<1>2. "threads" \in TableNames /\ tables["threads"] = tables.threads BY DEF TableNames
<1>3. BothNew(<<{Graph!Put(k, {x, y})}, {Graph!Put(l, {x, y}), Graph!Put(m, {x, y})}>>,
              "threads", tables.threads \cup {row})
  BY DEF OpenBoth, Graph!PutThread
<1>4. k # l /\ k # m BY <1>1
<1>5. calls \in Nat /\ t \in Nat /\ t \notin 1..calls /\ calls' = t /\ t \in 1..calls'
      /\ \A n \in 1..calls : n \in 1..calls' /\ n # t
  BY <1>3, SocialStoresConstants DEF Tabled, BothNew
<1> HIDE DEF k, l, m, row
<1>6. /\ store' = Graph!AfterAll(<<{Graph!Put(k, {x, y})},
                                  {Graph!Put(l, {x, y}), Graph!Put(m, {x, y})}>>)
      /\ Tabled' /\ DOMAIN tables' = TableNames
      /\ tables'["threads"] = tables.threads \cup {row}
      /\ \A other \in TableNames \ {"threads"} : tables'[other] = tables[other]
  BY <1>2, <1>3, TableOf
<1>7. /\ Is(store', l, {x, y}) /\ Is(store', m, {x, y})
      /\ \A other : other # k /\ other # l /\ other # m => Same(store', store, other)
  <2>1. l # m BY <1>1
  <2>2. store' = Graph!AfterAll(<<{Graph!Put(k, {x, y})},
                                  {Graph!Put(l, {x, y}), Graph!Put(m, {x, y})}>>)
    BY <1>6
  <2> QED BY <1>4, <2>1, <2>2, ThreePuts
<1>8. Touches({"THREAD", "USER_THREAD"}, "threads") BY <1>1, <1>6, <1>7 DEF Touches
<1>9. tables'.threads = tables.threads \cup {row} BY <1>6
<1>10. row.id = t /\ row.of = {x, y} BY DEF row
<1>11. \A a, b : b # t => Same(store', store, Graph!Listed(a, b))
  <2> SUFFICES ASSUME NEW a, NEW b, b # t PROVE Same(store', store, Graph!Listed(a, b))
    OBVIOUS
  <2>1. Graph!Listed(a, b) # l /\ Graph!Listed(a, b) # m /\ Graph!Listed(a, b) # k BY <1>1
  <2> QED BY <1>7, <2>1
<1>12. \A a : a # x /\ a # y => Same(store', store, Graph!Listed(a, t))
  <2> SUFFICES ASSUME NEW a, a # x, a # y PROVE Same(store', store, Graph!Listed(a, t))
    OBVIOUS
  <2>1. /\ Graph!Listed(a, t) # l /\ Graph!Listed(a, t) # m
        /\ Graph!Listed(a, t) # k
    BY <1>1
  <2> QED BY <1>7, <2>1
<1>13. Graph!Listed(x, t) = l /\ Graph!Listed(y, t) = m BY DEF l, m
<1> HIDE DEF t
<1>14. ASSUME NEW r \in tables'.threads
       PROVE  /\ r.id \in 1..calls'
              /\ \A a \in r.of : Is(store', Graph!Listed(a, r.id), r.of)
  <2>1. CASE r = row BY <1>5, <1>7, <1>10, <1>13, <2>1
  <2>2. CASE r \in tables.threads
    <3>1. r.id \in 1..calls /\ \A a \in r.of : Is(store, Graph!Listed(a, r.id), r.of)
      BY <2>2 DEF TalksSame
    <3>2. r.id \in 1..calls' /\ r.id # t BY <1>5, <3>1
    <3> QED BY <1>11, <3>1, <3>2 DEF Is, Same
  <2> QED BY <1>9, <2>1, <2>2
<1>15. ASSUME NEW a \in Member, NEW n \in 1..MaxCalls,
              Graph!Listed(a, n) \in DOMAIN store'
       PROVE  \E r \in tables'.threads : r.id = n /\ a \in r.of
  <2>1. CASE n = t /\ a \in {x, y} BY <1>9, <1>10, <2>1
  <2>2. CASE ~(n = t /\ a \in {x, y})
    <3>1. Same(store', store, Graph!Listed(a, n)) BY <1>11, <1>12, <2>2
    <3>2. There(Graph!Listed(a, n)) BY <1>15, <3>1 DEF Same, There
    <3>3. PICK r \in tables.threads : r.id = n /\ a \in r.of BY <3>2 DEF TalksSame
    <3> QED BY <1>9, <3>3
  <2> QED BY <2>1, <2>2
<1>16. TalksSame' BY <1>14, <1>15 DEF TalksSame, There
<1> QED BY <1>5, <1>6, <1>8, <1>16 DEF t

LEMMA SendStep ==
    ASSUME Tabled, MessagesSame, NEW x \in Member, NEW t \in 1..calls, SendBoth(x, t)
    PROVE  /\ Touches({"MESSAGE"}, "messages")
           /\ Tabled' /\ calls' = calls + 1 /\ MessagesSame'
<1> DEFINE m == calls + 1
           k == Graph!Message(t, m)
           row == [id |-> m, thread |-> t, sender |-> x]
<1>1. /\ k[1] = "MESSAGE"
      /\ \A a, b : Graph!Message(a, b) = k <=> a = t /\ b = m
  BY DEF Graph!Message
<1>2. "messages" \in TableNames /\ tables["messages"] = tables.messages BY DEF TableNames
<1>3. BothNew(<<{Graph!Put(k, x)}>>, "messages", tables.messages \cup {row})
  BY DEF SendBoth
<1>5. calls \in Nat /\ m \in Nat /\ calls' = m /\ m \in 1..calls' /\ t \in 1..calls'
      /\ \A n \in 1..calls : n \in 1..calls' /\ n # m
  BY <1>3, SocialStoresConstants DEF Tabled, BothNew
<1> HIDE DEF k, row
<1>6. /\ store' = Graph!AfterAll(<<{Graph!Put(k, x)}>>)
      /\ Tabled' /\ DOMAIN tables' = TableNames
      /\ tables'["messages"] = tables.messages \cup {row}
      /\ \A other \in TableNames \ {"messages"} : tables'[other] = tables[other]
  BY <1>2, <1>3, TableOf
<1>7. Is(store', k, x) /\ \A other : other # k => Same(store', store, other)
  BY <1>6, OnePut
<1>8. Touches({"MESSAGE"}, "messages") BY <1>1, <1>6, <1>7 DEF Touches
<1>9. tables'.messages = tables.messages \cup {row} BY <1>6
<1>10. row.id = m /\ row.thread = t /\ row.sender = x BY DEF row
<1>11. Graph!Message(t, m) = k BY DEF k
<1>12. \A a, b : ~(a = t /\ b = m) => Same(store', store, Graph!Message(a, b))
  BY <1>1, <1>7
<1> HIDE DEF m
<1>13. ASSUME NEW r \in tables'.messages
       PROVE  /\ r.id \in 1..calls'
              /\ r.thread \in 1..calls'
              /\ Is(store', Graph!Message(r.thread, r.id), r.sender)
  <2>1. CASE r = row BY <1>5, <1>7, <1>10, <1>11, <2>1
  <2>2. CASE r \in tables.messages
    <3>1. r.id \in 1..calls /\ r.thread \in 1..calls
          /\ Is(store, Graph!Message(r.thread, r.id), r.sender)
      BY <2>2 DEF MessagesSame
    <3>2. r.id \in 1..calls' /\ r.thread \in 1..calls' /\ r.id # m BY <1>5, <3>1
    <3>3. Same(store', store, Graph!Message(r.thread, r.id)) BY <1>12, <3>2
    <3> QED BY <3>1, <3>2, <3>3 DEF Is, Same
  <2> QED BY <1>9, <2>1, <2>2
<1>14. ASSUME NEW a \in 1..MaxCalls, NEW n \in 1..MaxCalls,
              Graph!Message(a, n) \in DOMAIN store'
       PROVE  \E r \in tables'.messages : r.thread = a /\ r.id = n
  <2>1. CASE a = t /\ n = m BY <1>9, <1>10, <2>1
  <2>2. CASE ~(a = t /\ n = m)
    <3>1. There(Graph!Message(a, n)) BY <1>12, <1>14, <2>2 DEF Same, There
    <3>2. PICK r \in tables.messages : r.thread = a /\ r.id = n BY <3>1 DEF MessagesSame
    <3> QED BY <1>9, <3>2
  <2> QED BY <2>1, <2>2
<1>15. MessagesSame' BY <1>13, <1>14 DEF MessagesSame, There
<1> QED BY <1>5, <1>6, <1>8, <1>15 DEF m

-----------------------------------------------------------------------------
LEMMA StoresStart == StoresInit => StoresInv
<1> SUFFICES ASSUME StoresInit PROVE StoresInv
  OBVIOUS
<1>1. /\ \A key : key \notin DOMAIN store
      /\ tables.friends = {} /\ tables.requests = {} /\ tables.blocks = {}
      /\ tables.reactions = {} /\ tables.codes = {} /\ tables.redemptions = {}
      /\ tables.threads = {} /\ tables.messages = {} /\ DOMAIN tables = TableNames
      /\ calls = 0
  BY DEF StoresInit, TableNames
<1>2. Tabled BY <1>1, SocialStoresConstants DEF Tabled
<1>3. FriendsSame /\ RequestsSame /\ BlocksSame /\ ReactionsSame
  BY <1>1 DEF FriendsSame, RequestsSame, BlocksSame, ReactionsSame, There
<1>4. CodesSame BY <1>1 DEF CodesSame, There, Is
<1>5. RedemptionsSame BY <1>1, FS_EmptySet DEF RedemptionsSame, There
<1>6. TalksSame /\ MessagesSame BY <1>1 DEF TalksSame, MessagesSame, There
<1> QED BY <1>2, <1>3, <1>4, <1>5, <1>6 DEF StoresInv

\* What a step leaves alone stays as it is.
LEMMA OthersKept ==
    ASSUME StoresInv, NEW kinds, NEW table \in TableNames, Touches(kinds, table),
           calls' = calls \/ calls' = calls + 1
    PROVE  /\ table # "friends" /\ "FRIEND" \notin kinds => FriendsSame'
           /\ table # "requests" /\ {"REQUEST_IN", "REQUEST_OUT"} \cap kinds = {}
                => RequestsSame'
           /\ table # "blocks" /\ "BLOCK" \notin kinds => BlocksSame'
           /\ table # "reactions" /\ "REACTION" \notin kinds => ReactionsSame'
           /\ table # "codes" /\ {"INVITE", "INVITE_OWNER"} \cap kinds = {} => CodesSame'
           /\ table # "redemptions" /\ "INVITER" \notin kinds
                /\ tables.codes \subseteq tables'.codes => RedemptionsSame'
           /\ table # "codes" => tables'.codes = tables.codes
           /\ table # "threads" /\ "USER_THREAD" \notin kinds => TalksSame'
           /\ table # "messages" /\ "MESSAGE" \notin kinds => MessagesSame'
<1>1. /\ Tabled
      /\ FriendsSame /\ RequestsSame /\ BlocksSame /\ ReactionsSame
      /\ CodesSame /\ RedemptionsSame /\ TalksSame /\ MessagesSame
  BY DEF StoresInv
<1>2. table # "friends" /\ "FRIEND" \notin kinds => FriendsSame' BY <1>1, FriendsKept
<1>3. table # "requests" /\ {"REQUEST_IN", "REQUEST_OUT"} \cap kinds = {} => RequestsSame'
  BY <1>1, AskedKept
<1>4. table # "blocks" /\ "BLOCK" \notin kinds => BlocksSame' BY <1>1, BlocksKept
<1>5. table # "reactions" /\ "REACTION" \notin kinds => ReactionsSame'
  BY <1>1, ReactionsKept
<1>6. table # "codes" /\ {"INVITE", "INVITE_OWNER"} \cap kinds = {} => CodesSame'
  BY <1>1, CodesKept
<1>7. table # "redemptions" /\ "INVITER" \notin kinds
        /\ tables.codes \subseteq tables'.codes => RedemptionsSame'
  BY <1>1, RedemptionsKept
<1>8. table # "codes" => tables'.codes = tables.codes BY DEF Touches, TableNames
<1>9. table # "threads" /\ "USER_THREAD" \notin kinds => TalksSame' BY <1>1, TalksKept
<1>10. table # "messages" /\ "MESSAGE" \notin kinds => MessagesSame' BY <1>1, MessagesKept
<1> QED BY <1>2, <1>3, <1>4, <1>5, <1>6, <1>7, <1>8, <1>9, <1>10

LEMMA StoresStep == StoresInv /\ [StoresNext]_storeVars => StoresInv'
<1> SUFFICES ASSUME StoresInv, [StoresNext]_storeVars PROVE StoresInv'
  OBVIOUS
<1> USE DEF StoresInv
<1>1. CASE EdgesNext
  <2>1. Touches({"FRIEND"}, "friends") /\ Tabled' /\ calls' = calls /\ FriendsSame'
    BY <1>1, EdgesStep
  <2> HIDE DEF StoresInv
  <2>2. "friends" \in TableNames BY DEF TableNames
  <2>3. /\ RequestsSame' /\ BlocksSame' /\ ReactionsSame' /\ CodesSame'
        /\ tables'.codes = tables.codes /\ TalksSame' /\ MessagesSame'
    BY <2>1, <2>2, OthersKept
  <2>4. RedemptionsSame' BY <2>1, <2>2, <2>3, OthersKept
  <2> QED BY <2>1, <2>3, <2>4 DEF StoresInv
<1>2. CASE RequestsNext
  <2>1. /\ Touches({"REQUEST_IN", "REQUEST_OUT"}, "requests") /\ Tabled'
        /\ calls' = calls /\ RequestsSame'
    BY <1>2, RequestsStep
  <2> HIDE DEF StoresInv
  <2>2. "requests" \in TableNames BY DEF TableNames
  <2>3. /\ FriendsSame' /\ BlocksSame' /\ ReactionsSame' /\ CodesSame'
        /\ tables'.codes = tables.codes /\ TalksSame' /\ MessagesSame'
    BY <2>1, <2>2, OthersKept
  <2>4. RedemptionsSame' BY <2>1, <2>2, <2>3, OthersKept
  <2> QED BY <2>1, <2>3, <2>4 DEF StoresInv
<1>3. CASE BlocksNext
  <2>1. Touches({"BLOCK"}, "blocks") /\ Tabled' /\ calls' = calls /\ BlocksSame'
    BY <1>3, BlocksStep
  <2> HIDE DEF StoresInv
  <2>2. "blocks" \in TableNames BY DEF TableNames
  <2>3. /\ FriendsSame' /\ RequestsSame' /\ ReactionsSame' /\ CodesSame'
        /\ tables'.codes = tables.codes /\ TalksSame' /\ MessagesSame'
    BY <2>1, <2>2, OthersKept
  <2>4. RedemptionsSame' BY <2>1, <2>2, <2>3, OthersKept
  <2> QED BY <2>1, <2>3, <2>4 DEF StoresInv
<1>4. ASSUME NEW o \in Member, NEW c \in Coupon, CreateCode(o, c) PROVE StoresInv'
  <2>1. /\ Touches({"INVITE", "INVITE_OWNER"}, "codes") /\ Tabled' /\ calls' = calls
        /\ CodesSame' /\ tables.codes \subseteq tables'.codes
    BY <1>4, CreateStep
  <2> HIDE DEF StoresInv
  <2>2. "codes" \in TableNames BY DEF TableNames
  <2>3. /\ FriendsSame' /\ RequestsSame' /\ BlocksSame' /\ ReactionsSame'
        /\ RedemptionsSame' /\ TalksSame' /\ MessagesSame'
    BY <2>1, <2>2, OthersKept
  <2> QED BY <2>1, <2>3 DEF StoresInv
<1>5. ASSUME NEW c \in Coupon, NEW o \in Member, NEW x \in Member, Redeem(c, o, x)
      PROVE  StoresInv'
  <2>1. /\ Touches({"REDEMPTION", "INVITER"}, "redemptions") /\ Tabled' /\ calls' = calls
        /\ RedemptionsSame'
    BY <1>5, RedeemStep
  <2> HIDE DEF StoresInv
  <2>2. "redemptions" \in TableNames BY DEF TableNames
  <2>3. /\ FriendsSame' /\ RequestsSame' /\ BlocksSame' /\ ReactionsSame'
        /\ CodesSame' /\ TalksSame' /\ MessagesSame'
    BY <2>1, <2>2, OthersKept
  <2> QED BY <2>1, <2>3 DEF StoresInv
<1>6. ASSUME NEW x \in Member, NEW y \in Member, x # y, OpenBoth(x, y) PROVE StoresInv'
  <2>1. /\ Touches({"THREAD", "USER_THREAD"}, "threads") /\ Tabled' /\ calls' = calls + 1
        /\ TalksSame'
    BY <1>6, OpenStep
  <2> HIDE DEF StoresInv
  <2>2. "threads" \in TableNames BY DEF TableNames
  <2>3. /\ FriendsSame' /\ RequestsSame' /\ BlocksSame' /\ ReactionsSame'
        /\ CodesSame' /\ tables'.codes = tables.codes /\ MessagesSame'
    BY <2>1, <2>2, OthersKept
  <2>4. RedemptionsSame' BY <2>1, <2>2, <2>3, OthersKept
  <2> QED BY <2>1, <2>3, <2>4 DEF StoresInv
<1>7. ASSUME NEW x \in Member, Toggle(x) PROVE StoresInv'
  <2>1. /\ Touches({"REACTION"}, "reactions") /\ Tabled' /\ calls' = calls
        /\ ReactionsSame'
    BY <1>7, ToggleStep
  <2> HIDE DEF StoresInv
  <2>2. "reactions" \in TableNames BY DEF TableNames
  <2>3. /\ FriendsSame' /\ RequestsSame' /\ BlocksSame' /\ CodesSame'
        /\ tables'.codes = tables.codes /\ TalksSame' /\ MessagesSame'
    BY <2>1, <2>2, OthersKept
  <2>4. RedemptionsSame' BY <2>1, <2>2, <2>3, OthersKept
  <2> QED BY <2>1, <2>3, <2>4 DEF StoresInv
<1>8. ASSUME NEW x \in Member, NEW t \in 1..calls, SendBoth(x, t) PROVE StoresInv'
  <2>1. Touches({"MESSAGE"}, "messages") /\ Tabled' /\ calls' = calls + 1 /\ MessagesSame'
    BY <1>8, SendStep
  <2> HIDE DEF StoresInv
  <2>2. "messages" \in TableNames BY DEF TableNames
  <2>3. /\ FriendsSame' /\ RequestsSame' /\ BlocksSame' /\ ReactionsSame'
        /\ CodesSame' /\ tables'.codes = tables.codes /\ TalksSame'
    BY <2>1, <2>2, OthersKept
  <2>4. RedemptionsSame' BY <2>1, <2>2, <2>3, OthersKept
  <2> QED BY <2>1, <2>3, <2>4 DEF StoresInv
<1>9. CASE UNCHANGED storeVars
  <2>1. store' = store /\ tables' = tables /\ calls' = calls BY <1>9 DEF storeVars
  <2>2. Tabled' BY <2>1 DEF Tabled
  <2>3. FriendsSame' /\ RequestsSame' BY <2>1 DEF FriendsSame, RequestsSame, There
  <2>4. BlocksSame' /\ ReactionsSame' BY <2>1 DEF BlocksSame, ReactionsSame, There
  <2>5. CodesSame' BY <2>1 DEF CodesSame, There, Is
  <2>6. RedemptionsSame' BY <2>1 DEF RedemptionsSame, There
  <2>7. TalksSame' BY <2>1 DEF TalksSame, There, Is
  <2>8. MessagesSame' BY <2>1 DEF MessagesSame, There, Is
  <2> QED BY <2>2, <2>3, <2>4, <2>5, <2>6, <2>7, <2>8
<1> HIDE DEF StoresInv
<1>10. CASE CodesNext BY <1>4, <1>5, <1>10 DEF CodesNext
<1>11. CASE TalkNext BY <1>6, <1>7, <1>8, <1>11 DEF TalkNext, Couples
<1> QED BY <1>1, <1>2, <1>3, <1>9, <1>10, <1>11 DEF StoresNext

-----------------------------------------------------------------------------
(* The answers.                                                            *)

LEMMA HeldIs ==
    ASSUME NEW key
    PROVE  Held(key) = {v \in {store[key]} : Is(store, key, v)}
BY DEF Held, Is

LEMMA CountsSame ==
    ASSUME CodesSame, RedemptionsSame, NEW o \in Member
    PROVE  Cardinality(Graph!CountedFor(o)) = SqlRedeemed(o)
<1> DEFINE R == {r \in tables.redemptions : r[3] = o}
           S == Graph!CountedFor(o)
           f == [r \in R |-> r[2]]
<1>1. \A x : x \in S <=> x \in Member /\ \E c \in Coupon : <<c, x, o>> \in tables.redemptions
  BY DEF Graph!CountedFor, Graph!Has, RedemptionsSame, There
<1>2. ASSUME NEW r \in R
      PROVE  /\ r = <<r[1], r[2], o>> /\ r[1] \in Coupon /\ r[2] \in Member
             /\ r[1] = store[Graph!InviteOwner(o)]
  <2>1. r = <<r[1], r[2], o>> /\ r[1] \in Coupon /\ r[2] \in Member
    BY <1>2 DEF RedemptionsSame
  <2>2. <<r[1], o>> \in tables.codes BY <1>2 DEF RedemptionsSame
  <2> QED BY <2>1, <2>2 DEF CodesSame, Is
<1>3. IsFiniteSet(R) BY FS_Subset DEF RedemptionsSame
<1> HIDE DEF S
<1>4. \A r \in R : r[2] \in S
  <2> SUFFICES ASSUME NEW r \in R PROVE r[2] \in S
    OBVIOUS
  <2>1. r = <<r[1], r[2], o>> /\ r[1] \in Coupon /\ r[2] \in Member BY <1>2
  <2>2. r \in tables.redemptions OBVIOUS
  <2> QED BY <1>1, <2>1, <2>2
<1>5. \A x \in S : \E r \in R : r[2] = x
  <2> SUFFICES ASSUME NEW x \in S PROVE \E r \in R : r[2] = x
    OBVIOUS
  <2>1. PICK c \in Coupon : <<c, x, o>> \in tables.redemptions BY <1>1
  <2>2. <<c, x, o>> \in R /\ <<c, x, o>>[2] = x BY <2>1
  <2> QED BY <2>2
<1>6. \A r, u \in R : r[2] = u[2] => r = u
  <2> SUFFICES ASSUME NEW r \in R, NEW u \in R, r[2] = u[2] PROVE r = u
    OBVIOUS
  <2>1. r = <<r[1], r[2], o>> /\ r[1] = store[Graph!InviteOwner(o)] BY <1>2
  <2>2. u = <<u[1], u[2], o>> /\ u[1] = store[Graph!InviteOwner(o)] BY <1>2
  <2> QED BY <2>1, <2>2
<1> HIDE DEF R
<1>7. f \in [R -> S] /\ \A r \in R : f[r] = r[2] BY <1>4
<1>8. f \in Bijection(R, S)
  <2> HIDE DEF f
  <2>1. \A r, u \in R : f[r] = f[u] => r = u BY <1>6, <1>7
  <2>2. \A x \in S : \E r \in R : f[r] = x BY <1>5, <1>7
  <2> QED BY <1>7, <2>1, <2>2, Fun_IsBij
<1>9. ExistsBijection(R, S) BY <1>8, Fun_ExistsBij
<1>10. Cardinality(S) = Cardinality(R) BY <1>3, <1>9, FS_Bijection
<1> QED BY <1>10 DEF SqlRedeemed, R, S

LEMMA OwnersSame ==
    ASSUME CodesSame
    PROVE  /\ \A o \in Member : Held(Graph!InviteOwner(o)) = SqlCodes(o)
           /\ \A c \in Coupon : Held(Graph!Invite(c)) = SqlOwners(c)
<1>1. ASSUME NEW o \in Member PROVE Held(Graph!InviteOwner(o)) = SqlCodes(o)
  <2>1. \A c : c \in Held(Graph!InviteOwner(o)) <=> Is(store, Graph!InviteOwner(o), c)
    BY DEF Held, Is
  <2>2. \A c : Is(store, Graph!InviteOwner(o), c) <=> <<c, o>> \in tables.codes
    BY DEF CodesSame, Is, There
  <2>3. ASSUME NEW c PROVE c \in SqlCodes(o) <=> <<c, o>> \in tables.codes
    <3>1. ASSUME NEW r \in tables.codes, r[2] = o, r[1] = c PROVE <<c, o>> \in tables.codes
      <4>1. r = <<r[1], r[2]>> BY <3>1 DEF CodesSame
      <4> QED BY <3>1, <4>1
    <3>2. <<c, o>>[1] = c /\ <<c, o>>[2] = o OBVIOUS
    <3> QED BY <3>1, <3>2 DEF SqlCodes
  <2> QED BY <2>1, <2>2, <2>3
<1>2. ASSUME NEW c \in Coupon PROVE Held(Graph!Invite(c)) = SqlOwners(c)
  <2>1. \A o : o \in Held(Graph!Invite(c)) <=> Is(store, Graph!Invite(c), o)
    BY DEF Held, Is
  <2>2. \A o : Is(store, Graph!Invite(c), o) <=> <<c, o>> \in tables.codes
    BY DEF CodesSame, Is, There
  <2>3. ASSUME NEW o PROVE o \in SqlOwners(c) <=> <<c, o>> \in tables.codes
    <3>1. ASSUME NEW r \in tables.codes, r[1] = c, r[2] = o PROVE <<c, o>> \in tables.codes
      <4>1. r = <<r[1], r[2]>> BY <3>1 DEF CodesSame
      <4> QED BY <3>1, <4>1
    <3>2. <<c, o>>[1] = c /\ <<c, o>>[2] = o OBVIOUS
    <3> QED BY <3>1, <3>2 DEF SqlOwners
  <2> QED BY <2>1, <2>2, <2>3
<1> QED BY <1>1, <1>2

LEMMA ListsSame ==
    ASSUME Tabled, TalksSame, NEW x \in Member
    PROVE  Graph!ListThreads(x) = SqlThreads(x)
<1>1. \A t : t \in 1..calls => t \in 1..MaxCalls BY SocialStoresConstants DEF Tabled
<1>2. ASSUME NEW t \in 1..MaxCalls, There(Graph!Listed(x, t))
      PROVE  store[Graph!Listed(x, t)] \ {x} \in SqlThreads(x)
  <2>1. PICK r \in tables.threads : r.id = t /\ x \in r.of BY <1>2 DEF TalksSame
  <2>2. store[Graph!Listed(x, t)] = r.of BY <2>1 DEF TalksSame, Is
  <2> QED BY <2>1, <2>2 DEF SqlThreads
<1>3. ASSUME NEW r \in tables.threads, x \in r.of
      PROVE  r.of \ {x} \in Graph!ListThreads(x)
  <2>1. r.id \in 1..MaxCalls /\ Is(store, Graph!Listed(x, r.id), r.of)
    BY <1>1, <1>3 DEF TalksSame
  <2>2. r.id \in Graph!ThreadsOf(x) BY <2>1 DEF Graph!ThreadsOf, Graph!Has, Is
  <2> QED BY <2>1, <2>2 DEF Graph!ListThreads, Is
<1>4. Graph!ListThreads(x) \subseteq SqlThreads(x)
  BY <1>2 DEF Graph!ListThreads, Graph!ThreadsOf, Graph!Has, There
<1>5. SqlThreads(x) \subseteq Graph!ListThreads(x) BY <1>3 DEF SqlThreads
<1> QED BY <1>4, <1>5

LEMMA MessagesSaid ==
    ASSUME Tabled, MessagesSame, NEW t \in 1..calls
    PROVE  UNION {{m} \X Held(Graph!Message(t, m)) : m \in 1..calls} = SqlMessages(t)
<1> DEFINE Said == UNION {{m} \X Held(Graph!Message(t, m)) : m \in 1..calls}
<1>1. \A n : n \in 1..calls => n \in 1..MaxCalls BY SocialStoresConstants DEF Tabled
<1>2. ASSUME NEW m \in 1..calls, NEW u \in Held(Graph!Message(t, m))
      PROVE  <<m, u>> \in SqlMessages(t)
  <2>1. Is(store, Graph!Message(t, m), u) BY <1>2 DEF Held, Is
  <2>2. PICK r \in tables.messages : r.thread = t /\ r.id = m
    BY <1>1, <2>1 DEF MessagesSame, There, Is
  <2>3. r.sender = u BY <2>1, <2>2 DEF MessagesSame, Is
  <2> QED BY <2>2, <2>3 DEF SqlMessages
<1>3. ASSUME NEW r \in tables.messages, r.thread = t PROVE <<r.id, r.sender>> \in Said
  <2>1. r.id \in 1..calls /\ Is(store, Graph!Message(t, r.id), r.sender)
    BY <1>3 DEF MessagesSame
  <2>2. r.sender \in Held(Graph!Message(t, r.id)) BY <2>1 DEF Held, Is
  <2>3. <<r.id, r.sender>> \in {r.id} \X Held(Graph!Message(t, r.id)) BY <2>2
  <2> QED BY <2>1, <2>3
<1>4. Said \subseteq SqlMessages(t)
  <2> SUFFICES ASSUME NEW m \in 1..calls, NEW p \in {m} \X Held(Graph!Message(t, m))
               PROVE  p \in SqlMessages(t)
    OBVIOUS
  <2>1. PICK u \in Held(Graph!Message(t, m)) : p = <<m, u>> OBVIOUS
  <2> QED BY <1>2, <2>1
<1> HIDE DEF Said
<1>5. SqlMessages(t) \subseteq Said BY <1>3 DEF SqlMessages
<1> QED BY <1>4, <1>5 DEF Said

LEMMA StoresAnswerTheSame ==
    ASSUME StoresInv
    PROVE  SocialAgree
<1>0. /\ Tabled
      /\ FriendsSame /\ RequestsSame /\ BlocksSame /\ ReactionsSame
      /\ CodesSame /\ RedemptionsSame /\ TalksSame /\ MessagesSame
  BY DEF StoresInv
<1>1. ASSUME NEW x \in Member
      PROVE  /\ Graph!ListFriends(x) = SqlFriends(x)
             /\ Graph!ListFriendRequests(x) = SqlRequests(x)
             /\ Graph!ListBlocks(x) = SqlBlocks(x)
             /\ {y \in Member : There(Graph!RequestIn(x, y))} = SqlRequests(x)[2]
  <2>1. Graph!ListFriends(x) = SqlFriends(x)
    BY <1>0 DEF Graph!ListFriends, Graph!Has, SqlFriends, FriendsSame, There
  <2>2. Graph!ListBlocks(x) = SqlBlocks(x)
    BY <1>0 DEF Graph!ListBlocks, Graph!Has, SqlBlocks, BlocksSame, There
  <2>3. /\ {y \in Member : Graph!Has(Graph!RequestIn(y, x))}
              = {y \in Member : <<y, x>> \in tables.requests}
        /\ {y \in Member : Graph!Has(Graph!RequestOut(x, y))}
              = {y \in Member : <<x, y>> \in tables.requests}
        /\ {y \in Member : There(Graph!RequestIn(x, y))}
              = {y \in Member : <<x, y>> \in tables.requests}
    BY <1>0 DEF Graph!Has, RequestsSame, There
  <2>4. Graph!ListFriendRequests(x) = SqlRequests(x)
    BY <2>3 DEF Graph!ListFriendRequests, SqlRequests
  <2>5. SqlRequests(x)[2] = {y \in Member : <<x, y>> \in tables.requests}
    BY DEF SqlRequests
  <2> QED BY <2>1, <2>2, <2>3, <2>4, <2>5
<1>2. ASSUME NEW x \in Member
      PROVE  /\ Cardinality(Graph!CountedFor(x)) = SqlRedeemed(x)
             /\ Held(Graph!InviteOwner(x)) = SqlCodes(x)
             /\ Graph!ListThreads(x) = SqlThreads(x)
  BY <1>0, CountsSame, OwnersSame, ListsSame
<1>3. \A c \in Coupon : Held(Graph!Invite(c)) = SqlOwners(c) BY <1>0, OwnersSame
<1>4. \A t \in 1..calls :
        UNION {{m} \X Held(Graph!Message(t, m)) : m \in 1..calls} = SqlMessages(t)
  BY <1>0, MessagesSaid
<1>5. {x \in Member : There(Graph!Reaction(x))} = tables.reactions
  BY <1>0 DEF ReactionsSame
<1> QED BY <1>1, <1>2, <1>3, <1>4, <1>5 DEF SocialAgree

(* After any calls, of any users about any codes and threads, the two      *)
(* social repositories answer the same: the router need not know which of  *)
(* them it has.                                                            *)
THEOREM SocialAgreeHolds == StoresSpec => []SocialAgree
<1>1. StoresInv => SocialAgree BY StoresAnswerTheSame
<1> QED BY StoresStart, StoresStep, <1>1, PTL DEF StoresSpec
=============================================================================
