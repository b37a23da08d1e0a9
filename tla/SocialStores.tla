---------------------------- MODULE SocialStores ----------------------------
(***************************************************************************)
(* The two social repositories.  Production keeps items in DynamoDB, what  *)
(* runs locally and in the tests keeps tables in SQLite, and the router    *)
(* does not know which.  Here every method is called on both, one call at  *)
(* a time: the items are those of SocialGraph, the tables are added.       *)
(* Times are left out.                                                     *)
(***************************************************************************)
EXTENDS Naturals, Sequences, FiniteSets

CONSTANTS
    Member,   \* users
    Coupon,   \* invite codes
    MaxCalls  \* how many threads are opened and messages sent

ASSUME SocialStoresConstants == MaxCalls \in Nat

VARIABLES
    store,   \* the items of DynamoDB
    tables,  \* the tables of SQLite
    calls    \* how many ids were drawn

storeVars == <<store, tables, calls>>

\* The repository in DynamoDB, while nobody else calls it.
Graph == INSTANCE SocialGraph
            WITH User <- Member, Code <- Coupon, MonthlyCap <- 0, Worker <- {"w"},
                 MaxRequests <- MaxCalls, MaxCrash <- 0, items <- store, call <- <<>>,
                 requests <- calls, crashes <- 0, shared <- {}, torn <- {}, agreed <- {}

\* friends, requests and blocks are pairs; codes are pairs of a code and its
\* owner; redemptions are triples of code, invitee and inviter; threads and
\* messages are records.
StoresInit ==
    /\ store = <<>>
    /\ tables = [friends |-> {}, requests |-> {}, blocks |-> {}, reactions |-> {},
                 codes |-> {}, redemptions |-> {}, threads |-> {}, messages |-> {}]
    /\ calls = 0

\* A method's writes to the items, and what it makes of a table.
Both(todo, table, rows) ==
    /\ store' = Graph!AfterAll(todo)
    /\ tables' = [tables EXCEPT ![table] = rows]
    /\ UNCHANGED calls

\* The same for a method that is given a fresh id.
BothNew(todo, table, rows) ==
    /\ calls < MaxCalls
    /\ calls' = calls + 1
    /\ store' = Graph!AfterAll(todo)
    /\ tables' = [tables EXCEPT ![table] = rows]

There(key) == key \in DOMAIN store

\* An item, if it is there.
Held(key) == {store[k] : k \in {key} \cap DOMAIN store}

-----------------------------------------------------------------------------
(* The methods.                                                            *)

AddEdge(x, y) ==
    Both(Graph!AddFriendEdge(x, y), "friends", tables.friends \cup {<<x, y>>, <<y, x>>})

RemoveEdge(x, y) ==
    Both(Graph!RemoveFriendEdge(x, y), "friends", tables.friends \ {<<x, y>>, <<y, x>>})

UpsertRequest(x, y) ==
    Both(Graph!UpsertFriendRequest(x, y), "requests", tables.requests \cup {<<x, y>>})

DeleteRequest(x, y) ==
    Both(Graph!DeleteFriendRequest(x, y), "requests", tables.requests \ {<<x, y>>})

PutBlock(x, y) == Both(Graph!BlockUser(x, y), "blocks", tables.blocks \cup {<<x, y>>})

DeleteBlock(x, y) ==
    Both(<<{Graph!Delete(Graph!Block(x, y))}>>, "blocks", tables.blocks \ {<<x, y>>})

Toggle(x) ==
    Both(<<{IF There(Graph!Reaction(x)) THEN Graph!Delete(Graph!Reaction(x))
                                        ELSE Graph!Put(Graph!Reaction(x), TRUE)}>>,
         "reactions",
         IF x \in tables.reactions THEN tables.reactions \ {x} ELSE tables.reactions \cup {x})

\* The first code of an owner stays.  The table has each code once, and the router
\* asks for a code that is not there.
CreateCode(o, c) ==
    /\ ~There(Graph!Invite(c))
    /\ Both(IF There(Graph!InviteOwner(o)) THEN <<>> ELSE Graph!CreateInviteCode(o, c),
            "codes",
            IF \E row \in tables.codes : row[2] = o THEN tables.codes
                                                    ELSE tables.codes \cup {<<c, o>>})

Redeem(c, o, x) ==
    /\ There(Graph!Invite(c)) /\ store[Graph!Invite(c)] = o /\ x # o
    /\ Both(Graph!UpsertRedemption(c, o, x), "redemptions", tables.redemptions \cup {<<c, x, o>>})

OpenBoth(x, y) ==
    LET t == calls + 1
    IN  BothNew(Graph!PutThread(t, x, y), "threads",
                tables.threads \cup {[id |-> t, of |-> {x, y}]})

SendBoth(x, t) ==
    LET m == calls + 1
    IN  BothNew(<<{Graph!Put(Graph!Message(t, m), x)}>>, "messages",
                tables.messages \cup {[id |-> m, thread |-> t, sender |-> x]})

Couples == {pair \in Member \X Member : pair[1] # pair[2]}

EdgesNext == \E p \in Couples : AddEdge(p[1], p[2]) \/ RemoveEdge(p[1], p[2])

RequestsNext == \E p \in Couples : UpsertRequest(p[1], p[2]) \/ DeleteRequest(p[1], p[2])

BlocksNext == \E p \in Couples : PutBlock(p[1], p[2]) \/ DeleteBlock(p[1], p[2])

CodesNext ==
    \/ \E o \in Member, c \in Coupon : CreateCode(o, c)
    \/ \E c \in Coupon, o, x \in Member : Redeem(c, o, x)

TalkNext ==
    \/ \E p \in Couples : OpenBoth(p[1], p[2])
    \/ \E x \in Member : Toggle(x)
    \/ \E x \in Member, t \in 1..calls : There(Graph!Thread(t)) /\ SendBoth(x, t)

StoresNext == EdgesNext \/ RequestsNext \/ BlocksNext \/ CodesNext \/ TalkNext

StoresSpec == StoresInit /\ [][StoresNext]_storeVars

-----------------------------------------------------------------------------
(* What the tables are asked.                                              *)

SqlFriends(x) == {y \in Member : <<x, y>> \in tables.friends}

SqlRequests(x) ==
    <<{y \in Member : <<y, x>> \in tables.requests},
      {y \in Member : <<x, y>> \in tables.requests}>>

SqlBlocks(x) == {y \in Member : <<x, y>> \in tables.blocks}

SqlCodes(o) == {row[1] : row \in {r \in tables.codes : r[2] = o}}

SqlOwners(c) == {row[2] : row \in {r \in tables.codes : r[1] = c}}

SqlRedeemed(o) == Cardinality({r \in tables.redemptions : r[3] = o})

SqlThreads(x) == {thread.of \ {x} : thread \in {r \in tables.threads : x \in r.of}}

SqlMessages(t) == {<<m.id, m.sender>> : m \in {r \in tables.messages : r.thread = t}}

\* The two answer the same, after any calls: who are friends, who asked whom and
\* who is blocked, from both sides; the code of an owner and the owner of a code,
\* and how often it was redeemed; with whom a user has threads, and what was said
\* in them; who has reacted (the repositories' docs call one the reference for
\* the other).  One keeps a fact in a row, the other in two that are written one
\* after the other, and a count in rows of their own.
SocialAgree ==
    /\ \A x \in Member :
          /\ Graph!ListFriends(x) = SqlFriends(x)
          /\ Graph!ListFriendRequests(x) = SqlRequests(x)
          /\ Graph!ListBlocks(x) = SqlBlocks(x)
          /\ {y \in Member : There(Graph!RequestIn(x, y))} = SqlRequests(x)[2]
          /\ Cardinality(Graph!CountedFor(x)) = SqlRedeemed(x)
          /\ Held(Graph!InviteOwner(x)) = SqlCodes(x)
          /\ Graph!ListThreads(x) = SqlThreads(x)
    /\ \A c \in Coupon : Held(Graph!Invite(c)) = SqlOwners(c)
    /\ \A t \in 1..calls :
          UNION {{m} \X Held(Graph!Message(t, m)) : m \in 1..calls} = SqlMessages(t)
    /\ {x \in Member : There(Graph!Reaction(x))} = tables.reactions
=============================================================================
