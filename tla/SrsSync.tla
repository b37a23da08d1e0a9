------------------------------- MODULE SrsSync -------------------------------
(***************************************************************************)
(* The cards of one user: devices push the cards they reviewed, and the    *)
(* newest review of a card wins.  The calls for the cards of one request   *)
(* run side by side, and a request answers when all of them have ended.    *)
(* A card is one item; its push is a conditional update, and a push that   *)
(* loses but moves the bury date reads the item and writes it back without *)
(* a condition.                                                            *)
(***************************************************************************)
EXTENDS Integers, FiniteSets

CONSTANTS
    Worker,       \* the processes that serve requests
    Card,
    Day,          \* review dates
    Time,         \* review times within a day, from 1
    Bury,         \* bury dates, and the one that stands for none
    MaxRequests,  \* how many requests are served
    MaxFail,      \* how many calls raise
    MaxCrash,     \* how many workers die in a request
    None          \* no item

ASSUME SrsConstants ==
    /\ Day \subseteq Int
    /\ Time \subseteq Nat \ {0}
    /\ MaxRequests \in Nat /\ MaxFail \in Nat /\ MaxCrash \in Nat

VARIABLES
    store,      \* the item of each card, or None
    call,       \* what each worker is doing
    requests,   \* how many requests were begun
    fails,      \* how many calls raised
    crashes,    \* how many workers died
    acked,      \* history: for each card, the reviews acknowledged since it was
                \* last deleted
    cut,        \* history: the cards deleted since the request of a worker began
    overtaken   \* history: the cards whose item was written back though it had
                \* changed since it was read

vars == <<store, call, requests, fails, crashes, acked, cut, overtaken>>
bounds == <<requests, fails, crashes>>
history == <<acked, cut, overtaken>>

-----------------------------------------------------------------------------
(* Reviews.                                                                *)

\* The date of the last review, and its time, or 0 if the client is so old
\* that it sends no time (lastReviewedAt).
Review == Day \X (Time \cup {0})

\* The order of _max_last_review: a bare date is before any time of its day.
Newer(r, s) == r[1] > s[1] \/ (r[1] = s[1] /\ r[2] > s[2])

\* A card: the review it is the result of, and until when it is buried.
State == [review : Review, bury : Bury]

ASSUME NoneIsNoState == None \notin State

\* Mutant: the update has no condition.
AnyReview(item, incoming) == TRUE

\* attribute_not_exists(lastReview) OR lastReview < :lr
WriteIfNewer(item, incoming) ==
    item # None => Newer(incoming.review, item.review)

-----------------------------------------------------------------------------
(* Requests.  A worker has a task for each card of its request; card is    *)
(* the state that was pushed, and then the state that is answered.         *)

Task == {"none", "write", "read", "force", "delete", "landed", "failed"}

Idle == [op |-> "idle", task |-> [c \in Card |-> "none"],
         card |-> [c \in Card |-> None]]

Busy(w) == call[w].op # "idle"

On(w, c, task) == call[w].task[c] = task

Init ==
    /\ store = [c \in Card |-> None]
    /\ call = [w \in Worker |-> Idle]
    /\ requests = 0 /\ fails = 0 /\ crashes = 0
    /\ acked = [c \in Card |-> {}]
    /\ cut = [w \in Worker |-> {}]
    /\ overtaken = {}

Begin(w, op, cards, task, card) ==
    /\ ~Busy(w)
    /\ requests < MaxRequests
    /\ requests' = requests + 1
    /\ call' = [call EXCEPT ![w] =
          [op |-> op, card |-> card,
           task |-> [c \in Card |-> IF c \in cards THEN task ELSE "none"]]]
    /\ cut' = [cut EXCEPT ![w] = {}]
    /\ UNCHANGED <<store, fails, crashes, acked, overtaken>>

\* POST /srs/sync; an empty push is refused.
Sync(w, cards, states) ==
    /\ cards # {}
    /\ Begin(w, "sync", cards, "write",
             [c \in Card |-> IF c \in cards THEN states[c] ELSE None])

\* DELETE /srs/cards
DeleteCards(w, cards) ==
    /\ cards # {}
    /\ Begin(w, "delete", cards, "delete", Idle.card)

\* DELETE /srs/all: what the query finds is deleted, and nothing else.
ClearAll(w) ==
    Begin(w, "clear", {c \in Card : store[c] # None}, "delete", Idle.card)

\* The task of a card moves on, and its local state with it.
Step(w, c, task, card) ==
    call' = [call EXCEPT ![w] = [op |-> call[w].op,
                                 task |-> [call[w].task EXCEPT ![c] = task],
                                 card |-> [call[w].card EXCEPT ![c] = card]]]

\* _write_if_newer
Write(w, c) ==
    LET incoming == call[w].card[c]
        won == WriteIfNewer(store[c], incoming)
    IN  /\ On(w, c, "write")
        /\ store' = IF won THEN [store EXCEPT ![c] = incoming] ELSE store
        /\ Step(w, c, IF won THEN "landed" ELSE "read", incoming)
        /\ UNCHANGED <<bounds, history>>

\* Mutant: a card that is gone is answered as it was found.
RereadMissing(w, c) ==
    LET incoming == call[w].card[c]
        existing == store[c]
    IN  /\ On(w, c, "read")
        /\ IF existing = None THEN Step(w, c, "landed", existing)
           ELSE IF incoming.bury = existing.bury THEN Step(w, c, "landed", existing)
           ELSE Step(w, c, "force", [existing EXCEPT !.bury = incoming.bury])
        /\ UNCHANGED <<store, bounds, history>>

\* The push lost: what is there is answered, and written back if the push
\* moves the bury date.
Reread(w, c) ==
    LET incoming == call[w].card[c]
        existing == store[c]
    IN  /\ On(w, c, "read")
        /\ IF existing = None THEN Step(w, c, "landed", incoming)
           ELSE IF incoming.bury = existing.bury THEN Step(w, c, "landed", existing)
           ELSE Step(w, c, "force", [existing EXCEPT !.bury = incoming.bury])
        /\ UNCHANGED <<store, bounds, history>>

\* The item is not the one that was read: it was reviewed anew or deleted.
Stale(w, c) == store[c] = None \/ store[c].review # call[w].card[c].review

Put(w, c) ==
    /\ store' = [store EXCEPT ![c] = call[w].card[c]]
    /\ overtaken' = IF Stale(w, c) THEN overtaken \cup {c} ELSE overtaken
    /\ UNCHANGED <<acked, cut>>

\* _put_full(guard=False)
WriteBack(w, c) ==
    /\ On(w, c, "force")
    /\ Put(w, c)
    /\ Step(w, c, "landed", call[w].card[c])
    /\ UNCHANGED bounds

Remove(c) ==
    /\ store' = [store EXCEPT ![c] = None]
    /\ acked' = [acked EXCEPT ![c] = {}]
    /\ cut' = [v \in Worker |-> cut[v] \cup {c}]
    /\ UNCHANGED overtaken

Delete(w, c) ==
    /\ On(w, c, "delete")
    /\ Remove(c)
    /\ Step(w, c, "landed", None)
    /\ UNCHANGED bounds

\* A call raises, before or after it took effect.  The other tasks of a push
\* or a deletion go on; those of a clear do not.
Raise(w, c) ==
    /\ fails < MaxFail
    /\ fails' = fails + 1
    /\ IF call[w].op = "clear" THEN call' = [call EXCEPT ![w] = Idle]
       ELSE Step(w, c, "failed", call[w].card[c])
    /\ \/ /\ call[w].task[c] \in {"write", "read", "force", "delete"}
          /\ UNCHANGED <<store, history>>
       \/ /\ On(w, c, "write") /\ WriteIfNewer(store[c], call[w].card[c])
          /\ store' = [store EXCEPT ![c] = call[w].card[c]]
          /\ UNCHANGED history
       \/ On(w, c, "force") /\ Put(w, c)
       \/ On(w, c, "delete") /\ Remove(c)
    /\ UNCHANGED <<requests, crashes>>

\* The answer names the cards that landed, with their states.  What was
\* deleted while the request ran was acknowledged before it was deleted.
Answer(w) ==
    /\ Busy(w)
    /\ \A c \in Card : call[w].task[c] \in {"none", "landed", "failed"}
    /\ acked' = [c \in Card |->
          IF call[w].op = "sync" /\ On(w, c, "landed") /\ c \notin cut[w]
          THEN acked[c] \cup {call[w].card[c].review} ELSE acked[c]]
    /\ call' = [call EXCEPT ![w] = Idle]
    /\ UNCHANGED <<store, bounds, cut, overtaken>>

\* A worker dies, or its answer is lost.
Crash(w) ==
    /\ Busy(w)
    /\ crashes < MaxCrash
    /\ crashes' = crashes + 1
    /\ call' = [call EXCEPT ![w] = Idle]
    /\ UNCHANGED <<store, requests, fails, history>>

Next == \E w \in Worker :
    \/ \E cards \in SUBSET Card :
          \/ \E states \in [cards -> State] : Sync(w, cards, states)
          \/ DeleteCards(w, cards)
    \/ ClearAll(w)
    \/ \E c \in Card :
          Write(w, c) \/ Reread(w, c) \/ WriteBack(w, c) \/ Delete(w, c) \/ Raise(w, c)
    \/ Answer(w) \/ Crash(w)

Spec == Init /\ [][Next]_vars

-----------------------------------------------------------------------------
(* Properties.                                                             *)

(* The items and the tasks hold what the code can put there: a push always *)
(* has a state to write and to answer with, though items come and go.      *)
TypeOK ==
    /\ store \in [Card -> State \cup {None}]
    /\ call \in [Worker -> [op : {"idle", "sync", "delete", "clear"},
                            task : [Card -> Task],
                            card : [Card -> State \cup {None}]]]
    /\ \A w \in Worker, c \in Card :
          /\ (call[w].op = "sync" /\ call[w].task[c] # "none") => call[w].card[c] # None
          /\ call[w].task[c] \in {"write", "read", "force"} => call[w].op = "sync"
          /\ call[w].task[c] = "delete" => call[w].op \in {"delete", "clear"}
    /\ requests \in 0..MaxRequests
    /\ fails \in 0..MaxFail
    /\ crashes \in 0..MaxCrash
    /\ acked \in [Card -> SUBSET Review]
    /\ cut \in [Worker -> SUBSET Card]
    /\ overtaken \subseteq Card

(* A review that was acknowledged to a device is there, or a newer one,    *)
(* until the card is deleted: whatever devices push at the same time, push *)
(* again, fail at or bury.  The exception is an item that was written back *)
(* for its bury date after another device had changed it.                  *)
AckedSurvives ==
    \A c \in Card \ overtaken : \A r \in acked[c] :
        store[c] # None /\ ~Newer(r, store[c].review)

=============================================================================
