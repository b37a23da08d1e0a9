---------------------------- MODULE SrsSyncProofs ----------------------------
(***************************************************************************)
(* An acknowledged review survives, for any number of workers, cards,      *)
(* reviews and bury dates, of failing calls and of lost answers.           *)
(*                                                                         *)
(* The argument: what a task is about to answer is already in the store,   *)
(* or something newer is, unless the card was deleted since the request    *)
(* began.  The condition of the update keeps this for every other task; an *)
(* unconditional put breaks it only if the item changed since it was read. *)
(*                                                                         *)
(* The theorem of Leaderboards, for any number of players, is last: it     *)
(* shares nothing with the others.                                         *)
(***************************************************************************)
EXTENDS SrsSync, Leaderboards, FiniteSetTheorems, TLAPS

\* The item is there, and no older than the review.
Holds(item, r) == item # None /\ ~Newer(r, item.review)

\* What the tasks of a card promise.
Pending(w, c) ==
    /\ call[w].task[c] = "read" => Holds(store[c], call[w].card[c].review)
    /\ call[w].op = "sync" /\ call[w].task[c] = "landed" =>
          Holds(store[c], call[w].card[c].review)

AckInv ==
    /\ TypeOK
    /\ AckedSurvives
    /\ \A w \in Worker : \A c \in Card \ (cut[w] \cup overtaken) : Pending(w, c)

LEMMA NewerOrder ==
    ASSUME NEW r \in Review, NEW s \in Review, NEW t \in Review
    PROVE  /\ ~Newer(r, r)
           /\ Newer(r, s) => ~Newer(s, r)
           /\ ~Newer(r, s) /\ ~Newer(s, t) => ~Newer(r, t)
<1>1. ASSUME NEW q \in Review PROVE q[1] \in Int /\ q[2] \in Int
  <2>1. PICK d \in Day, i \in Time \cup {0} : q = <<d, i>> BY DEF Review
  <2> QED BY <2>1, SrsConstants
<1>2. /\ r[1] \in Int /\ s[1] \in Int /\ t[1] \in Int
      /\ r[2] \in Int /\ s[2] \in Int /\ t[2] \in Int
  BY <1>1
<1> QED BY <1>2 DEF Newer

Calls == [op : {"idle", "sync", "delete", "clear"}, task : [Card -> Task],
          card : [Card -> State \cup {None}]]

\* A push has a state for each of its cards.
Equipped(k) == \A c \in Card :
    /\ k.op = "sync" /\ k.task[c] # "none" => k.card[c] # None
    /\ k.task[c] \in {"write", "read", "force"} => k.op = "sync"
    /\ k.task[c] = "delete" => k.op \in {"delete", "clear"}

LEMMA TypeParts ==
    TypeOK <=> /\ store \in [Card -> State \cup {None}]
               /\ call \in [Worker -> Calls]
               /\ \A w \in Worker : Equipped(call[w])
               /\ requests \in 0..MaxRequests
               /\ fails \in 0..MaxFail
               /\ crashes \in 0..MaxCrash
               /\ acked \in [Card -> SUBSET Review]
               /\ cut \in [Worker -> SUBSET Card]
               /\ overtaken \subseteq Card
BY DEF TypeOK, Calls, Equipped

LEMMA IdleType == Idle \in Calls /\ Equipped(Idle)
BY DEF Idle, Calls, Equipped, Task

-----------------------------------------------------------------------------
(* How the calls change.                                                   *)

LEMMA StepFacts ==
    ASSUME TypeOK, NEW w \in Worker, NEW c \in Card, NEW t \in Task,
           NEW s \in State \cup {None}, Step(w, c, t, s),
           call[w].op = "sync" => s # None,
           t \in {"write", "read", "force"} => call[w].op = "sync",
           t # "delete"
    PROVE  /\ call' \in [Worker -> Calls]
           /\ \A v \in Worker : Equipped(call'[v])
           /\ \A v \in Worker, d \in Card :
                 IF v = w /\ d = c
                 THEN /\ call'[v].op = call[v].op
                      /\ call'[v].task[d] = t /\ call'[v].card[d] = s
                 ELSE /\ call'[v].op = call[v].op
                      /\ call'[v].task[d] = call[v].task[d]
                      /\ call'[v].card[d] = call[v].card[d]
<1> DEFINE k == call[w]
           x == [op |-> k.op, task |-> [k.task EXCEPT ![c] = t],
                 card |-> [k.card EXCEPT ![c] = s]]
<1>1. call \in [Worker -> Calls] /\ \A v \in Worker : Equipped(call[v])
  BY TypeParts
<1>2. k \in Calls /\ Equipped(k) BY <1>1
<1>3. call' = [call EXCEPT ![w] = x] BY DEF Step
<1>4. \A v \in Worker : call'[v] = IF v = w THEN x ELSE call[v]
  BY <1>1, <1>3
<1>5. (k.op = "sync" => s # None)
      /\ (t \in {"write", "read", "force"} => k.op = "sync")
      /\ t # "delete"
  OBVIOUS
<1> HIDE DEF k
<1>6. x \in Calls BY <1>2 DEF Calls
<1>7. x.op = k.op OBVIOUS
<1>8. \A d \in Card : /\ x.task[d] = IF d = c THEN t ELSE k.task[d]
                      /\ x.card[d] = IF d = c THEN s ELSE k.card[d]
  BY <1>2 DEF Calls
<1> HIDE DEF x
<1>9. Equipped(x) BY <1>2, <1>5, <1>7, <1>8 DEF Equipped
<1>10. call' \in [Worker -> Calls] BY <1>1, <1>3, <1>6
<1>11. \A v \in Worker : Equipped(call'[v]) BY <1>1, <1>4, <1>9
<1> QED BY <1>4, <1>7, <1>8, <1>10, <1>11 DEF k

LEMMA EndFacts ==
    ASSUME TypeOK, NEW w \in Worker, call' = [call EXCEPT ![w] = Idle]
    PROVE  /\ call' \in [Worker -> Calls]
           /\ \A v \in Worker : Equipped(call'[v])
           /\ \A v \in Worker : call'[v] = IF v = w THEN Idle ELSE call[v]
           /\ \A d \in Card : Idle.task[d] = "none"
<1>1. call \in [Worker -> Calls] /\ \A v \in Worker : Equipped(call[v])
  BY TypeParts
<1>2. \A d \in Card : Idle.task[d] = "none" BY DEF Idle
<1> QED BY <1>1, <1>2, IdleType

-----------------------------------------------------------------------------
(* A step that touches the item of one card.                               *)

Advances(c) == \A r \in Review : Holds(store[c], r) => Holds(store'[c], r)

LEMMA CardStep ==
    ASSUME AckInv, TypeOK', NEW c \in Card,
           \A d \in Card \ {c} : store'[d] = store[d] /\ acked'[d] = acked[d],
           overtaken \subseteq overtaken',
           \A v \in Worker : cut[v] \subseteq cut'[v],
           c \in overtaken' \/ \A r \in acked'[c] : Holds(store'[c], r),
           \A v \in Worker : \A d \in Card \ (cut'[v] \cup overtaken') :
              \/ /\ call'[v].op = call[v].op
                 /\ call'[v].task[d] = call[v].task[d]
                 /\ call'[v].card[d] = call[v].card[d]
                 /\ d # c \/ Advances(c)
              \/ /\ call'[v].task[d] # "read"
                 /\ call'[v].op = "sync" => call'[v].task[d] # "landed"
              \/ d = c /\ Holds(store'[c], call'[v].card[c].review)
    PROVE  AckInv'
<1>1. AckedSurvives'
  BY DEF AckInv, AckedSurvives, Holds
<1>2. ASSUME NEW v \in Worker, NEW d \in Card \ (cut'[v] \cup overtaken')
      PROVE  Pending(v, d)'
  <2>1. d \in Card \ (cut[v] \cup overtaken) /\ Pending(v, d) BY DEF AckInv
  <2>2. CASE /\ call'[v].op = call[v].op
             /\ call'[v].task[d] = call[v].task[d]
             /\ call'[v].card[d] = call[v].card[d]
             /\ d # c \/ Advances(c)
    <3>1. call[v].card[d] # None => call[v].card[d].review \in Review
      <4>1. call[v].card[d] \in State \cup {None}
        BY TypeParts DEF AckInv, Calls
      <4> QED BY <4>1 DEF State
    <3>2. /\ call[v].op = "sync" /\ call[v].task[d] # "none" => call[v].card[d] # None
          /\ call[v].task[d] = "read" => call[v].op = "sync"
      BY TypeParts DEF AckInv, Equipped
    <3>3. \A r \in Review : Holds(store[d], r) => Holds(store'[d], r)
      BY <2>2 DEF Advances
    <3> QED BY <2>1, <2>2, <3>1, <3>2, <3>3 DEF Pending
  <2>3. CASE /\ call'[v].task[d] # "read"
             /\ call'[v].op = "sync" => call'[v].task[d] # "landed"
    BY <2>3 DEF Pending
  <2>4. CASE d = c /\ Holds(store'[c], call'[v].card[c].review)
    BY <2>4 DEF Pending
  <2> QED BY <2>2, <2>3, <2>4
<1> QED BY <1>1, <1>2 DEF AckInv

\* A task of a push moves on; nothing is deleted.
LEMMA TaskStep ==
    ASSUME AckInv, NEW w \in Worker, NEW c \in Card, NEW t \in Task,
           NEW s \in State \cup {None}, Step(w, c, t, s),
           call[w].op = "sync" => s # None,
           t \in {"write", "read", "force"} => call[w].op = "sync",
           t # "delete",
           store' \in [Card -> State \cup {None}],
           \A d \in Card \ {c} : store'[d] = store[d],
           UNCHANGED <<acked, cut, requests, crashes>>,
           fails' \in 0..MaxFail,
           overtaken \subseteq overtaken', overtaken' \subseteq Card,
           c \in overtaken' \/ Advances(c),
           \/ c \in overtaken' \cup cut[w]
           \/ t = "read" \/ (call[w].op = "sync" /\ t = "landed") =>
                 Holds(store'[c], s.review)
    PROVE  AckInv'
<1>1. TypeOK BY DEF AckInv
<1>2. /\ call' \in [Worker -> Calls]
      /\ \A v \in Worker : Equipped(call'[v])
      /\ \A v \in Worker, d \in Card :
            IF v = w /\ d = c
            THEN /\ call'[v].op = call[v].op
                 /\ call'[v].task[d] = t /\ call'[v].card[d] = s
            ELSE /\ call'[v].op = call[v].op
                 /\ call'[v].task[d] = call[v].task[d]
                 /\ call'[v].card[d] = call[v].card[d]
  BY <1>1, StepFacts
<1>3. TypeOK'
  <2>1. /\ store' \in [Card -> State \cup {None}]
        /\ requests' \in 0..MaxRequests /\ crashes' \in 0..MaxCrash
        /\ fails' \in 0..MaxFail
        /\ acked' \in [Card -> SUBSET Review] /\ cut' \in [Worker -> SUBSET Card]
        /\ overtaken' \subseteq Card
    BY <1>1, TypeParts
  <2> QED BY <1>2, <2>1 DEF TypeOK, Equipped, Calls
<1>4. c \in overtaken' \/ \A r \in acked'[c] : Holds(store'[c], r)
  <2>1. c \in overtaken \/ \A r \in acked[c] : Holds(store[c], r)
    BY DEF AckInv, AckedSurvives, Holds
  <2>2. acked[c] \subseteq Review BY <1>1, TypeParts
  <2> QED BY <2>1, <2>2 DEF Advances
<1>5. ASSUME NEW v \in Worker, NEW d \in Card \ (cut'[v] \cup overtaken')
      PROVE  \/ /\ call'[v].op = call[v].op
                /\ call'[v].task[d] = call[v].task[d]
                /\ call'[v].card[d] = call[v].card[d]
                /\ d # c \/ Advances(c)
             \/ /\ call'[v].task[d] # "read"
                /\ call'[v].op = "sync" => call'[v].task[d] # "landed"
             \/ d = c /\ Holds(store'[c], call'[v].card[c].review)
  <2>1. CASE v = w /\ d = c BY <1>2, <2>1
  <2>2. CASE ~(v = w /\ d = c) BY <1>2, <2>2
  <2> QED BY <2>1, <2>2
<1> QED BY <1>3, <1>4, <1>5, CardStep

LEMMA Unmoved ==
    ASSUME NEW c, store'[c] = store[c]
    PROVE  Advances(c)
BY DEF Advances

LEMMA WonAdvances ==
    ASSUME NEW c \in Card, store[c] \in State \cup {None}, NEW s \in State,
           WriteIfNewer(store[c], s), store'[c] = s
    PROVE  Advances(c)
<1> SUFFICES ASSUME NEW r \in Review, Holds(store[c], r) PROVE Holds(store'[c], r)
  BY DEF Advances
<1>1. store[c] # None /\ store[c] \in State /\ ~Newer(r, store[c].review)
  BY DEF Holds
<1>2. store[c].review \in Review /\ s.review \in Review BY <1>1 DEF State
<1>3. Newer(s.review, store[c].review) BY <1>1 DEF WriteIfNewer
<1>4. ~Newer(r, s.review) BY <1>1, <1>2, <1>3, NewerOrder
<1>5. s # None BY NoneIsNoState
<1> QED BY <1>4, <1>5 DEF Holds

-----------------------------------------------------------------------------
(* The actions.                                                            *)

LEMMA WriteInv ==
    ASSUME AckInv, NEW w \in Worker, NEW c \in Card, Write(w, c)
    PROVE  AckInv'
<1> DEFINE s == call[w].card[c]
           t == IF WriteIfNewer(store[c], s) THEN "landed" ELSE "read"
<1>1. /\ TypeOK /\ call[w].op = "sync" /\ s \in State /\ s # None
      /\ store[c] \in State \cup {None}
      /\ store \in [Card -> State \cup {None}] /\ fails \in 0..MaxFail
      /\ overtaken \subseteq Card
  BY TypeParts DEF AckInv, Write, On, Calls, Equipped
<1>2. /\ Step(w, c, t, s) /\ t \in Task
      /\ UNCHANGED <<acked, cut, overtaken, requests, fails, crashes>>
  BY DEF Write, bounds, history, Task
<1>3. CASE WriteIfNewer(store[c], s)
  <2>1. store' = [store EXCEPT ![c] = s] /\ t = "landed" BY <1>3 DEF Write
  <2>2. /\ store' \in [Card -> State \cup {None}] /\ store'[c] = s
        /\ \A d \in Card \ {c} : store'[d] = store[d]
    BY <1>1, <2>1
  <2>3. Advances(c) BY <1>1, <1>3, <2>2, WonAdvances
  <2>4. Holds(store'[c], s.review)
    BY <1>1, <2>2, NewerOrder DEF Holds, State
  <2> HIDE DEF s, t
  <2> QED BY <1>1, <1>2, <2>1, <2>2, <2>3, <2>4, TaskStep
<1>4. CASE ~WriteIfNewer(store[c], s)
  <2>1. store' = store /\ t = "read" BY <1>4 DEF Write
  <2>2. Advances(c) BY <2>1, Unmoved
  <2>3. Holds(store'[c], s.review)
    BY <1>4, <2>1 DEF Holds, WriteIfNewer
  <2> HIDE DEF s, t
  <2> QED BY <1>1, <1>2, <2>1, <2>2, <2>3, TaskStep
<1> QED BY <1>3, <1>4

LEMMA RereadInv ==
    ASSUME AckInv, NEW w \in Worker, NEW c \in Card, Reread(w, c)
    PROVE  AckInv'
<1> DEFINE s == call[w].card[c]
           x == store[c]
<1>1. /\ TypeOK /\ call[w].op = "sync" /\ s \in State /\ s # None
      /\ x \in State \cup {None} /\ On(w, c, "read")
      /\ store \in [Card -> State \cup {None}] /\ fails \in 0..MaxFail
      /\ overtaken \subseteq Card
  BY TypeParts DEF AckInv, Reread, On, Calls, Equipped
<1>2. UNCHANGED <<store, acked, cut, overtaken, requests, fails, crashes>>
  BY DEF Reread, bounds, history
<1>3. Advances(c) BY <1>2, Unmoved
<1>4. x = None => c \in cut[w] \cup overtaken
  BY <1>1 DEF AckInv, Pending, Holds, On
<1>5. CASE x = None
  <2>1. Step(w, c, "landed", s) BY <1>5 DEF Reread
  <2> HIDE DEF s, x
  <2> QED BY <1>1, <1>2, <1>3, <1>4, <1>5, <2>1, TaskStep DEF Task
<1>6. CASE x # None /\ s.bury = x.bury
  <2>1. Step(w, c, "landed", x) BY <1>6 DEF Reread
  <2>2. Holds(store'[c], x.review)
    BY <1>1, <1>2, <1>6, NewerOrder DEF Holds, State
  <2> HIDE DEF s, x
  <2> QED BY <1>1, <1>2, <1>3, <1>6, <2>1, <2>2, TaskStep DEF Task
<1>7. CASE x # None /\ s.bury # x.bury
  <2> DEFINE y == [x EXCEPT !.bury = s.bury]
  <2>1. Step(w, c, "force", y) BY <1>7 DEF Reread
  <2>2. y \in State BY <1>1, <1>7 DEF State
  <2>3. y # None BY <2>2, NoneIsNoState
  <2> HIDE DEF s, x, y
  <2> QED BY <1>1, <1>2, <1>3, <2>1, <2>2, <2>3, TaskStep DEF Task
<1> QED BY <1>5, <1>6, <1>7

\* An unconditional put, unless it is stale, changes no review.
LEMMA PutFacts ==
    ASSUME AckInv, NEW w \in Worker, NEW c \in Card, On(w, c, "force"), Put(w, c)
    PROVE  /\ call[w].op = "sync" /\ call[w].card[c] \in State
           /\ store' \in [Card -> State \cup {None}]
           /\ \A d \in Card \ {c} : store'[d] = store[d]
           /\ overtaken \subseteq overtaken' /\ overtaken' \subseteq Card
           /\ c \in overtaken' \/ Advances(c)
           /\ Holds(store'[c], call[w].card[c].review)
<1> DEFINE s == call[w].card[c]
<1>1. /\ call[w].op = "sync" /\ s \in State /\ s # None
      /\ store \in [Card -> State \cup {None}] /\ overtaken \subseteq Card
  BY TypeParts DEF AckInv, On, Calls, Equipped
<1>2. store' = [store EXCEPT ![c] = s] BY DEF Put
<1>3. /\ store' \in [Card -> State \cup {None}] /\ store'[c] = s
      /\ \A d \in Card \ {c} : store'[d] = store[d]
  BY <1>1, <1>2
<1>4. /\ overtaken \subseteq overtaken' /\ overtaken' \subseteq Card
      /\ Stale(w, c) => c \in overtaken'
  BY <1>1 DEF Put
<1>5. ~Stale(w, c) => Advances(c)
  BY <1>1, <1>3 DEF Stale, Advances, Holds
<1>6. Holds(store'[c], s.review) BY <1>1, <1>3, NewerOrder DEF Holds, State
<1> QED BY <1>1, <1>3, <1>4, <1>5, <1>6

LEMMA WriteBackInv ==
    ASSUME AckInv, NEW w \in Worker, NEW c \in Card, WriteBack(w, c)
    PROVE  AckInv'
<1> DEFINE s == call[w].card[c]
<1>1. /\ call[w].op = "sync" /\ s \in State
      /\ store' \in [Card -> State \cup {None}]
      /\ \A d \in Card \ {c} : store'[d] = store[d]
      /\ overtaken \subseteq overtaken' /\ overtaken' \subseteq Card
      /\ c \in overtaken' \/ Advances(c)
      /\ Holds(store'[c], s.review)
  BY PutFacts DEF WriteBack
<1>2. Step(w, c, "landed", s) /\ s # None BY <1>1, NoneIsNoState DEF WriteBack
<1>3. UNCHANGED <<acked, cut, requests, fails, crashes>>
  BY DEF WriteBack, Put, bounds
<1>4. fails \in 0..MaxFail BY TypeParts DEF AckInv
<1> HIDE DEF s
<1> QED BY <1>1, <1>2, <1>3, <1>4, TaskStep DEF Task

\* A step of another kind of a worker whose task was to delete the card.
LEMMA RemoveStep ==
    ASSUME AckInv, NEW w \in Worker, NEW c \in Card, Remove(c),
           call' \in [Worker -> Calls], \A v \in Worker : Equipped(call'[v]),
           \A v \in Worker, d \in Card : d # c =>
              \/ /\ call'[v].op = call[v].op
                 /\ call'[v].task[d] = call[v].task[d]
                 /\ call'[v].card[d] = call[v].card[d]
              \/ call'[v].task[d] = "none",
           UNCHANGED <<requests, crashes>>, fails' \in 0..MaxFail
    PROVE  AckInv'
<1>1. TypeOK BY DEF AckInv
<1>2. /\ store' = [store EXCEPT ![c] = None]
      /\ acked' = [acked EXCEPT ![c] = {}]
      /\ cut' = [v \in Worker |-> cut[v] \cup {c}]
      /\ overtaken' = overtaken
  BY DEF Remove
<1>3. TypeOK'
  <2>1. /\ store' \in [Card -> State \cup {None}]
        /\ requests' \in 0..MaxRequests /\ crashes' \in 0..MaxCrash
        /\ fails' \in 0..MaxFail
        /\ acked' \in [Card -> SUBSET Review] /\ cut' \in [Worker -> SUBSET Card]
        /\ overtaken' \subseteq Card
    BY <1>1, <1>2, TypeParts
  <2> QED BY <2>1 DEF TypeOK, Equipped, Calls
<1>4. \A d \in Card \ {c} : store'[d] = store[d] /\ acked'[d] = acked[d]
  BY <1>1, <1>2, TypeParts
<1>5. acked'[c] = {} BY <1>1, <1>2, TypeParts
<1>6. \A v \in Worker : cut[v] \subseteq cut'[v] /\ c \in cut'[v]
  BY <1>2
<1> QED BY <1>2, <1>3, <1>4, <1>5, <1>6, CardStep

LEMMA DeleteInv ==
    ASSUME AckInv, NEW w \in Worker, NEW c \in Card, Delete(w, c)
    PROVE  AckInv'
<1>1. /\ TypeOK /\ call[w].op # "sync"
  BY TypeParts DEF AckInv, Delete, On, Equipped
<1>2. /\ call' \in [Worker -> Calls]
      /\ \A v \in Worker : Equipped(call'[v])
      /\ \A v \in Worker, d \in Card : d # c =>
            /\ call'[v].op = call[v].op
            /\ call'[v].task[d] = call[v].task[d]
            /\ call'[v].card[d] = call[v].card[d]
  BY <1>1, StepFacts DEF Delete, Task
<1>3. UNCHANGED <<requests, fails, crashes>> /\ fails \in 0..MaxFail
  BY <1>1, TypeParts DEF Delete, bounds
<1> QED BY <1>2, <1>3, RemoveStep DEF Delete

\* A worker begins or ends a request.
LEMMA TurnStep ==
    ASSUME AckInv, TypeOK', AckedSurvives', NEW w \in Worker, NEW k,
           call' = [call EXCEPT ![w] = k],
           \A c \in Card : k.task[c] \notin {"read", "landed"},
           UNCHANGED <<store, overtaken>>,
           \A v \in Worker \ {w} : cut'[v] = cut[v]
    PROVE  AckInv'
<1>1. \A v \in Worker : call'[v] = IF v = w THEN k ELSE call[v]
  BY TypeParts DEF AckInv
<1>2. ASSUME NEW v \in Worker, NEW c \in Card \ (cut'[v] \cup overtaken')
      PROVE  Pending(v, c)'
  <2>1. CASE v = w BY <1>1, <2>1 DEF Pending
  <2>2. CASE v # w BY <1>1, <2>2 DEF Pending, AckInv
  <2> QED BY <2>1, <2>2
<1> QED BY <1>2 DEF AckInv

LEMMA RaiseInv ==
    ASSUME AckInv, NEW w \in Worker, NEW c \in Card, Raise(w, c)
    PROVE  AckInv'
<1> DEFINE s == call[w].card[c]
<1>1. /\ TypeOK /\ s \in State \cup {None}
      /\ store \in [Card -> State \cup {None}] /\ overtaken \subseteq Card
      /\ call[w].task[c] \in {"write", "read", "force"} => call[w].op = "sync"
      /\ call[w].task[c] = "delete" => call[w].op \in {"delete", "clear"}
  BY TypeParts DEF AckInv, Equipped, Calls
<1>2. call[w].task[c] \in {"write", "read", "force", "delete"}
  BY DEF Raise, On
<1>3. call[w].op = "sync" => s # None
  BY <1>2, TypeParts DEF AckInv, Equipped
<1>4. UNCHANGED <<requests, crashes>> /\ fails' \in 0..MaxFail
  BY <1>1, SrsConstants, TypeParts DEF Raise
<1>5. CASE On(w, c, "delete") /\ Remove(c)
  <2>1. /\ call' \in [Worker -> Calls]
        /\ \A v \in Worker : Equipped(call'[v])
        /\ \A v \in Worker, d \in Card : d # c =>
              \/ /\ call'[v].op = call[v].op
                 /\ call'[v].task[d] = call[v].task[d]
                 /\ call'[v].card[d] = call[v].card[d]
              \/ call'[v].task[d] = "none"
    <3>1. CASE call[w].op = "clear"
      <4>1. call' = [call EXCEPT ![w] = Idle] BY <3>1 DEF Raise
      <4> QED BY <1>1, <4>1, EndFacts
    <3>2. CASE call[w].op # "clear"
      <4>1. Step(w, c, "failed", s) BY <3>2 DEF Raise
      <4> QED BY <1>1, <1>3, <4>1, StepFacts DEF Task
    <3> QED BY <3>1, <3>2
  <2> QED BY <1>4, <1>5, <2>1, RemoveStep
<1>6. CASE UNCHANGED <<store, history>> /\ call[w].op = "clear"
  <2>1. call' = [call EXCEPT ![w] = Idle] BY <1>6 DEF Raise
  <2>2. UNCHANGED <<store, acked, cut, overtaken>> BY <1>6 DEF history
  <2>3. /\ call' \in [Worker -> Calls] /\ \A v \in Worker : Equipped(call'[v])
        /\ \A d \in Card : Idle.task[d] = "none"
    BY <1>1, <2>1, EndFacts
  <2>4. TypeOK' BY <1>1, <1>4, <2>2, <2>3, TypeParts DEF TypeOK, Equipped, Calls
  <2>5. AckedSurvives' BY <2>2 DEF AckInv, AckedSurvives
  <2> QED BY <2>1, <2>2, <2>3, <2>4, <2>5, TurnStep
<1>7. ASSUME call[w].op # "clear", UNCHANGED <<acked, cut>>,
             store' \in [Card -> State \cup {None}],
             \A d \in Card \ {c} : store'[d] = store[d],
             overtaken \subseteq overtaken', overtaken' \subseteq Card,
             c \in overtaken' \/ Advances(c)
      PROVE  AckInv'
  <2>1. Step(w, c, "failed", s) BY <1>7 DEF Raise
  <2> HIDE DEF s
  <2> QED BY <1>1, <1>3, <1>4, <1>7, <2>1, TaskStep DEF Task
<1>8. CASE UNCHANGED <<store, history>> /\ call[w].op # "clear"
  BY <1>1, <1>7, <1>8, Unmoved DEF history
<1>9. CASE /\ On(w, c, "write") /\ WriteIfNewer(store[c], s)
           /\ store' = [store EXCEPT ![c] = s] /\ UNCHANGED history
  <2>1. s \in State /\ call[w].op # "clear" BY <1>1, <1>3, <1>9 DEF On
  <2>2. /\ store' \in [Card -> State \cup {None}] /\ store'[c] = s
        /\ \A d \in Card \ {c} : store'[d] = store[d]
    BY <1>1, <1>9
  <2>3. Advances(c) BY <1>1, <1>9, <2>1, <2>2, WonAdvances
  <2> QED BY <1>1, <1>7, <1>9, <2>1, <2>2, <2>3 DEF history
<1>10. CASE On(w, c, "force") /\ Put(w, c)
  <2>1. call[w].op # "clear" /\ UNCHANGED <<acked, cut>>
    BY <1>1, <1>10 DEF On, Put
  <2> QED BY <1>7, <1>10, <2>1, PutFacts
<1> QED BY <1>5, <1>6, <1>8, <1>9, <1>10 DEF Raise

LEMMA BeginInv ==
    ASSUME AckInv, NEW w \in Worker, NEW op \in {"sync", "delete", "clear"},
           NEW cards \in SUBSET Card, NEW t \in {"write", "delete"},
           NEW card \in [Card -> State \cup {None}], Begin(w, op, cards, t, card),
           \/ op = "sync" /\ t = "write" /\ \A c \in cards : card[c] # None
           \/ op # "sync" /\ t = "delete"
    PROVE  AckInv'
<1> DEFINE k == [op |-> op, card |-> card,
                 task |-> [c \in Card |-> IF c \in cards THEN t ELSE "none"]]
<1>1. TypeOK BY DEF AckInv
<1>2. /\ call' = [call EXCEPT ![w] = k] /\ cut' = [cut EXCEPT ![w] = {}]
      /\ requests' = requests + 1 /\ requests < MaxRequests
      /\ UNCHANGED <<store, fails, crashes, acked, overtaken>>
  BY DEF Begin
<1>3. k \in Calls BY DEF Calls, Task
<1>4. Equipped(k) BY DEF Equipped
<1>5. \A c \in Card : k.task[c] \notin {"read", "landed"} OBVIOUS
<1> HIDE DEF k
<1>6. call' \in [Worker -> Calls] /\ \A v \in Worker : Equipped(call'[v])
  BY <1>1, <1>2, <1>3, <1>4, TypeParts
<1>7. /\ cut' \in [Worker -> SUBSET Card] /\ requests' \in 0..MaxRequests
      /\ \A v \in Worker \ {w} : cut'[v] = cut[v]
  BY <1>1, <1>2, SrsConstants, TypeParts
<1>8. TypeOK' BY <1>1, <1>2, <1>6, <1>7, TypeParts DEF TypeOK, Equipped, Calls
<1>9. AckedSurvives' BY <1>2 DEF AckInv, AckedSurvives
<1> QED BY <1>2, <1>5, <1>7, <1>8, <1>9, TurnStep

LEMMA BeginnersInv ==
    ASSUME AckInv, NEW w \in Worker, NEW cards \in SUBSET Card,
           \/ \E states \in [cards -> State] : Sync(w, cards, states)
           \/ DeleteCards(w, cards) \/ ClearAll(w)
    PROVE  AckInv'
<1>1. Idle.card \in [Card -> State \cup {None}] BY DEF Idle
<1>2. ASSUME NEW states \in [cards -> State], Sync(w, cards, states) PROVE AckInv'
  <2> DEFINE card == [c \in Card |-> IF c \in cards THEN states[c] ELSE None]
  <2>1. card \in [Card -> State \cup {None}] OBVIOUS
  <2>2. \A c \in cards : card[c] # None BY NoneIsNoState
  <2>3. Begin(w, "sync", cards, "write", card) BY <1>2 DEF Sync
  <2> HIDE DEF card
  <2> QED BY <2>1, <2>2, <2>3, BeginInv
<1>3. CASE DeleteCards(w, cards) BY <1>1, <1>3, BeginInv DEF DeleteCards
<1>4. CASE ClearAll(w)
  <2> DEFINE found == {c \in Card : store[c] # None}
  <2>1. Begin(w, "clear", found, "delete", Idle.card) /\ found \in SUBSET Card
    BY <1>4 DEF ClearAll
  <2> HIDE DEF found
  <2> QED BY <1>1, <2>1, BeginInv
<1> QED BY <1>2, <1>3, <1>4

LEMMA EndersInv ==
    ASSUME AckInv, NEW w \in Worker, Answer(w) \/ Crash(w)
    PROVE  AckInv'
<1>1. TypeOK BY DEF AckInv
<1>2. /\ call' = [call EXCEPT ![w] = Idle]
      /\ UNCHANGED <<store, requests, fails, cut, overtaken>>
      /\ crashes' \in 0..MaxCrash
  BY <1>1, SrsConstants, TypeParts DEF Answer, Crash, bounds, history
<1>3. /\ call' \in [Worker -> Calls] /\ \A v \in Worker : Equipped(call'[v])
      /\ \A d \in Card : Idle.task[d] = "none"
  BY <1>1, <1>2, EndFacts
<1>4. ASSUME NEW c \in Card, NEW r \in acked'[c]
      PROVE  /\ r \in Review
             /\ c \notin overtaken => Holds(store[c], r)
  <2>1. CASE r \in acked[c]
    BY <1>1, <2>1, TypeParts DEF AckInv, AckedSurvives, Holds
  <2>2. CASE r \notin acked[c]
    <3>1. /\ call[w].op = "sync" /\ On(w, c, "landed") /\ c \notin cut[w]
          /\ r = call[w].card[c].review
      BY <1>4, <2>2 DEF Answer, Crash, history
    <3>2. call[w].card[c] \in State
      BY <1>1, <3>1, TypeParts DEF On, Equipped, Calls
    <3> QED BY <3>1, <3>2 DEF AckInv, Pending, On, State
  <2> QED BY <2>1, <2>2
<1>5. acked' \in [Card -> SUBSET Review]
  <2>1. DOMAIN acked' = Card /\ acked' = [c \in Card |-> acked'[c]]
    BY <1>1, TypeParts DEF Answer, Crash, history
  <2> QED BY <1>4, <2>1
<1>6. TypeOK' BY <1>1, <1>2, <1>3, <1>5, TypeParts DEF TypeOK, Equipped, Calls
<1>7. AckedSurvives' BY <1>2, <1>4 DEF AckedSurvives, Holds
<1> QED BY <1>2, <1>3, <1>6, <1>7, TurnStep

-----------------------------------------------------------------------------
(* The invariant.                                                          *)

LEMMA AckInit == Init => AckInv
<1> SUFFICES ASSUME Init PROVE AckInv
  OBVIOUS
<1>1. TypeOK
  <2>1. call \in [Worker -> Calls] /\ \A w \in Worker : Equipped(call[w])
    BY IdleType DEF Init
  <2> QED BY <2>1, SrsConstants, TypeParts DEF Init
<1>2. \A w \in Worker, c \in Card : call[w].task[c] = "none"
  BY DEF Init, Idle
<1> QED BY <1>1, <1>2 DEF AckInv, AckedSurvives, Pending, Init

LEMMA AckNext == AckInv /\ [Next]_vars => AckInv'
<1> SUFFICES ASSUME AckInv, [Next]_vars PROVE AckInv'
  OBVIOUS
<1>1. CASE UNCHANGED vars
  BY <1>1 DEF vars, AckInv, TypeOK, AckedSurvives, Pending
<1>2. ASSUME NEW w \in Worker, NEW cards \in SUBSET Card,
             \/ \E states \in [cards -> State] : Sync(w, cards, states)
             \/ DeleteCards(w, cards)
      PROVE  AckInv'
  BY <1>2, BeginnersInv
<1>3. ASSUME NEW w \in Worker, ClearAll(w) PROVE AckInv'
  <2>1. {} \in SUBSET Card OBVIOUS
  <2> QED BY <1>3, <2>1, BeginnersInv
<1>4. ASSUME NEW w \in Worker, NEW c \in Card,
             Write(w, c) \/ Reread(w, c) \/ WriteBack(w, c) \/ Delete(w, c)
             \/ Raise(w, c)
      PROVE  AckInv'
  BY <1>4, WriteInv, RereadInv, WriteBackInv, DeleteInv, RaiseInv
<1>5. ASSUME NEW w \in Worker, Answer(w) \/ Crash(w) PROVE AckInv'
  BY <1>5, EndersInv
<1> QED BY <1>1, <1>2, <1>3, <1>4, <1>5 DEF Next

LEMMA AckInvHolds == Spec => []AckInv
BY AckInit, AckNext, PTL DEF Spec

(* The items and the tasks are well typed: a push has a state to write and *)
(* to answer with, whatever is deleted under it.                           *)
THEOREM TypeCorrect == Spec => []TypeOK
<1>1. AckInv => TypeOK BY DEF AckInv
<1> QED BY <1>1, AckInvHolds, PTL

(* What a push was told is stored (upsert_cards) stays stored, or is       *)
(* replaced by a newer review, until the card is deleted; but for an item  *)
(* that was written back for its bury date after it had changed.           *)
THEOREM AckedSurvivesHolds == Spec => []AckedSurvives
<1>1. AckInv => AckedSurvives BY DEF AckInv
<1> QED BY <1>1, AckInvHolds, PTL

-----------------------------------------------------------------------------
(* The boards: what the queries have answered, as long as nothing changed. *)

\* The positions up to one of them are as many as its number.
LEMMA UpToPosition ==
    ASSUME NEW n \in Nat, NEW K \in SUBSET (1..n),
           \A i \in K, j \in 1..n : j <= i => j \in K
    PROVE  /\ Cardinality(K) \in Nat /\ Cardinality(K) <= n
           /\ \A i \in 1..n : i \in K <=> i <= Cardinality(K)
<1>1. IsFiniteSet(1..n) /\ Cardinality(1..n) = n BY FS_Interval
<1>2. IsFiniteSet(K) /\ Cardinality(K) <= n BY <1>1, FS_Subset
<1>3. Cardinality(K) \in Nat BY <1>2, FS_CardinalityType
<1>4. ASSUME NEW i \in K PROVE i <= Cardinality(K)
  <2>1. 1..i \in SUBSET K OBVIOUS
  <2>2. Cardinality(1..i) <= Cardinality(K) BY <1>2, <2>1, FS_Subset
  <2> QED BY <2>2, FS_Interval
<1>5. ASSUME NEW i \in 1..n, i \notin K PROVE Cardinality(K) < i
  <2> DEFINE m == i - 1
  <2>1. m \in Nat /\ K \in SUBSET (1..m) BY <1>5
  <2>2. m < i OBVIOUS
  <2> HIDE DEF m
  <2>3. IsFiniteSet(1..m) /\ Cardinality(1..m) = m BY <2>1, FS_Interval
  <2>4. Cardinality(K) <= m BY ZenonT(60), <2>1, <2>3, FS_Subset
  <2> QED BY <1>3, <2>1, <2>2, <2>4
<1>6. ASSUME NEW i \in 1..n PROVE i \in K <=> i <= Cardinality(K)
  <2>1. CASE i \in K BY <1>4, <2>1
  <2>2. CASE i \notin K
    <3>1. Cardinality(K) < i BY <1>5, <2>2
    <3>2. ~(i <= Cardinality(K)) BY <1>3, <3>1
    <3> QED BY <2>2, <3>2
  <2> QED BY <2>1, <2>2
<1> QED BY <1>2, <1>3, <1>6

Arranges(s, n, S) ==
    /\ n = Cardinality(S) /\ s \in [1..n -> S]
    /\ \A i, j \in 1..n : i # j => s[i] # s[j]

Places(s, n, T) == {i \in 1..n : s[i] \in T}

\* An order of a finite set has each of its members in one place.
LEMMA EachInItsPlace ==
    ASSUME NEW S, IsFiniteSet(S), NEW n, NEW s, Arranges(s, n, S)
    PROVE  /\ n \in Nat
           /\ \A x \in S : \E i \in 1..n : s[i] = x
           /\ \A T \in SUBSET S : Cardinality(Places(s, n, T)) = Cardinality(T)
<1>a. /\ n = Cardinality(S) /\ s \in [1..n -> S]
      /\ \A i, j \in 1..n : i # j => s[i] # s[j]
  BY DEF Arranges
<1>1. n \in Nat BY <1>a, FS_CardinalityType
<1>2. IsFiniteSet(1..n) /\ Cardinality(1..n) = n BY <1>1, FS_Interval
<1>3. s \in Injection(1..n, S) BY <1>a DEF Injection, IsInjective
<1>4. s \in Surjection(1..n, S) BY <1>a, <1>2, <1>3, FS_Injection
<1>5. \A x \in S : \E i \in 1..n : s[i] = x BY <1>4 DEF Surjection
<1>6. ASSUME NEW T \in SUBSET S PROVE Cardinality(Places(s, n, T)) = Cardinality(T)
  <2> DEFINE K == {i \in 1..n : s[i] \in T}
             r == [i \in K |-> s[i]]
  <2>1. r \in Injection(K, T) BY <1>a DEF Injection, IsInjective
  <2>2. r \in Surjection(K, T) BY <1>5 DEF Surjection
  <2>3. r \in Bijection(K, T) BY <2>1, <2>2 DEF Bijection
  <2>4. IsFiniteSet(K) BY <1>2, FS_Subset
  <2>5. ExistsBijection(K, T) BY <2>3 DEF ExistsBijection
  <2> QED BY <2>4, <2>5, FS_Bijection DEF Places
<1> QED BY <1>1, <1>5, <1>6

-----------------------------------------------------------------------------

RowOf(p) == [user |-> p, xp |-> xp[p]]

\* The rows of a page: each has no more than the one before.
Falling(rows) ==
    \E n \in Nat :
        /\ DOMAIN rows = 1..n
        /\ \A i \in 1..n : rows[i].user \in Player /\ rows[i].xp \in Nat
        /\ \A i, j \in 1..n : i < j => rows[i].xp >= rows[j].xp

\* They are the first of an order of the bucket as it is.
Current(rows) ==
    \E s \in Orders(InBucket) :
        /\ DOMAIN rows \subseteq DOMAIN s
        /\ \A i \in DOMAIN rows : rows[i] = RowOf(s[i])

BoardShape ==
    board = [at |-> board.at, me |-> board.me, offset |-> board.offset, limit |-> board.limit,
             left |-> board.left, rows |-> board.rows, total |-> board.total,
             mine |-> board.mine, rank |-> board.rank, league |-> board.league,
             names |-> board.names]

BoardTypes ==
    /\ xp \in [Player -> Nat] /\ window \in [Player -> Nat] /\ users \subseteq Player
    /\ calm \in BOOLEAN
    /\ BoardShape
    /\ board.at \in {"idle", "reading", "answered"}
    /\ board.at # "idle" => /\ board.me \in Player /\ board.offset \in Nat /\ board.limit \in Nat
                            /\ board.left \subseteq {"top", "size", "entry"}
    /\ board.at = "answered" => board.left = {}

\* What has been read.
TopRead == board.at # "idle" /\ "top" \notin board.left => Falling(board.rows)

EntryRead == board.at # "idle" /\ "entry" \notin board.left => board.mine \in Nat

RankRead == board.at = "answered" => board.rank = 0 \/ board.mine > 0

\* And what of it is still so.
StillSo ==
    board.at # "idle" /\ calm =>
        /\ "top" \notin board.left => Current(board.rows)
        /\ "size" \notin board.left => board.total = Cardinality(InBucket)
        /\ "entry" \notin board.left => board.mine = xp[board.me]
        /\ board.at = "answered" /\ board.rank # 0 => board.rank = RankForXp(board.mine)
        /\ board.limit = 3 => board.league = LeagueForWeeklyXp(xp[board.me])

BoardInv == BoardTypes /\ TopRead /\ EntryRead /\ RankRead /\ StillSo

LEMMA BoardInvInit == BoardsInit => BoardInv
<1> SUFFICES ASSUME BoardsInit PROVE BoardInv OBVIOUS
<1>1. board = NoBoard /\ board.at = "idle" BY DEF BoardsInit, NoBoard
<1>2. BoardShape BY <1>1 DEF BoardShape, NoBoard
<1>3. BoardTypes BY <1>1, <1>2 DEF BoardsInit, BoardTypes
<1> QED BY <1>1, <1>3 DEF BoardInv, TopRead, EntryRead, RankRead, StillSo

LEMMA BucketFinite == IsFiniteSet(InBucket)
BY LeaderboardsConstants, FS_Subset DEF InBucket

LEMMA TopRows ==
    ASSUME BoardTypes, NEW n \in Nat, NEW rows \in TopN(n)
    PROVE  Falling(rows) /\ Current(rows)
<1> DEFINE upto(s) == SubSeq(s, 1, IF n < Len(s) THEN n ELSE Len(s))
<1>1. PICK s \in Orders(InBucket) : rows = [i \in DOMAIN upto(s) |-> [user |-> s[i], xp |-> xp[s[i]]]]
  BY DEF TopN
<1> DEFINE m == Cardinality(InBucket)
           k == IF n < m THEN n ELSE m
<1>2. m \in Nat BY BucketFinite, FS_CardinalityType
<1>3. s \in [1..m -> InBucket] /\ Descending(s) BY <1>1 DEF Orders
<1>4. DOMAIN s = 1..m /\ s \in Seq(InBucket) /\ Len(s) = m BY <1>2, <1>3
<1> HIDE DEF m
<1>5. k \in Nat /\ k <= m BY <1>2
<1>6. upto(s) = SubSeq(s, 1, k) BY <1>4
<1>7. DOMAIN SubSeq(s, 1, k) = 1..k /\ \A i \in 1..k : SubSeq(s, 1, k)[i] = s[i]
  BY <1>2, <1>4, <1>5
<1>8. DOMAIN rows = 1..k /\ \A i \in 1..k : rows[i] = RowOf(s[i])
  BY <1>1, <1>6, <1>7 DEF RowOf
<1> HIDE DEF k, upto
<1>9. 1..k \subseteq 1..m BY <1>2, <1>5
<1>13. Current(rows) BY <1>1, <1>4, <1>8, <1>9 DEF Current
<1>10. \A i \in 1..k : s[i] \in Player /\ xp[s[i]] \in Nat BY <1>2, <1>3, <1>5 DEF InBucket, BoardTypes
<1>11. \A i, j \in 1..k : i < j => xp[s[i]] >= xp[s[j]] BY <1>2, <1>4, <1>3, <1>5 DEF Descending
<1>14. \A i \in 1..k : rows[i].user = s[i] /\ rows[i].xp = xp[s[i]] BY <1>8 DEF RowOf
<1>15. \A i \in 1..k : rows[i].user \in Player /\ rows[i].xp \in Nat BY <1>10, <1>14
<1>16. \A i, j \in 1..k : i < j => rows[i].xp >= rows[j].xp BY <1>11, <1>14
<1>12. Falling(rows) BY <1>5, <1>8, <1>15, <1>16 DEF Falling
<1> QED BY <1>12, <1>13

\* A query answers, and leaves the rest as it is.
LEMMA BoardInvStep == BoardInv /\ [BoardsNext]_boardVars => BoardInv'
<1> SUFFICES ASSUME BoardInv, [BoardsNext]_boardVars PROVE BoardInv' OBVIOUS
<1>a. BoardTypes /\ BoardShape BY DEF BoardInv, BoardTypes
<1>1. ASSUME NEW p \in Player, Earn(p) PROVE BoardInv'
  <2>1. /\ xp' = xp /\ users' = users /\ board' = board /\ calm' = calm
        /\ window' = [window EXCEPT ![p] = @ + 1]
    BY <1>1 DEF Earn
  <2>2. window' \in [Player -> Nat] BY <1>a, <2>1 DEF BoardTypes
  <2>3. BoardTypes' BY <1>a, <2>1, <2>2 DEF BoardTypes, BoardShape
  <2> QED BY <2>1, <2>3 DEF BoardInv, TopRead, EntryRead, RankRead, StillSo, Falling, Current,
            Orders, Descending, InBucket, RankForXp, RowOf
<1>2. ASSUME NEW p \in Player, Publish(p) PROVE BoardInv'
  <2>1. /\ users' = users /\ board' = board /\ calm' = FALSE /\ window' = window
        /\ xp' = [xp EXCEPT ![p] = window[p]]
    BY <1>2 DEF Publish
  <2>2. xp' \in [Player -> Nat] BY <1>a, <2>1 DEF BoardTypes
  <2>3. BoardTypes' BY <1>a, <2>1, <2>2 DEF BoardTypes, BoardShape
  <2> QED BY <2>1, <2>3 DEF BoardInv, TopRead, EntryRead, RankRead, StillSo, Falling
<1>3. ASSUME NEW p \in Player, LoseUser(p) PROVE BoardInv'
  <2>1. /\ users' = users \ {p} /\ board' = board /\ calm' = FALSE /\ window' = window
        /\ xp' = xp
    BY <1>3 DEF LoseUser
  <2>2. users' \subseteq Player BY <1>a, <2>1 DEF BoardTypes
  <2>3. BoardTypes' BY <1>a, <2>1, <2>2 DEF BoardTypes, BoardShape
  <2> QED BY <2>1, <2>3 DEF BoardInv, TopRead, EntryRead, RankRead, StillSo, Falling
<1>4. ASSUME NEW me \in users, NEW limit \in Nat, NEW offset \in 0..1, limit < 3,
             GlobalBoard(me, limit, offset)
      PROVE  BoardInv'
  <2>1. /\ board' = [NoBoard EXCEPT !.at = "reading", !.me = me, !.limit = limit,
                       !.offset = offset, !.left = {"top", "size", "entry"}]
        /\ xp' = xp /\ window' = window /\ users' = users /\ calm' = TRUE
    BY <1>4 DEF GlobalBoard
  <2>2. /\ board'.at = "reading" /\ board'.me = me /\ board'.limit = limit
        /\ board'.offset = offset /\ board'.left = {"top", "size", "entry"} /\ BoardShape'
    BY <2>1 DEF NoBoard, BoardShape
  <2>3. BoardTypes' BY <1>a, <2>1, <2>2 DEF BoardTypes
  <2> QED BY <1>4, <2>1, <2>2, <2>3 DEF BoardInv, TopRead, EntryRead, RankRead, StillSo
<1>5. ASSUME NEW me \in users, LeagueSpotlight(me) PROVE BoardInv'
  <2>1. /\ board' = [NoBoard EXCEPT !.at = "reading", !.me = me, !.limit = 3,
                       !.left = {"top", "size", "entry"}, !.league = LeagueForWeeklyXp(xp[me])]
        /\ xp' = xp /\ window' = window /\ users' = users /\ calm' = TRUE
    BY <1>5 DEF LeagueSpotlight
  <2>2. /\ board'.at = "reading" /\ board'.me = me /\ board'.offset = 0
        /\ board'.left = {"top", "size", "entry"} /\ BoardShape'
        /\ board'.league = LeagueForWeeklyXp(xp[me])
    BY <2>1 DEF NoBoard, BoardShape
  <2>3. BoardTypes' BY <1>a, <2>1, <2>2 DEF BoardTypes
  <2>4. LeagueForWeeklyXp(xp'[board'.me]) = board'.league BY <2>1, <2>2
  <2> QED BY <2>1, <2>2, <2>3, <2>4 DEF BoardInv, TopRead, EntryRead, RankRead, StillSo
<1>6. CASE ReadTop
  <2>1. /\ board.at = "reading" /\ "top" \in board.left
        /\ xp' = xp /\ window' = window /\ users' = users /\ calm' = calm
    BY <1>6 DEF ReadTop, Reads, Read
  <2>2. board.offset + board.limit \in Nat BY <1>a, <2>1 DEF BoardTypes
  <2>3. PICK rows \in TopN(board.offset + board.limit) :
           board' = [[board EXCEPT !.rows = rows] EXCEPT !.left = @ \ {"top"}]
    BY <1>6 DEF ReadTop, Read
  <2>4. /\ board'.at = board.at /\ board'.me = board.me /\ board'.offset = board.offset
        /\ board'.limit = board.limit /\ board'.left = board.left \ {"top"}
        /\ board'.rows = rows /\ board'.total = board.total /\ board'.mine = board.mine
        /\ board'.rank = board.rank /\ board'.league = board.league /\ BoardShape'
    BY <1>a, <2>3 DEF BoardShape
  <2>5. Falling(rows) /\ Current(rows) BY <1>a, <2>2, TopRows
  <2>6. Current(rows)' BY <2>1, <2>5 DEF Current, Orders, Descending, InBucket, RowOf
  <2>7. BoardTypes' BY <1>a, <2>1, <2>4 DEF BoardTypes
  <2>8. TopRead' /\ EntryRead' /\ RankRead'
    BY <2>1, <2>4, <2>5 DEF BoardInv, TopRead, EntryRead, RankRead
  <2>9. StillSo' BY <2>1, <2>4, <2>6 DEF BoardInv, StillSo, InBucket
  <2> QED BY <2>7, <2>8, <2>9 DEF BoardInv
<1>7. CASE ReadSize
  <2>1. /\ board.at = "reading" /\ "size" \in board.left
        /\ xp' = xp /\ window' = window /\ users' = users /\ calm' = calm
        /\ board' = [[board EXCEPT !.total = Cardinality(InBucket)] EXCEPT !.left = @ \ {"size"}]
    BY <1>7 DEF ReadSize, Reads, Read
  <2>2. /\ board'.at = board.at /\ board'.me = board.me /\ board'.offset = board.offset
        /\ board'.limit = board.limit /\ board'.left = board.left \ {"size"}
        /\ board'.rows = board.rows /\ board'.total = Cardinality(InBucket)
        /\ board'.mine = board.mine
        /\ board'.rank = board.rank /\ board'.league = board.league /\ BoardShape'
    BY <1>a, <2>1 DEF BoardShape
  <2>3. BoardTypes' BY <1>a, <2>1, <2>2 DEF BoardTypes
  <2>4. TopRead' /\ EntryRead' /\ RankRead'
    BY <2>1, <2>2 DEF BoardInv, TopRead, EntryRead, RankRead
  <2>5. \A rows : Current(rows) => Current(rows)'
    BY <2>1 DEF Current, Orders, Descending, InBucket, RowOf
  <2>6. StillSo' BY <2>1, <2>2, <2>5 DEF BoardInv, StillSo, InBucket
  <2> QED BY <2>3, <2>4, <2>6 DEF BoardInv
<1>8. CASE ReadEntry
  <2>1. /\ board.at = "reading" /\ "entry" \in board.left
        /\ xp' = xp /\ window' = window /\ users' = users /\ calm' = calm
        /\ board' = [[board EXCEPT !.mine = xp[board.me]] EXCEPT !.left = @ \ {"entry"}]
    BY <1>8 DEF ReadEntry, Reads, Read
  <2>2. /\ board'.at = board.at /\ board'.me = board.me /\ board'.offset = board.offset
        /\ board'.limit = board.limit /\ board'.left = board.left \ {"entry"}
        /\ board'.rows = board.rows /\ board'.total = board.total
        /\ board'.mine = xp[board.me]
        /\ board'.rank = board.rank /\ board'.league = board.league /\ BoardShape'
    BY <1>a, <2>1 DEF BoardShape
  <2>3. BoardTypes' BY <1>a, <2>1, <2>2 DEF BoardTypes
  <2>4. xp[board.me] \in Nat BY <1>a, <2>1 DEF BoardTypes
  <2>5. TopRead' /\ EntryRead' /\ RankRead'
    BY <2>1, <2>2, <2>4 DEF BoardInv, TopRead, EntryRead, RankRead
  <2>6. \A rows : Current(rows) => Current(rows)'
    BY <2>1 DEF Current, Orders, Descending, InBucket, RowOf
  <2>7. StillSo' BY <2>1, <2>2, <2>6 DEF BoardInv, StillSo, InBucket
  <2> QED BY <2>3, <2>5, <2>7 DEF BoardInv
<1>9. CASE ReadRank
  <2>1. /\ board.at = "reading" /\ board.left = {}
        /\ xp' = xp /\ window' = window /\ users' = users /\ calm' = calm
        /\ board' = [board EXCEPT !.at = "answered", !.names = users,
                       !.rank = IF board.mine > 0 THEN RankForXp(board.mine) ELSE 0]
    BY <1>9 DEF ReadRank
  <2>2. /\ board'.at = "answered" /\ board'.me = board.me /\ board'.offset = board.offset
        /\ board'.limit = board.limit /\ board'.left = {}
        /\ board'.rows = board.rows /\ board'.total = board.total
        /\ board'.mine = board.mine
        /\ board'.rank = (IF board.mine > 0 THEN RankForXp(board.mine) ELSE 0)
        /\ board'.league = board.league /\ BoardShape'
    BY <1>a, <2>1 DEF BoardShape
  <2>3. BoardTypes' BY <1>a, <2>1, <2>2 DEF BoardTypes
  <2>4. TopRead' /\ EntryRead' /\ RankRead'
    BY <2>1, <2>2 DEF BoardInv, TopRead, EntryRead, RankRead
  <2>5. \A rows : Current(rows) => Current(rows)'
    BY <2>1 DEF Current, Orders, Descending, InBucket, RowOf
  <2>6. \A x : RankForXp(x)' = RankForXp(x) BY <2>1 DEF RankForXp, InBucket
  <2>7. StillSo' BY <2>1, <2>2, <2>5, <2>6 DEF BoardInv, StillSo, InBucket
  <2> QED BY <2>3, <2>4, <2>7 DEF BoardInv
<1>10. CASE UNCHANGED boardVars
  <2>1. xp' = xp /\ window' = window /\ users' = users /\ calm' = calm /\ board' = board
    BY <1>10 DEF boardVars
  <2>2. BoardTypes' BY <1>a, <2>1 DEF BoardTypes, BoardShape
  <2>3. TopRead' /\ EntryRead' /\ RankRead'
    BY <2>1 DEF BoardInv, TopRead, EntryRead, RankRead, Falling
  <2>4. \A rows : Current(rows) => Current(rows)'
    BY <2>1 DEF Current, Orders, Descending, InBucket, RowOf
  <2>5. \A x : RankForXp(x)' = RankForXp(x) BY <2>1 DEF RankForXp, InBucket
  <2>6. StillSo' BY <2>1, <2>4, <2>5 DEF BoardInv, StillSo, InBucket
  <2> QED BY <2>2, <2>3, <2>6 DEF BoardInv
<1> QED
  <2>1. CASE \E me \in users, offset \in 0..1 : GlobalBoard(me, 2 - offset, offset)
    <3>1. PICK me \in users, offset \in 0..1 : GlobalBoard(me, 2 - offset, offset) BY <2>1
    <3>2. 2 - offset \in Nat /\ 2 - offset < 3 OBVIOUS
    <3> QED BY <1>4, <3>1, <3>2
  <2> QED BY <1>1, <1>2, <1>3, <1>5, <1>6, <1>7, <1>8, <1>9, <1>10, <2>1 DEF BoardsNext

-----------------------------------------------------------------------------
(* Ranks.                                                                  *)

\* Who has more comes first, and of those with the same XP one comes first.
LEMMA FriendsRanked ==
    ASSUME BoardTypes, NEW cohort \in SUBSET Player
    PROVE  Among(FriendsBoard(cohort))
<1> DEFINE S == cohort \cap users
           ahead(p) == {q \in S : Before(q, p)}
<1>1. IsFiniteSet(S) BY LeaderboardsConstants, FS_Subset
<1>2. \A p \in S : p \in Nat /\ window[p] \in Nat BY LeaderboardsConstants DEF BoardTypes
<1>3. \A p \in S : IsFiniteSet(ahead(p)) /\ Cardinality(ahead(p)) \in Nat
  BY <1>1, FS_Subset, FS_CardinalityType
<1>4. ASSUME NEW p \in S, NEW q \in S, Before(p, q)
      PROVE  Cardinality(ahead(p)) < Cardinality(ahead(q))
  <2>1. ahead(p) \in SUBSET ahead(q)
    <3>1. ASSUME NEW r \in S, Before(r, p) PROVE Before(r, q)
      BY <1>2, <1>4, <3>1 DEF Before
    <3> QED BY <3>1
  <2>2. p \in ahead(q) /\ p \notin ahead(p) BY <1>2, <1>4 DEF Before
  <2>3. Cardinality(ahead(p)) <= Cardinality(ahead(q)) /\ Cardinality(ahead(p)) # Cardinality(ahead(q))
    BY <1>3, <2>1, <2>2, FS_Subset
  <2> QED BY <1>3, <2>3
<1>5. \A p, q \in S : p = q \/ Before(p, q) \/ Before(q, p) BY <1>2 DEF Before
<1>6. \A p, q \in S : Before(p, q) => window[p] >= window[q] BY <1>2 DEF Before
<1>7. ASSUME NEW e \in FriendsBoard(cohort)
      PROVE  /\ e.user \in S /\ e.xp = window[e.user] /\ e.rank = 1 + Cardinality(ahead(e.user))
             /\ e = [user |-> e.user, xp |-> e.xp, rank |-> e.rank]
  <2>1. PICK p \in S : e = [user |-> p, xp |-> window[p], rank |-> 1 + Cardinality(ahead(p))]
    BY DEF FriendsBoard
  <2> HIDE DEF S, ahead
  <2> QED BY <2>1
<1> HIDE DEF S, ahead
<1>8. ASSUME NEW e \in FriendsBoard(cohort), NEW f \in FriendsBoard(cohort)
      PROVE  (e.rank < f.rank => e.xp >= f.xp) /\ (e.rank = f.rank => e = f)
  <2> DEFINE p == e.user
             q == f.user
             i == Cardinality(ahead(p))
             j == Cardinality(ahead(q))
  <2>1. p \in S /\ q \in S /\ i \in Nat /\ j \in Nat /\ e.rank = 1 + i /\ f.rank = 1 + j
    BY <1>3, <1>7
  <2>2. CASE p = q BY <1>7, <2>1, <2>2
  <2>3. CASE Before(p, q)
    <3>1. i < j /\ window[p] >= window[q] BY <1>4, <1>6, <2>1, <2>3
    <3> QED BY <1>7, <2>1, <3>1
  <2>4. CASE Before(q, p)
    <3>1. j < i BY <1>4, <2>1, <2>4
    <3> QED BY <2>1, <3>1
  <2> QED BY <1>5, <2>1, <2>2, <2>3, <2>4
<1> QED BY <1>8 DEF Among

\* The league of an amount of XP is between its thresholds.
LEMMA LeagueOfXp ==
    ASSUME NEW x \in Nat
    PROVE  LET league == LeagueForWeeklyXp(x)
           IN  x >= league.demotion /\ (league.promotion > 0 => x < league.promotion)
<1> DEFINE m == Len(Threshold)
           K == {i \in DOMAIN Threshold : Threshold[i] <= x}
           n == Cardinality(K)
<1>1. m \in Nat /\ DOMAIN Threshold = 1..m /\ \A i \in 1..m : Threshold[i] \in Nat
  BY LeaderboardsConstants
<1>2. K \in SUBSET (1..m) BY <1>1
<1>3. ASSUME NEW i \in K, NEW j \in 1..m, j <= i PROVE j \in K
  <2>1. i \in 1..m /\ Threshold[i] <= x BY <1>1
  <2>2. CASE j = i BY <2>2
  <2>3. CASE j < i
    <3>1. Threshold[j] < Threshold[i] BY <1>1, <2>1, <2>3, LeaderboardsConstants
    <3>2. Threshold[j] <= x BY <1>1, <2>1, <3>1
    <3> QED BY <1>1, <3>2
  <2> QED BY <1>1, <1>3, <2>1, <2>2, <2>3
<1>4. \A i \in K : \A j \in 1..m : j <= i => j \in K BY <1>3
<1> HIDE DEF m
<1>5. n \in Nat /\ n <= m /\ \A i \in 1..m : i \in K <=> i <= n
  BY <1>1, <1>2, <1>4, UpToPosition
<1>6. n > 0 => Threshold[n] <= x BY <1>1, <1>5
<1>7. n < m => ~(Threshold[n + 1] <= x) BY <1>1, <1>5
<1>8. n < m => x < Threshold[n + 1] BY <1>1, <1>5, <1>7
<1> HIDE DEF n, K
<1>9. LeagueForWeeklyXp(x) = [league |-> n + 1, promotion |-> IF n < m THEN Threshold[n + 1] ELSE 0,
                              demotion |-> IF n > 0 THEN Threshold[n] ELSE 0]
  BY DEF LeagueForWeeklyXp, n, K, m
<1> QED BY <1>5, <1>6, <1>8, <1>9

\* In an order of the bucket, those with more than x come first: as many as the rank
\* for x says.
LEMMA RankedBefore ==
    ASSUME BoardTypes, NEW s \in Orders(InBucket), NEW x \in Nat, NEW i \in DOMAIN s
    PROVE  /\ DOMAIN s = 1..Cardinality(InBucket) /\ Cardinality(InBucket) \in Nat
           /\ s[i] \in InBucket /\ xp[s[i]] \in Nat
           /\ RankForXp(x) \in Nat
           /\ i < RankForXp(x) <=> xp[s[i]] > x
           /\ xp[s[i]] < x /\ (\E p \in InBucket : xp[p] = x) => i > RankForXp(x)
<1> DEFINE n == Cardinality(InBucket)
           More == {p \in InBucket : xp[p] > x}
           Least == {p \in InBucket : xp[p] >= x}
           K == Places(s, n, More)
           L == Places(s, n, Least)
<1>1. s \in [1..n -> InBucket] /\ (\A j, k \in 1..n : j # k => s[j] # s[k])
  BY DEF Orders
<1>2. /\ n \in Nat
      /\ \A T \in SUBSET InBucket : Cardinality(Places(s, n, T)) = Cardinality(T)
  <2>1. Arranges(s, n, InBucket) BY <1>1 DEF Arranges
  <2> HIDE DEF n
  <2> QED BY <2>1, BucketFinite, EachInItsPlace
<1>3. Cardinality(K) = Cardinality(More) /\ Cardinality(L) = Cardinality(Least) BY <1>2
<1>4. \A j \in 1..n : s[j] \in InBucket /\ xp[s[j]] \in Nat BY <1>1 DEF InBucket, BoardTypes
<1>5. \A j, k \in 1..n : j < k => xp[s[j]] >= xp[s[k]] BY <1>1 DEF Orders, Descending
<1>6. K \in SUBSET (1..n) /\ \A k \in K, j \in 1..n : j <= k => j \in K
  BY <1>2, <1>4, <1>5 DEF Places
<1>7. L \in SUBSET (1..n) /\ \A k \in L, j \in 1..n : j <= k => j \in L
  BY <1>2, <1>4, <1>5 DEF Places
<1>8. i \in 1..n BY <1>1
<1>9. Cardinality(K) \in Nat /\ (i \in K <=> i <= Cardinality(K)) BY <1>2, <1>6, <1>8, UpToPosition
<1>10. Cardinality(L) \in Nat /\ (i \in L <=> i <= Cardinality(L)) BY <1>2, <1>7, <1>8, UpToPosition
<1>11. RankForXp(x) = 1 + Cardinality(K) BY <1>3 DEF RankForXp
<1>12. i \in K <=> xp[s[i]] > x BY <1>4, <1>8 DEF Places
<1>13. i \in L <=> xp[s[i]] >= x BY <1>4, <1>8 DEF Places
<1>14. ASSUME NEW p \in InBucket, xp[p] = x PROVE Cardinality(More) < Cardinality(Least)
  <2>1. \A q \in InBucket : xp[q] \in Nat BY DEF InBucket, BoardTypes
  <2>2. More \in SUBSET Least /\ p \in Least /\ p \notin More BY <1>14, <2>1
  <2>3. IsFiniteSet(Least) BY BucketFinite, FS_Subset
  <2>4. Cardinality(More) <= Cardinality(Least) /\ Cardinality(More) # Cardinality(Least)
    BY <2>2, <2>3, FS_Subset
  <2> QED BY <1>3, <1>9, <1>10, <2>4
<1>15. RankForXp(x) \in Nat BY <1>9, <1>11
<1>16. i < RankForXp(x) <=> i <= Cardinality(K) BY <1>8, <1>9, <1>11
<1>17. i < RankForXp(x) <=> xp[s[i]] > x BY <1>9, <1>12, <1>16
<1>18. ASSUME xp[s[i]] < x, NEW p \in InBucket, xp[p] = x PROVE i > RankForXp(x)
  <2>1. i \notin L BY <1>4, <1>8, <1>13, <1>18
  <2>2. ~(i <= Cardinality(L)) BY <1>10, <2>1
  <2>3. Cardinality(K) < Cardinality(L) BY <1>3, <1>14, <1>18
  <2> QED BY <1>8, <1>9, <1>10, <1>11, <2>2, <2>3
<1> QED BY <1>1, <1>2, <1>4, <1>8, <1>15, <1>17, <1>18

LEMMA BoardInvImplies == BoardInv => BoardAgrees
<1> SUFFICES ASSUME BoardInv PROVE BoardAgrees OBVIOUS
<1>1. BoardTypes BY DEF BoardInv
<1>2. \A cohort \in SUBSET Player : Among(FriendsBoard(cohort)) BY <1>1, FriendsRanked
<1>3. SUFFICES ASSUME board.at = "answered"
               PROVE  LET entries == Entries
                          mine == {e \in entries : e.user = board.me}
                      IN  /\ Among(entries)
                          /\ calm =>
                                /\ \A e \in entries : e.rank <= board.total
                                /\ board.rank > 0 => \A e \in entries :
                                      /\ e.rank < board.rank <=> e.xp > board.mine
                                      /\ e.xp < board.mine => e.rank > board.rank
                                /\ \A e \in mine : board.limit = 3 =>
                                      LET league == board.league
                                      IN  /\ e.xp >= league.demotion
                                          /\ league.promotion > 0 => e.xp < league.promotion
  BY <1>2 DEF BoardAgrees
<1>4. board.left = {} /\ Falling(board.rows) /\ board.mine \in Nat /\ board.me \in Player
  BY <1>1, <1>3 DEF BoardInv, BoardTypes, TopRead, EntryRead
<1>5. \A e \in Entries :
         /\ e.rank \in DOMAIN board.rows
         /\ e = [user |-> board.rows[e.rank].user, xp |-> board.rows[e.rank].xp, rank |-> e.rank]
         /\ e.user = board.rows[e.rank].user /\ e.xp = board.rows[e.rank].xp
  BY DEF Entries
<1>6. Among(Entries) BY <1>4, <1>5 DEF Among, Falling
<1>7. ASSUME calm, NEW e \in Entries
      PROVE  /\ e.rank <= board.total
             /\ board.rank > 0 => /\ e.rank < board.rank <=> e.xp > board.mine
                                  /\ e.xp < board.mine => e.rank > board.rank
             /\ e.user = board.me /\ board.limit = 3 =>
                   /\ e.xp >= board.league.demotion
                   /\ board.league.promotion > 0 => e.xp < board.league.promotion
  <2>1. /\ Current(board.rows) /\ board.total = Cardinality(InBucket)
        /\ board.mine = xp[board.me]
        /\ board.rank # 0 => board.rank = RankForXp(board.mine)
        /\ board.limit = 3 => board.league = LeagueForWeeklyXp(xp[board.me])
    BY <1>3, <1>4, <1>7 DEF BoardInv, StillSo
  <2>2. PICK s \in Orders(InBucket) : /\ DOMAIN board.rows \subseteq DOMAIN s
                                      /\ \A i \in DOMAIN board.rows : board.rows[i] = RowOf(s[i])
    BY <2>1 DEF Current
  <2> DEFINE i == e.rank
  <2>9. i \in DOMAIN board.rows BY <1>5
  <2>10. board.rows[i] = [user |-> s[i], xp |-> xp[s[i]]] BY <2>2, <2>9 DEF RowOf
  <2>11. e.user = board.rows[i].user /\ e.xp = board.rows[i].xp BY <1>5
  <2>3. i \in DOMAIN s /\ e.user = s[i] /\ e.xp = xp[s[i]] BY <2>2, <2>9, <2>10, <2>11
  <2>4. /\ DOMAIN s = 1..Cardinality(InBucket) /\ Cardinality(InBucket) \in Nat
        /\ RankForXp(board.mine) \in Nat /\ xp[s[i]] \in Nat
        /\ i < RankForXp(board.mine) <=> xp[s[i]] > board.mine
        /\ xp[s[i]] < board.mine /\ (\E p \in InBucket : xp[p] = board.mine) => i > RankForXp(board.mine)
    BY <1>1, <1>4, <2>3, RankedBefore
  <2>5. board.rank > 0 => board.mine > 0 /\ board.me \in InBucket
    BY <1>3, <1>4, <2>1 DEF BoardInv, RankRead, InBucket
  <2>6. i <= board.total BY <2>1, <2>3, <2>4
  <2>7. board.rank > 0 => /\ i < board.rank <=> e.xp > board.mine
                          /\ e.xp < board.mine => i > board.rank
    BY <2>1, <2>3, <2>4, <2>5
  <2>8. e.user = board.me /\ board.limit = 3 =>
           /\ e.xp >= board.league.demotion
           /\ board.league.promotion > 0 => e.xp < board.league.promotion
    BY <1>4, <2>1, <2>3, <2>4, LeagueOfXp
  <2> QED BY <2>6, <2>7, <2>8
<1> QED BY <1>6, <1>7

\* The parts of a board agree for any number of players and leagues: whatever changes
\* while the queries run, the page is in order, and as long as nothing did, the
\* caller's rank, the ranks on the page and the league are those of one moment
\* (_build_global_leaderboard, rank_for_xp).
THEOREM BoardsAgree == BoardsSpec => []BoardAgrees
<1>1. BoardInv /\ [BoardsNext]_boardVars => BoardInv' BY BoardInvStep
<1> QED BY <1>1, BoardInvInit, BoardInvImplies, PTL DEF BoardsSpec
=============================================================================
