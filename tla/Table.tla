------------------------------- MODULE Table -------------------------------
(***************************************************************************)
(* What the services that keep small items in DynamoDB have in common: a   *)
(* table of items, and workers that serve one request each, one call to    *)
(* the table at a time.  A call is atomic, a request is not: between two   *)
(* of its calls other requests run, or its worker dies.                    *)
(***************************************************************************)
EXTENDS Naturals, Sequences, FiniteSets

CONSTANTS
    Worker,       \* the processes that serve requests
    MaxRequests,  \* how many requests are served
    MaxCrash      \* how many requests end in the middle

ASSUME TableConstants == MaxRequests \in Nat /\ MaxCrash \in Nat

VARIABLES
    items,     \* the items, by key
    call,      \* what each worker is doing
    requests,  \* how many requests were begun
    crashes,   \* how many requests ended in the middle
    shared,    \* history: the subjects of which two requests were served at once
    torn       \* history: the subjects of a request that ended in the middle

tableVars == <<items, call, requests, crashes, shared, torn>>

Has(key) == key \in DOMAIN items

-----------------------------------------------------------------------------
(* Writes.                                                                 *)

Put(key, val) == [do |-> "put", key |-> key, val |-> val]
PutNew(key, val) == [do |-> "putNew", key |-> key, val |-> val]
Delete(key) == [do |-> "delete", key |-> key, val |-> TRUE]

\* update_item: SET some attributes, ADD to others.  UpdateOld is conditional on
\* attribute_exists.
Update(key, set, add) ==
    [do |-> "update", key |-> key, val |-> [set |-> set, add |-> add]]
UpdateOld(key, set, add) == [Update(key, set, add) EXCEPT !.do = "updateOld"]

\* Writes without an order, as a plan.
Batch(writes) == IF writes = {} THEN <<>> ELSE <<writes>>

\* An item after an update: one that was not there has the attributes the
\* update gave it and no others.
Updated(old, change) ==
    [a \in DOMAIN old \cup DOMAIN change.set \cup DOMAIN change.add |->
        CASE a \in DOMAIN change.set -> change.set[a]
          [] a \in DOMAIN change.add ->
                change.add[a] + (IF a \in DOMAIN old THEN old[a] ELSE 0)
          [] OTHER -> old[a]]

\* A table of items after a write.
AfterIn(table, x) ==
    LET there == x.key \in DOMAIN table
        with(val) == [k \in DOMAIN table \cup {x.key} |->
                        IF k = x.key THEN val ELSE table[k]]
        update == with(Updated(IF there THEN table[x.key] ELSE <<>>, x.val))
    IN  CASE x.do = "put" -> with(x.val)
          [] x.do = "putNew" -> IF there THEN table ELSE with(x.val)
          [] x.do = "delete" -> [k \in DOMAIN table \ {x.key} |-> table[k]]
          [] x.do = "update" -> update
          [] x.do = "updateOld" -> IF there THEN update ELSE table

After(x) == AfterIn(items, x)

\* A table after writes of different items, which have no order.
AfterSet(table, writes) ==
    LET keys == {x.key : x \in writes}
        after(k) == AfterIn(table, CHOOSE x \in writes : x.key = k)
    IN  [k \in (DOMAIN table \ keys) \cup {k \in keys : k \in DOMAIN after(k)} |->
            IF k \in keys THEN after(k)[k] ELSE table[k]]

\* A table after a whole plan.
AfterPlan(table, todo) ==
    LET after[n \in 0..Len(todo)] ==
            IF n = 0 THEN table ELSE AfterSet(after[n - 1], todo[n])
    IN  after[Len(todo)]

AfterAll(todo) == AfterPlan(items, todo)

-----------------------------------------------------------------------------
(* Requests.  A worker first makes the writes it has planned: todo is a    *)
(* sequence of sets, and the writes of a set have no order (a batch, or    *)
(* calls that run side by side).  Then it goes on at at.                   *)

Idle == [op |-> "idle", at |-> "done", id |-> 0, on |-> {}, arg |-> <<>>,
         todo |-> <<>>]

Busy(w) == call[w].op # "idle"

\* Nobody is in a request about the subject.
AtRest(subject) == \A w \in Worker : subject \notin call[w].on

\* Requests about the subject came one at a time, and each was finished.
Orderly(subject) == subject \notin shared /\ subject \notin torn

TableInit(initial) ==
    /\ items = initial
    /\ call = [w \in Worker |-> Idle]
    /\ requests = 0 /\ crashes = 0
    /\ shared = {} /\ torn = {}

\* The id is the number of the request: it stands for a fresh uuid.
Begin(w, op, on, arg, at) ==
    /\ ~Busy(w)
    /\ requests < MaxRequests
    /\ requests' = requests + 1
    /\ call' = [call EXCEPT ![w] = [op |-> op, at |-> at, id |-> requests + 1,
                                    on |-> on, arg |-> arg, todo |-> <<>>]]
    /\ shared' = shared \cup
          {s \in on : \E v \in Worker \ {w} : s \in call[v].on}
    /\ UNCHANGED <<items, crashes, torn>>

At(w, op, at) ==
    /\ call[w].op = op
    /\ call[w].at = at
    /\ call[w].todo = <<>>

\* The request goes on with some writes and then at at.
Proceed(w, todo, at) ==
    /\ call' = [call EXCEPT ![w] =
          IF todo = <<>> /\ at = "done" THEN Idle
          ELSE [@ EXCEPT !.todo = todo, !.at = at]]
    /\ UNCHANGED <<items, requests, crashes, shared, torn>>

Goto(w, at) == Proceed(w, <<>>, at)
Plan(w, todo) == Proceed(w, todo, "done")
Answer(w) == Proceed(w, <<>>, "done")

\* The request keeps what it has read and goes on.
Keep(w, x, at) ==
    /\ call' = [call EXCEPT ![w].arg = Append(@, x), ![w].at = at]
    /\ UNCHANGED <<items, requests, crashes, shared, torn>>

\* One planned write.
Write(w) ==
    /\ call[w].todo # <<>>
    /\ \E x \in Head(call[w].todo) :
          LET left == Head(call[w].todo) \ {x}
              todo == IF left = {} THEN Tail(call[w].todo)
                      ELSE <<left>> \o Tail(call[w].todo)
          IN  /\ items' = After(x)
              /\ call' = [call EXCEPT ![w] =
                    IF todo = <<>> /\ @.at = "done" THEN Idle
                    ELSE [@ EXCEPT !.todo = todo]]
    /\ UNCHANGED <<requests, crashes, shared, torn>>

\* A call raises, or the worker dies: the writes made so far stay.
Crash(w) ==
    /\ Busy(w)
    /\ crashes < MaxCrash
    /\ crashes' = crashes + 1
    /\ torn' = torn \cup call[w].on
    /\ call' = [call EXCEPT ![w] = Idle]
    /\ UNCHANGED <<items, requests, shared>>
=============================================================================
