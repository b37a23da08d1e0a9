------------------------------ MODULE Listings ------------------------------
(***************************************************************************)
(* The lists that are answered a page at a time: the attempts of a user,   *)
(* the users, and the audit log, from both pairs of repositories.  A       *)
(* client asks for a page, then for the next with the cursor it was given, *)
(* until there is none.  In between the rows change.                       *)
(***************************************************************************)
EXTENDS Naturals, FiniteSets

LOCAL INSTANCE FiniteSetsExt

CONSTANTS
    MaxRows,     \* how many attempts, users or audit entries there can be
    Group,       \* what a list is filtered by: a lesson, a status, a kind
    LastMoment,  \* rows are sorted by a moment in 1..LastMoment, newest first
    MaxLimit,    \* how many rows a page may have
    Overfetch,   \* a scan reads Overfetch * (limit + 1) items for a page
    MaxChanges   \* how often the rows change during a walk

ASSUME ListingsConstants ==
    {MaxRows, LastMoment, MaxLimit, Overfetch, MaxChanges} \subseteq Nat

VARIABLES
    stock,   \* the rows there are: the moment and the group of each
    walk,    \* a client's way through a list
    kept,    \* history: the rows that were there all the way, alone at their moment
    added,   \* history: the rows that came on the way
    removed, \* history: the rows that went on the way
    moved    \* history: the rows that got another moment on the way

changed == <<kept, added, removed, moved>>
listingVars == <<stock, walk, changed>>

\* Their ids mean nothing, so they are numbered as they come.
Row == 1..MaxRows

\* The lists, by what they are of and how they are read.
Attempts == {"attempts: SQL", "attempts: index", "attempts: lesson"}
Users == {"users: SQL", "users: scan"}
Audit == {"audit: SQL", "audit: index", "audit: filter"}
ByOffset == {"users: SQL", "audit: SQL"}

Start == 0
Anything == "anything"

-----------------------------------------------------------------------------

Matching(of) == {r \in DOMAIN stock : of \in {Anything, stock[r].of}}

\* put_attempt writes the user and the moment in both of its rows, so the index
\* has both; of the other lists a row is one entry.
Copies == IF walk.list = "attempts: index" THEN {1, 2} ELSE {1}

Entries(of) == {[row |-> r, at |-> stock[r].at, copy |-> c] : r \in Matching(of), c \in Copies}

OlderThan(cursor, S) == {e \in S : cursor = Start \/ e.at < cursor}

\* The first n of S, newest first: those of one moment are in any order.
FirstOf(S, n) ==
    {P \in SUBSET S : /\ Cardinality(P) = (IF Cardinality(S) < n THEN Cardinality(S) ELSE n)
                      /\ \A p \in P, e \in S \ P : p.at >= e.at}

Oldest(P) == Min({e.at : e \in P})

Show(P) ==
    [r \in Row |-> walk.seen[r] + Cardinality({e \in P : e.row = r})]

Page(P, cursor, more) ==
    /\ walk' = [walk EXCEPT !.seen = Show(P), !.cursor = cursor,
                            !.at = IF more THEN "walking" ELSE "ended"]
    /\ UNCHANGED <<stock, changed>>

Walking(lists) == walk.at = "walking" /\ walk.list \in lists

\* Mutant: the cursor is the row after the page.
AttemptsFromNext(S) ==
    \E P \in FirstOf(S, walk.limit) :
        LET left == S \ P
        IN  Page(P, IF left = {} THEN Start ELSE Max({e.at : e \in left}), left # {})

\* rows[:limit], and the moment of the last of them, if there are more.
AttemptsFrom(S) ==
    \E P \in FirstOf(S, walk.limit) :
        LET more == Cardinality(S) > walk.limit
        IN  Page(P, IF more THEN Oldest(P) ELSE Start, more)

ListAttempts ==
    /\ Walking(Attempts \ {"attempts: lesson"})
    /\ AttemptsFrom(OlderThan(walk.cursor, Entries(walk.of)))

\* The pages of the query are put together.  With a cursor, a second page of the
\* query cannot be asked for: ExclusiveStartKey is given twice.
ListLessonAttempts ==
    /\ Walking({"attempts: lesson"})
    /\ LET S == OlderThan(walk.cursor, Entries(walk.of))
       IN  IF walk.cursor # Start /\ Cardinality(S) > walk.limit
           THEN /\ walk' = [walk EXCEPT !.at = "raised"]
                /\ UNCHANGED <<stock, changed>>
           ELSE AttemptsFrom(S)

\* LIMIT and OFFSET: the cursor counts rows.
ListByOffset ==
    /\ Walking(ByOffset)
    /\ LET S == Entries(walk.of)
           next == walk.cursor + walk.limit
       IN  \E before \in FirstOf(S, walk.cursor) : \E P \in FirstOf(S \ before, walk.limit) :
              Page(P, next, Cardinality(S) > next)

\* The store stops at the limit, before it filters, and says where.
ListAudit ==
    /\ Walking({"audit: index", "audit: filter"})
    /\ LET S == OlderThan(walk.cursor,
                          Entries(IF walk.list = "audit: index" THEN walk.of ELSE Anything))
       IN  \E P \in FirstOf(S, walk.limit) :
              LET more == Cardinality(S) >= walk.limit
              IN  Page({e \in P : e.row \in Matching(walk.of)},
                       IF more THEN Oldest(P) ELSE Start, more)

\* A scan goes on from where it stopped, in an order of its own; of what it has
\* read only the first of the sorted rows are answered.
ListScanned ==
    /\ Walking({"users: scan"})
    /\ \E C \in SUBSET (DOMAIN stock \ walk.scanned) :
          /\ Cardinality(C) <= Overfetch * (walk.limit + 1)
          /\ \E P \in FirstOf({e \in Entries(walk.of) : e.row \in C}, walk.limit),
                more \in BOOLEAN :
                /\ more \/ DOMAIN stock \ added \subseteq walk.scanned \cup C
                /\ more => Cardinality(C) = Overfetch * (walk.limit + 1)
                /\ walk' = [walk EXCEPT !.seen = Show(P), !.scanned = @ \cup C,
                                        !.at = IF more THEN "walking" ELSE "ended"]
    /\ UNCHANGED <<stock, changed>>

-----------------------------------------------------------------------------
(* Changes.                                                                *)

\* ATTEMPT#<lesson>#<moment> is the key of an attempt, and the log has the moments
\* of one clock.
MayStand(list, rows) ==
    \A r, s \in DOMAIN rows : r # s /\ rows[r].at = rows[s].at =>
        /\ list \in {"attempts: index", "attempts: lesson"} => rows[r].of # rows[s].of
        /\ list \notin Audit

\* An attempt is of any moment, as clients send them late; the other rows are new.
AddRow(r, at, of) ==
    /\ r = 1 + Cardinality(DOMAIN stock \cup removed)
    /\ walk.list \in Attempts \/ \A s \in DOMAIN stock : stock[s].at < at
    /\ stock' = [s \in DOMAIN stock \cup {r} |-> IF s = r THEN [at |-> at, of |-> of] ELSE stock[s]]
    /\ MayStand(walk.list, stock')
    /\ added' = added \cup {r} /\ UNCHANGED <<removed, moved>>

DeleteRow(r) ==
    /\ walk.list \in Users
    /\ stock' = [s \in DOMAIN stock \ {r} |-> stock[s]]
    /\ removed' = removed \cup {r} /\ UNCHANGED <<added, moved>>

\* Users are also sorted by what changes, the XP or the last day.
MoveRow(r, at) ==
    /\ walk.list \in Users
    /\ stock' = [stock EXCEPT ![r].at = at]
    /\ moved' = moved \cup {r} /\ UNCHANGED <<added, removed>>

ResetRows ==
    /\ walk.list \in Attempts
    /\ stock' = <<>>
    /\ removed' = removed \cup DOMAIN stock /\ UNCHANGED <<added, moved>>

Alone(rows) == {r \in DOMAIN rows : \A s \in DOMAIN rows \ {r} : rows[s].at # rows[r].at}

Change ==
    /\ walk.at = "walking" /\ Cardinality(added \cup removed \cup moved) < MaxChanges
    /\ \/ \E r \in Row, at \in 1..LastMoment, of \in Group : AddRow(r, at, of)
       \/ \E r \in DOMAIN stock : DeleteRow(r) \/ \E at \in 1..LastMoment : MoveRow(r, at)
       \/ ResetRows
    /\ kept' = (kept \ moved') \cap Alone(stock')
    /\ UNCHANGED walk

Walk(list, limit, of) ==
    /\ walk.at = "idle" /\ MayStand(list, stock)
    /\ list = "attempts: lesson" => of # Anything
    /\ list = "attempts: index" => of = Anything
    /\ walk' = [walk EXCEPT !.list = list, !.limit = limit, !.of = of, !.at = "walking"]
    /\ kept' = Alone(stock)
    /\ UNCHANGED <<stock, added, removed, moved>>

ListingsInit ==
    /\ \E n \in 0..(MaxRows - MaxChanges) : stock \in [1..n -> [at : 1..LastMoment, of : Group]]
    /\ \A r, s \in DOMAIN stock : r < s => stock[r].at <= stock[s].at
    /\ walk = [list |-> "", limit |-> 0, of |-> Anything, at |-> "idle", cursor |-> Start,
               seen |-> [r \in Row |-> 0], scanned |-> {}]
    /\ kept = {} /\ added = {} /\ removed = {} /\ moved = {}

ListingsNext ==
    \/ \E list \in Attempts \cup Users \cup Audit, limit \in 1..MaxLimit,
          of \in Group \cup {Anything} : Walk(list, limit, of)
    \/ ListAttempts \/ ListLessonAttempts \/ ListByOffset \/ ListAudit \/ ListScanned
    \/ Change

ListingsSpec == ListingsInit /\ [][ListingsNext]_listingVars

-----------------------------------------------------------------------------
(* Properties.                                                             *)

\* Whoever has followed the cursors to the end has been shown every row that was
\* there all the way and shares its moment with no other, though rows came, and
\* went if the cursor is not an offset; and none twice, though rows went, and came
\* if it is not an offset.  Two lists are less than that: a scan of users leaves
\* out what its pages have no room for, and the index has every attempt twice
\* (list_attempts, list_users, list of the audit log).
PagesAddUp ==
    walk.at = "ended" =>
        \A r \in kept \cap Matching(walk.of) :
            /\ walk.list # "users: scan" /\ (walk.list \in ByOffset => removed \cup moved = {})
                  => walk.seen[r] >= 1
            /\ walk.list # "attempts: index" /\ (walk.list \in ByOffset => added \cup moved = {})
                  => walk.seen[r] <= 1

\* The index of the attempts has the attempt rows and no others, so an attempt is
\* shown once (docs/adr/0001-progress-api-hybrid-rollup.md; list_attempts).
AttemptsShownOnce == walk.list \in Attempts => \A r \in Row : walk.seen[r] <= 1
=============================================================================
