---------------------------- MODULE ProgressSync ----------------------------
(***************************************************************************)
(* POST /progress/lessons/batch: how the lesson attempts one user's client *)
(* has buffered become rows of the progress table, and XP, lingots and a   *)
(* streak on the user row.                                                 *)
(*                                                                         *)
(* The client sends its whole buffer, gives up on a request that takes too *)
(* long, and sends again; the worker it gave up on may still be running.   *)
(* The handler keeps the user row it read before its loop, makes up to     *)
(* five calls to the repository for each attempt, and writes that row back,*)
(* with its sums, after the loop.  One action is one call, with the        *)
(* decision the handler takes on its result.                               *)
(***************************************************************************)
EXTENDS Integers, FiniteSets, Sequences, SequencesExt

CONSTANTS
    Worker,      \* the processes that serve requests
    Attempt,     \* clientAttemptIds
    Item,        \* what the client says of each attempt
    Key,         \* the sort key of each attempt in the log: lesson and time
    Poison,      \* the attempts whose put_attempt always raises
    Freezes,     \* the streak freezes the user owns at first
    MaxGap,      \* _STREAK_FREEZE_MAX_GAP
    FirstDay,    \* the day a run begins, and
    LastDay,     \* the day it ends
    MaxGiveUp,   \* how often the client gives up on a running request
    MaxCrash,    \* how many workers may die, or raise out of the loop
    MaxFailure,  \* how many calls made for an attempt may raise
    None         \* no row, no day, no worker

Draft(a) == Item[a].draft

ASSUME ProgressConstants ==
    /\ Item \in [Attempt -> [draft : BOOLEAN, passed : BOOLEAN,
                             testOut : BOOLEAN, long : BOOLEAN,
                             lesson : {Item[a].lesson : a \in Attempt}]]
    /\ DOMAIN Key = Attempt
    /\ Poison \subseteq Attempt
    /\ {Freezes, MaxGap, MaxGiveUp, MaxCrash, MaxFailure} \subseteq Nat
    /\ FirstDay \in Nat /\ LastDay \in Nat /\ FirstDay <= LastDay
    /\ None \notin Worker \cup Nat \cup BOOLEAN

VARIABLES
    day,        \* date.today(), which is the UTC date
    fresh,      \* attempts the user has not made yet
    buffer,     \* the client's buffer
    waiting,    \* the worker whose answer the client waits for
    log,        \* progress table: the keys of the ATTEMPT# rows
    applied,    \* progress table: rollupApplied of each CLIENT# row
    lessons,    \* progress table: how often each attempt was added to the
                \* LESSON# row of its lesson
    days,       \* progress table: the dates of the DAY# rows it was added to
    user,       \* users table: the user row
    freezes,    \* users table: settings.shop.inventory["streak-freeze"]
    call,       \* what each worker is doing, and its local variables
    trouble,    \* the give-ups, crashes and failures so far
    strays,     \* history: how often an attempt was left between its rollups
                \* and its mark, or taken up by two workers at once
    unheard,    \* history: the attempts that were marked by a call that raised
    activeDays  \* history: the days of the batches that had an attempt accepted

store == <<log, applied, lessons, days>>
client == <<fresh, buffer, waiting>>
history == <<strays, unheard, activeDays>>
vars == <<day, client, store, user, freezes, call, trouble, history>>

Day == FirstDay..LastDay

-----------------------------------------------------------------------------
(* The user row is [xp, streak, best, last].  xp says how often the reward *)
(* of each attempt is part of the row's xp and lingots, which grow by the  *)
(* same attempts.                                                          *)

Rewards == [Attempt -> Nat]
UserRow == [xp : Rewards, streak : Nat, best : Nat, last : Day \cup {None}]

Nothing == [a \in Attempt |-> 0]
NewUser == [xp |-> Nothing, streak |-> 0, best |-> 0, last |-> None]

\* What xp_earned is not 0 for.
Pays(a) == ~Item[a].draft /\ ~Item[a].testOut /\ Item[a].passed

Phase == {"idle", "read", "item", "steps", "put", "lesson", "day", "mark",
          "settle", "freezes", "spend", "write", "answer"}

Blank == [pc |-> "idle", todo |-> << >>, done |-> {}, earned |-> {},
          base |-> NewUser, today |-> None, check |-> FALSE, missed |-> 0,
          owned |-> 0]

Init ==
    /\ day = FirstDay
    /\ fresh = Attempt
    /\ buffer = {}
    /\ waiting = None
    /\ log = {}
    /\ applied = [a \in Attempt |-> None]
    /\ lessons = Nothing
    /\ days = [a \in Attempt |-> << >>]
    /\ user = NewUser
    /\ freezes = Freezes
    /\ call = [w \in Worker |-> Blank]
    /\ trouble = [giveUps |-> 0, crashes |-> 0, failures |-> 0]
    /\ strays = Nothing
    /\ unheard = {}
    /\ activeDays = {}

At(w, phase) == call[w].pc = phase
Current(w) == Head(call[w].todo)

\* The handler returns or raises: the worker is free for another request.
Finish(w) == call' = [call EXCEPT ![w] = Blank]

-----------------------------------------------------------------------------
(* The client. *)

\* The buffer has one attempt of a lesson that is not final, and none once it is
\* done.
Drafts(lesson) == {b \in Attempt : Draft(b) /\ Item[b].lesson = lesson}

Complete(a) ==
    /\ a \in fresh
    /\ fresh' = fresh \ ({a} \cup (IF Draft(a) THEN {} ELSE Drafts(Item[a].lesson)))
    /\ buffer' = (buffer \ Drafts(Item[a].lesson)) \cup {a}
    /\ UNCHANGED <<day, waiting, store, user, freezes, call, trouble, history>>

\* The whole buffer, in any order.
Send(w) ==
    /\ waiting = None /\ buffer # {}
    /\ At(w, "idle")
    /\ waiting' = w
    /\ \E check \in BOOLEAN, batch \in SetToSeqs(buffer) :
          call' = [call EXCEPT ![w].pc = "read", ![w].todo = batch,
                               ![w].check = check]
    /\ UNCHANGED <<day, fresh, buffer, store, user, freezes, trouble, history>>

\* No answer in time, or no answer at all.
GiveUp ==
    /\ waiting # None
    /\ waiting' = None
    /\ IF At(waiting, "idle") THEN UNCHANGED trouble
       ELSE /\ trouble.giveUps < MaxGiveUp
            /\ trouble' = [trouble EXCEPT !.giveUps = @ + 1]
    /\ UNCHANGED <<day, fresh, buffer, store, user, freezes, call, history>>

\* The response reaches a client that still waits for it: it drops the final
\* attempts the server has accepted and keeps the drafts.
Answer(w) ==
    /\ At(w, "answer")
    /\ Finish(w)
    /\ IF waiting # w THEN UNCHANGED <<waiting, buffer>>
       ELSE /\ waiting' = None
            /\ buffer' = {a \in buffer : Draft(a) \/ a \notin call[w].done}
    /\ UNCHANGED <<day, fresh, store, user, freezes, trouble, history>>

-----------------------------------------------------------------------------
(* submit_attempt_batch up to its loop, and _process_one_attempt. *)

ReadUser(w) ==
    /\ At(w, "read")
    /\ call' = [call EXCEPT ![w].pc = "item", ![w].base = user, ![w].today = day]
    /\ UNCHANGED <<day, client, store, user, freezes, trouble, history>>

\* On to the next attempt, or out of the loop.
Goto(w, c, phase) == call' = [call EXCEPT ![w] = [c EXCEPT !.pc = phase]]
NextItem(w, c) ==
    LET rest == Tail(c.todo) IN
    Goto(w, [c EXCEPT !.todo = rest], IF rest = << >> THEN "settle" ELSE "item")
Accept(w, c) == NextItem(w, [c EXCEPT !.done = @ \cup {Head(c.todo)}])

\* Mutant: the row exists, so it was processed.
AlreadyStored(a) == applied[a] # None /\ ~Draft(a)

AlreadyProcessed(a) == applied[a] = TRUE /\ ~Draft(a)

\* Mutant: what was processed earlier is paid again.
ReplayPaying(w) ==
    Accept(w, [call[w] EXCEPT !.earned = @ \cup {Current(w)}])

\* The cached outcome carries no XP.
Replay(w) == Accept(w, call[w])

\* Another worker is between this check and the mark of the same attempt.
TakenUp(w, a) ==
    \E v \in Worker \ {w} :
        call[v].pc \in {"put", "lesson", "day", "mark"} /\ Current(v) = a

CheckAttempt(w) ==
    LET a == Current(w) IN
    /\ At(w, "item")
    /\ \/ /\ AlreadyProcessed(a)
          /\ Replay(w)
          /\ UNCHANGED strays
       \/ /\ applied[a] # None /\ Draft(a)
          /\ Goto(w, call[w], "steps")
          /\ UNCHANGED strays
       \/ /\ applied[a] = None /\ ~Item[a].long
          /\ NextItem(w, call[w])
          /\ UNCHANGED strays
       \/ /\ \/ applied[a] = None /\ Item[a].long /\ Goto(w, call[w], "put")
             \/ /\ applied[a] # None /\ ~Draft(a) /\ ~AlreadyProcessed(a)
                /\ Goto(w, call[w], "lesson")
          /\ strays' = IF TakenUp(w, a) THEN [strays EXCEPT ![a] = @ + 1]
                       ELSE strays
    /\ UNCHANGED <<day, client, store, user, freezes, trouble, unheard, activeDays>>

\* update_attempt_steps stores the draft's steps, which the model leaves out.
UpdateSteps(w) ==
    /\ At(w, "steps")
    /\ Accept(w, call[w])
    /\ UNCHANGED <<day, client, store, user, freezes, trouble, history>>

\* One transaction puts both rows, unless either key is taken: then it is
\* cancelled and put_attempt returns as if it had written them.
PutAttempt(w) ==
    LET a == Current(w) IN
    /\ At(w, "put")
    /\ a \notin Poison
    /\ IF Key[a] \notin log /\ applied[a] = None
         THEN /\ log' = log \cup {Key[a]}
              /\ applied' = [applied EXCEPT ![a] = FALSE]
         ELSE UNCHANGED <<log, applied>>
    /\ Goto(w, call[w], "lesson")
    /\ UNCHANGED <<day, client, lessons, days, user, freezes, trouble, history>>

UpdateLessonRollup(w) ==
    /\ At(w, "lesson")
    /\ lessons' = [lessons EXCEPT ![Current(w)] = @ + 1]
    /\ Goto(w, call[w], "day")
    /\ UNCHANGED <<day, client, log, applied, days, user, freezes, trouble,
                   history>>

UpdateDayRollup(w) ==
    /\ At(w, "day")
    /\ days' = [days EXCEPT ![Current(w)] = Append(@, day)]
    /\ Goto(w, call[w], "mark")
    /\ UNCHANGED <<day, client, log, applied, lessons, user, freezes, trouble,
                   history>>

\* A CLIENT# row that is not there is not marked, and nobody is told.
MarkRollupApplied(w) ==
    LET a == Current(w) IN
    /\ At(w, "mark")
    /\ applied' = [applied EXCEPT ![a] = IF @ = None THEN None ELSE TRUE]
    /\ Accept(w, [call[w] EXCEPT !.earned = IF Pays(a) THEN @ \cup {a} ELSE @])
    /\ UNCHANGED <<day, client, log, lessons, days, user, freezes, trouble,
                   history>>

\* Mutant: the attempt that raised is reported accepted.
FailAccepted(w) ==
    /\ call[w].pc \in {"item", "steps", "put", "lesson", "day", "mark"}
    /\ trouble.failures < MaxFailure
    /\ trouble' = [trouble EXCEPT !.failures = @ + 1]
    /\ Accept(w, call[w])
    /\ UNCHANGED <<day, client, store, user, freezes, history>>

\* Mutant: the exception leaves the loop.
FailBatch(w) ==
    /\ At(w, "put") /\ Current(w) \in Poison
    /\ Finish(w)
    /\ UNCHANGED <<day, client, store, user, freezes, trouble, history>>

\* A call for one attempt raises: server_error for it, and on to the next.
\* One that raises though it has landed leaves the rows as they are when the call
\* after it raises; for the mark, after which there is none, see below.
Fail(w) ==
    LET a == Current(w) IN
    /\ call[w].pc \in {"item", "steps", "put", "lesson", "day", "mark"}
    /\ IF At(w, "put") /\ a \in Poison THEN UNCHANGED trouble
       ELSE /\ trouble.failures < MaxFailure
            /\ trouble' = [trouble EXCEPT !.failures = @ + 1]
    /\ NextItem(w, call[w])
    /\ strays' = IF call[w].pc \in {"day", "mark"}
                   THEN [strays EXCEPT ![a] = @ + 1] ELSE strays
    /\ UNCHANGED <<day, client, store, user, freezes, unheard, activeDays>>

\* The mark lands and its answer is lost: server_error and no XP for the attempt,
\* which every later request takes for one that was paid.
FailAfterMark(w) ==
    LET a == Current(w) IN
    /\ At(w, "mark") /\ applied[a] # None
    /\ trouble.failures < MaxFailure
    /\ trouble' = [trouble EXCEPT !.failures = @ + 1]
    /\ applied' = [applied EXCEPT ![a] = TRUE]
    /\ NextItem(w, call[w])
    /\ unheard' = unheard \cup {a}
    /\ UNCHANGED <<day, client, log, lessons, days, user, freezes, strays, activeDays>>

-----------------------------------------------------------------------------
(* submit_attempt_batch after its loop. *)

\* The row to write: the row read before the loop, plus what was earned.
Credited(c) ==
    [c.base EXCEPT !.xp = [a \in Attempt |-> @[a] + (IF a \in c.earned THEN 1 ELSE 0)]]

\* streak, best_streak and last_active_date are set on the row to write.
WithStreak(c, n) ==
    [c EXCEPT !.base.streak = n, !.base.last = c.today,
              !.base.best = IF n > @ THEN n ELSE @]

MissedDays(last, today) ==
    IF last = None \/ today - last < 1 THEN 0 ELSE today - last - 1

\* Mutant: a batch with nothing accepted counts for the streak.
StreakStandsUnlessChecked(c) == ~c.check \/ c.base.last = c.today

StreakStands(c) == ~c.check \/ c.done = {} \/ c.base.last = c.today

\* An update_user follows if XP was earned or the streak was touched.
WriteOrAnswer(w) == Goto(w, call[w], IF call[w].earned # {} THEN "write" ELSE "answer")

Settle(w) ==
    LET c == call[w]
        yesterday == day - 1
        missed == MissedDays(c.base.last, c.today)
    IN
    /\ At(w, "settle")
    /\ IF StreakStands(c) THEN WriteOrAnswer(w)
       ELSE IF c.base.last = yesterday
         THEN Goto(w, WithStreak(c, c.base.streak + 1), "write")
       ELSE IF missed \in 1..MaxGap
         THEN Goto(w, [c EXCEPT !.missed = missed], "freezes")
       ELSE Goto(w, WithStreak(c, 1), "write")
    /\ activeDays' = IF c.done = {} THEN activeDays ELSE activeDays \cup {c.today}
    /\ UNCHANGED <<day, client, store, user, freezes, trouble, strays, unheard>>

\* Mutant: the inventory is not looked at.
ReadFreezesBlindly(w) ==
    /\ At(w, "freezes")
    /\ Goto(w, [call[w] EXCEPT !.owned = freezes], "spend")
    /\ UNCHANGED <<day, client, store, user, freezes, trouble, history>>

\* _consume_streak_freezes reads the inventory, then writes what it computed.
ReadFreezes(w) ==
    LET c == call[w] IN
    /\ At(w, "freezes")
    /\ IF freezes >= c.missed
         THEN Goto(w, [c EXCEPT !.owned = freezes], "spend")
         ELSE Goto(w, WithStreak(c, 1), "write")
    /\ UNCHANGED <<day, client, store, user, freezes, trouble, history>>

SpendFreezes(w) ==
    LET c == call[w] IN
    /\ At(w, "spend")
    /\ freezes' = c.owned - c.missed
    /\ Goto(w, WithStreak(c, c.base.streak + 1), "write")
    /\ UNCHANGED <<day, client, store, user, trouble, history>>

\* update_user(patch, current=...): one put of the whole row.
WriteUser(w) ==
    /\ At(w, "write")
    /\ user' = Credited(call[w])
    /\ Goto(w, call[w], "answer")
    /\ UNCHANGED <<day, client, store, freezes, trouble, history>>

-----------------------------------------------------------------------------
(* The environment. *)

Midnight ==
    /\ day < LastDay
    /\ day' = day + 1
    /\ UNCHANGED <<client, store, user, freezes, call, trouble, history>>

\* The worker dies, or a call outside the loop raises: no response.
Crash(w) ==
    /\ ~At(w, "idle")
    /\ trouble.crashes < MaxCrash
    /\ trouble' = [trouble EXCEPT !.crashes = @ + 1]
    /\ strays' = IF call[w].pc \in {"day", "mark"}
                   THEN [strays EXCEPT ![Current(w)] = @ + 1] ELSE strays
    /\ Finish(w)
    /\ UNCHANGED <<day, client, store, user, freezes, unheard, activeDays>>

Serve(w) ==
    \/ ReadUser(w) \/ CheckAttempt(w) \/ UpdateSteps(w) \/ PutAttempt(w)
    \/ UpdateLessonRollup(w) \/ UpdateDayRollup(w) \/ MarkRollupApplied(w)
    \/ Settle(w) \/ ReadFreezes(w) \/ SpendFreezes(w) \/ WriteUser(w)
    \/ Answer(w) \/ Fail(w) \/ FailAfterMark(w)

Next ==
    \/ \E a \in Attempt : Complete(a)
    \/ \E w \in Worker : Send(w) \/ Serve(w) \/ Crash(w)
    \/ GiveUp
    \/ Midnight

Spec == Init /\ [][Next]_vars

FairSpec ==
    /\ Spec
    /\ \A w \in Worker : WF_vars(Serve(w))
    /\ WF_vars(\E w \in Worker : Send(w))
    /\ WF_vars(GiveUp)

-----------------------------------------------------------------------------
(* Properties. *)

Count == 0..(1 + MaxGiveUp + MaxCrash + MaxFailure)

TypeOK ==
    /\ day \in Day
    /\ fresh \subseteq Attempt
    /\ buffer \subseteq Attempt
    /\ waiting \in Worker \cup {None}
    /\ log \subseteq Range(Key)
    /\ applied \in [Attempt -> BOOLEAN \cup {None}]
    /\ lessons \in Rewards
    /\ days \in [Attempt -> Seq(Day)]
    /\ user \in UserRow
    /\ freezes \in 0..Freezes
    /\ call \in [Worker -> [pc : Phase, todo : Seq(Attempt), done : SUBSET Attempt,
                            earned : SUBSET Attempt, base : UserRow,
                            today : Day \cup {None}, check : BOOLEAN,
                            missed : 0..MaxGap, owned : 0..Freezes]]
    /\ trouble \in [giveUps : 0..MaxGiveUp, crashes : 0..MaxCrash,
                    failures : 0..MaxFailure]
    /\ strays \in Rewards
    /\ unheard \subseteq Attempt
    /\ activeDays \subseteq Day

Sent(a) == a \notin fresh /\ a \notin buffer
DayCount(a) == Len(days[a])

\* The marker is the promise that the rollups of an attempt have landed: in no
\* interleaving, and after no crash, is an attempt marked that they lack.  They
\* count an attempt once, and once more only for each time a request broke off
\* between its rollups and its mark or overlapped with another that had taken it
\* up: the residual risk is bounded by the trouble there was
\* (_process_one_attempt, on mark_rollup_applied).  And the user row is never ahead
\* of the day rollups: no XP is paid twice for an attempt that they count once.
CountedOnce ==
    \A a \in Attempt :
        /\ applied[a] = TRUE => lessons[a] >= 1 /\ DayCount(a) >= 1
        /\ lessons[a] <= 1 + strays[a] /\ DayCount(a) <= 1 + strays[a]
        /\ user.xp[a] <= DayCount(a)

\* A final attempt leaves the client's buffer only when the server has stored
\* and counted it: nothing the user did is forgotten by both sides.
DroppedIsStored ==
    \A a \in Attempt : Sent(a) /\ ~Draft(a) => applied[a] = TRUE

AllIdle == \A w \in Worker : At(w, "idle")
InOrder == trouble.giveUps = 0 /\ trouble.crashes = 0

\* If no request is cut short or given up on, each passed attempt the server
\* has accepted is paid exactly once, whichever calls inside the loop raise,
\* with or without effect, but for one: an attempt whose mark landed in a call
\* that raised is never paid, and no other attempt goes unpaid on its account.
PaidOnceInOrder ==
    InOrder /\ AllIdle =>
        \A a \in Attempt : Sent(a) /\ Pays(a) =>
            user.xp[a] = IF a \in unheard THEN 0 ELSE 1

\* The streak is earned: it is at most the number of days, up to the last one
\* it was credited for, on which the server accepted an attempt; and the best
\* streak is at least the present one.
StreakIsEarned ==
    /\ user.streak <= Cardinality({d \in activeDays : user.last # None /\ d <= user.last})
    /\ user.streak <= user.best

\* An attempt the server does not reject leaves the buffer in the end, though
\* another one in the same batch may raise every time.
BufferDrains ==
    \A a \in Attempt :
        a \in buffer /\ ~Draft(a) /\ Item[a].long /\ a \notin Poison
            ~> a \notin buffer
=============================================================================
