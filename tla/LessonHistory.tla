--------------------------- MODULE LessonHistory ---------------------------
(***************************************************************************)
(* What a user has done of each lesson: a row that attempts and seeded     *)
(* completions count into, the answers of the seeded completions, and the  *)
(* reset that deletes them all.  In DynamoDB a row is written in one call  *)
(* or, if the score does not beat the best one, in two; in SQLite it is    *)
(* one statement, and that row is kept beside.                             *)
(***************************************************************************)
EXTENDS Table

CONSTANTS
    Lesson,
    Operation  \* ids of seeded completions, which a client sends again

VARIABLES
    sqlRows,  \* progress_lesson_rollups of SQLite, by lesson
    mixed     \* history: a reset was served together with another request

historyVars == <<tableVars, sqlRows, mixed>>

LessonRow(l) == <<"LESSON", l>>
Op(o) == <<"OP", o>>

\* What requests are about.
Progress == <<"PROGRESS", 0>>
Reset == <<"RESET", 0>>

Perfect == 2  \* a score of 1.0
Never == <<>>

\* An attempt, or a lesson of a seeded completion: score, time, and passed.
Attempted(score, time, passed) == [score |-> score, time |-> time, passed |-> passed]
Seeded(o) == Attempted(Perfect, <<"completed", o>>, TRUE)

\* INSERT ... ON CONFLICT DO UPDATE.
Upserted(l, a) ==
    LET first == IF a.passed THEN a.time ELSE Never
    IN  IF l \notin DOMAIN sqlRows
        THEN [best |-> a.score, first |-> first, latest |-> a.time, count |-> 1]
        ELSE LET row == sqlRows[l]
             IN  [best |-> IF row.best > a.score THEN row.best ELSE a.score,
                  first |-> IF row.first # Never THEN row.first ELSE first,
                  latest |-> a.time, count |-> row.count + 1]

Upsert(l, a) ==
    sqlRows' = [k \in DOMAIN sqlRows \cup {l} |-> IF k = l THEN Upserted(l, a) ELSE sqlRows[k]]

-----------------------------------------------------------------------------
(* update_lesson_rollup: raise the best score, or, if that fails, count    *)
(* without it.                                                             *)

HasAttribute(l, attribute) == Has(LessonRow(l)) /\ attribute \in DOMAIN items[LessonRow(l)]

\* bestScore < :s, or there is none.
Beats(l, a) == HasAttribute(l, "best") => items[LessonRow(l)].best < a.score

First(l, a) == IF a.passed /\ ~HasAttribute(l, "first") THEN [first |-> a.time] ELSE <<>>

Counting(l, a) == Update(LessonRow(l), Updated(First(l, a), [set |-> [latest |-> a.time], add |-> <<>>]),
                         [count |-> 1])

Raising(l, a) ==
    Update(LessonRow(l), Updated(First(l, a), [set |-> [latest |-> a.time, best |-> a.score],
                                               add |-> <<>>]),
           [count |-> 1])

\* One call about a lesson, in phase "raise" or "count", and the phase after it.
Roll(l, a, phase, next) ==
    \/ /\ phase = "raise" /\ Beats(l, a) /\ next = "landed"
       /\ items' = After(Raising(l, a)) /\ Upsert(l, a)
    \/ /\ phase = "raise" /\ ~Beats(l, a) /\ next = "count"
       /\ UNCHANGED <<items, sqlRows>>
    \/ /\ phase = "count" /\ next = "landed"
       /\ items' = After(Counting(l, a)) /\ Upsert(l, a)

-----------------------------------------------------------------------------
(* Requests.  The phase of every lesson a request is about is in its arg.  *)

Phase(w) == call[w].arg[2]

\* A lesson of a batch of attempts.
CountAttempt(w, l, a) == Begin(w, "attempt", {Progress}, <<a, [k \in {l} |-> "raise"]>>, "lessons")

SubmitBulkComplete(w, o) ==
    Begin(w, "bulk", {Progress}, <<Seeded(o), [l \in Lesson |-> "raise"], o>>, "look")

\* What was answered to the same operation is answered again.
GetBulkOp(w) ==
    /\ At(w, "bulk", "look")
    /\ IF Has(Op(call[w].arg[3])) THEN Answer(w) ELSE Goto(w, "lessons")

\* A call about one of the lessons, side by side with those about the others.  It
\* may raise, before or after it has written.
RollOne(w) ==
    /\ At(w, "attempt", "lessons") \/ At(w, "bulk", "lessons")
    /\ \E l \in DOMAIN Phase(w), next \in {"count", "landed", "failed"} :
          /\ \/ Roll(l, call[w].arg[1], Phase(w)[l], next)
             \/ /\ Phase(w)[l] \in {"raise", "count"} /\ next = "failed"
                /\ \/ UNCHANGED <<items, sqlRows>>
                   \/ Roll(l, call[w].arg[1], Phase(w)[l], "landed")
          /\ call' = [call EXCEPT ![w].arg[2][l] = next]
    /\ UNCHANGED <<requests, crashes, shared, torn>>

Rolled(w) == \A l \in DOMAIN Phase(w) : Phase(w)[l] \in {"landed", "failed"}

\* accepted: how many lessons were first passed by this operation.
Accepted(o) ==
    Cardinality({l \in Lesson : HasAttribute(l, "first") /\ items[LessonRow(l)].first = Seeded(o).time})

\* Mutant: what could not be written is not asked for again.
SaveAnyway(w) ==
    /\ At(w, "bulk", "lessons") /\ Rolled(w)
    /\ Plan(w, <<{Put(Op(call[w].arg[3]), Accepted(call[w].arg[3]))}>>)

\* The answer is kept only if every lesson has landed.
SaveBulkOp(w) ==
    /\ At(w, "bulk", "lessons") /\ Rolled(w)
    /\ IF \A l \in Lesson : Phase(w)[l] = "landed"
       THEN Plan(w, <<{Put(Op(call[w].arg[3]), Accepted(call[w].arg[3]))}>>)
       ELSE Answer(w)

AnswerAttempt(w) == At(w, "attempt", "lessons") /\ Rolled(w) /\ Answer(w)

ResetMyProgress(w) == Begin(w, "reset", {Progress, Reset}, <<>>, "query")

\* Every key there is, and then a batch of deletions.
DeleteAllForUser(w) ==
    At(w, "reset", "query") /\ Plan(w, Batch({Delete(key) : key \in DOMAIN items}))

-----------------------------------------------------------------------------

Requests(w) ==
    \/ \E l \in Lesson, score \in {1, Perfect}, passed \in BOOLEAN :
          CountAttempt(w, l, Attempted(score, <<"attempted", requests + 1>>, passed))
    \/ \E o \in Operation : SubmitBulkComplete(w, o)
    \/ ResetMyProgress(w)
    \/ GetBulkOp(w) \/ SaveBulkOp(w) \/ AnswerAttempt(w) \/ DeleteAllForUser(w)

\* A row goes from both.
LessonWork(w) ==
    \/ /\ Write(w)
       /\ sqlRows' = [l \in {k \in DOMAIN sqlRows : LessonRow(k) \in DOMAIN items'} |-> sqlRows[l]]
    \/ Crash(w) /\ UNCHANGED sqlRows

Running == {w \in Worker : Busy(w)}

HistoryInit == TableInit(<<>>) /\ sqlRows = <<>> /\ mixed = FALSE

HistoryNext ==
    /\ \E w \in Worker : \/ Requests(w) /\ UNCHANGED sqlRows
                         \/ RollOne(w) \/ LessonWork(w)
    /\ mixed' = (mixed \/ (Cardinality(Running') > 1 /\ \E w \in Worker : call'[w].op = "reset"))

HistorySpec == HistoryInit /\ [][HistoryNext]_historyVars

-----------------------------------------------------------------------------

\* However attempts and seeded completions of a lesson overlap, fail and are sent
\* again, its row is what one statement for each of them would have made of it: the
\* best score, the first pass, the count.  And an operation that is answered from
\* its kept answer is all there: every lesson of it is passed, and as many were
\* first passed by it as the answer says.  Only a reset that was served together
\* with another request, or died, may part them (update_lesson_rollup,
\* save_bulk_op: a partial failure is deliberately left uncached).
HistoryAddsUp ==
    /\ ~mixed =>
          \A l \in Lesson : Has(LessonRow(l)) =>
             LET row == items[LessonRow(l)]
             IN  sqlRows[l] = Updated([first |-> Never], [set |-> row, add |-> <<>>])
    /\ ~mixed /\ Reset \notin torn /\ (\A w \in Worker : call[w].op # "reset") =>
          \A o \in Operation : Has(Op(o)) =>
             /\ \A l \in Lesson : HasAttribute(l, "first")
             /\ items[Op(o)] = Accepted(o)
=============================================================================
