------------------------- MODULE ProgressSyncProofs -------------------------
(***************************************************************************)
(* What a batch of attempts does to the progress table, the user row and   *)
(* the client's buffer, for any number of workers and attempts, whatever   *)
(* overlaps, raises or dies.  Every step is one of a few kinds: the lemmas *)
(* of the first part say of each kind what it changes, and the invariants  *)
(* are proved from what they say.                                          *)
(***************************************************************************)
EXTENDS ProgressSync, SequenceTheorems, FiniteSetTheorems, TLAPS

-----------------------------------------------------------------------------
(* Types.  The type of call alone does not carry a proof: a call that uses *)
(* a local variable needs the handler to have set it.                      *)

Call == [pc : Phase, todo : Seq(Attempt), done : SUBSET Attempt,
         earned : SUBSET Attempt, base : UserRow,
         today : Day \cup {None}, check : BOOLEAN,
         missed : 0..MaxGap, owned : 0..Freezes]

\* The calls made for an attempt, and those made before the answer.
InLoop == {"item", "steps", "put", "lesson", "day", "mark"}
AfterLoop == {"settle", "freezes", "spend", "write", "answer"}

Locals(w) ==
    /\ call[w].pc \in {"idle", "read"} => call[w].done = {} /\ call[w].earned = {}
    /\ call[w].pc \in InLoop \cup {"read"} => call[w].todo # << >>
    /\ call[w].pc \in InLoop \cup AfterLoop => call[w].today \in Day
    /\ call[w].pc = "steps" => Draft(Current(w))
    /\ call[w].pc = "spend" => call[w].missed <= call[w].owned

TypeInv ==
    /\ TypeOK
    /\ IsFiniteSet(buffer)
    /\ \A w \in Worker : Locals(w)

-----------------------------------------------------------------------------
(* What a step does.                                                       *)

Marked(a) == applied[a] = TRUE
Known(a) == applied[a] # None

\* Only the handler of w goes on.
Apart(w) == call' \in [Worker -> Call] /\ \A v \in Worker \ {w} : call'[v] = call[v]

\* ... and its sums, its row and its date stay as they are.
Carries(w) ==
    /\ call'[w].done = call[w].done /\ call'[w].earned = call[w].earned
    /\ call'[w].base = call[w].base /\ call'[w].today = call[w].today

\* The loop goes on with the next attempt.
Advances(w) ==
    /\ Apart(w)
    /\ call[w].pc \in InLoop
    /\ call'[w].pc \in {"item", "settle"}
    /\ call'[w].base = call[w].base /\ call'[w].today = call[w].today
    /\ Locals(w)'

\* The loop goes on with the same attempt.
Stays(w) ==
    /\ Apart(w)
    /\ call[w].pc \in InLoop
    /\ call'[w].todo = call[w].todo
    /\ Carries(w)
    /\ Locals(w)'

\* What most steps leave alone.
Outside == <<client, trouble, day>>
Rows == <<user, freezes, activeDays, unheard>>

\* The client's own steps, midnight, a call that is given up on.
Elsewhere ==
    /\ UNCHANGED <<store, Rows, call, strays>>
    /\ day' \in Day /\ day <= day'
    /\ IsFiniteSet(buffer')
    /\ fresh' \subseteq fresh /\ buffer' \subseteq Attempt
    /\ \A a \in Attempt : Sent(a)' /\ ~Draft(a) => Sent(a)
    /\ waiting' \in {waiting, None}
    /\ trouble' \in [giveUps : 0..MaxGiveUp, crashes : 0..MaxCrash,
                     failures : 0..MaxFailure]
    /\ InOrder' => InOrder
    /\ waiting' = waiting \/ (waiting # None /\ (At(waiting, "idle") \/ ~InOrder'))

\* The buffer is sent.
Sends(w) ==
    /\ Apart(w)
    /\ At(w, "idle") /\ waiting = None /\ waiting' = w
    /\ call'[w].pc = "read" /\ call'[w].done = {} /\ call'[w].earned = {}
    /\ Locals(w)'
    /\ UNCHANGED <<fresh, buffer, trouble, day, store, Rows, strays>>

\* The row is read.
Starts(w) ==
    /\ Apart(w)
    /\ At(w, "read") /\ call'[w].pc = "item"
    /\ call'[w].done = {} /\ call'[w].earned = {}
    /\ call'[w].base = user /\ call'[w].today = day
    /\ Locals(w)'
    /\ UNCHANGED <<Outside, store, Rows, strays>>

\* An attempt is rejected, or a call for it raises.
Skips(w) ==
    /\ Advances(w) /\ Carries(w)
    /\ \/ call[w].pc \notin {"day", "mark"} /\ strays' = strays
       \/ strays' = [strays EXCEPT ![Current(w)] = @ + 1]
    /\ trouble' \in [giveUps : 0..MaxGiveUp, crashes : 0..MaxCrash,
                     failures : 0..MaxFailure]
    /\ InOrder' => InOrder
    /\ UNCHANGED <<client, day, store, Rows>>

\* An attempt that is there already is accepted.
Repeats(w) ==
    /\ Advances(w)
    /\ call[w].pc \in {"item", "steps"}
    /\ Draft(Current(w)) \/ Marked(Current(w))
    /\ call'[w].done = call[w].done \cup {Current(w)}
    /\ call'[w].earned = call[w].earned
    /\ UNCHANGED <<Outside, store, Rows, strays>>

\* A draft that is there already gets its steps.
Redrafts(w) ==
    /\ Stays(w)
    /\ At(w, "item") /\ call'[w].pc = "steps"
    /\ UNCHANGED <<Outside, store, Rows, strays>>

\* A new attempt is taken up, or one whose rollups may not have landed.
TakesUp(w) ==
    /\ Stays(w)
    /\ At(w, "item") /\ ~Marked(Current(w))
    /\ \/ call'[w].pc = "put"
       \/ call'[w].pc = "lesson" /\ Known(Current(w))
    /\ strays' = IF TakenUp(w, Current(w)) THEN [strays EXCEPT ![Current(w)] = @ + 1]
                 ELSE strays
    /\ UNCHANGED <<Outside, store, Rows>>

\* The two rows are put, unless one of them is there.
Puts(w) ==
    /\ Stays(w)
    /\ At(w, "put") /\ call'[w].pc = "lesson"
    /\ \/ /\ log' = log \cup {Key[Current(w)]}
          /\ ~Known(Current(w)) /\ applied'[Current(w)] # None
          /\ \A b \in Attempt \ {Current(w)} : applied'[b] = applied[b]
       \/ /\ log' = log /\ applied' = applied
          /\ Key[Current(w)] \in log \/ Known(Current(w))
    /\ \A b \in Attempt : Marked(b)' <=> Marked(b)
    /\ applied' \in [Attempt -> BOOLEAN \cup {None}] /\ log' \subseteq Range(Key)
    /\ UNCHANGED <<Outside, lessons, days, Rows, strays>>

CountsLesson(w) ==
    /\ Stays(w)
    /\ At(w, "lesson") /\ call'[w].pc = "day"
    /\ lessons' = [lessons EXCEPT ![Current(w)] = @ + 1]
    /\ UNCHANGED <<Outside, log, applied, days, Rows, strays>>

CountsDay(w) ==
    /\ Stays(w)
    /\ At(w, "day") /\ call'[w].pc = "mark"
    /\ days' = [days EXCEPT ![Current(w)] = Append(@, day)]
    /\ UNCHANGED <<Outside, log, applied, lessons, Rows, strays>>

\* The mark is set, and the attempt is accepted; or the call raises all the same.
Marks(w) ==
    /\ Advances(w)
    /\ At(w, "mark")
    /\ \/ /\ call'[w].done = call[w].done \cup {Current(w)}
          /\ call'[w].earned = call[w].earned \cup
                                  (IF Pays(Current(w)) THEN {Current(w)} ELSE {})
          /\ unheard' = unheard
       \/ /\ Carries(w)
          /\ Known(Current(w))
          /\ unheard' = unheard \cup {Current(w)}
    /\ applied' \in [Attempt -> BOOLEAN \cup {None}]
    /\ Known(Current(w)) <=> applied'[Current(w)] = TRUE
    /\ \A b \in Attempt : Known(b)' <=> Known(b)
    /\ \A b \in Attempt \ {Current(w)} : applied'[b] = applied[b]
    /\ trouble' \in [giveUps : 0..MaxGiveUp, crashes : 0..MaxCrash,
                     failures : 0..MaxFailure]
    /\ InOrder' => InOrder
    /\ UNCHANGED <<client, day, log, lessons, days, user, freezes, activeDays, strays>>

\* The streak of the row to write is one longer, or begins.
Credits(w) ==
    /\ call'[w].base.streak \in {1, call[w].base.streak + 1}
    /\ call'[w].base.streak <= call'[w].base.best
    /\ call'[w].base.last = call[w].today

\* The streak: a step after the loop that leaves the XP alone.
Settles(w) ==
    /\ Apart(w)
    /\ call[w].pc \in {"settle", "freezes", "spend"}
    /\ call'[w].pc \in {"freezes", "spend", "write", "answer"}
    /\ call'[w].done = call[w].done /\ call'[w].earned = call[w].earned
    /\ call'[w].base.xp = call[w].base.xp /\ call'[w].today = call[w].today
    /\ call'[w].pc = "answer" => call[w].earned = {}
    /\ \/ call'[w].base = call[w].base
       \/ call'[w].pc = "write" /\ Credits(w)
    /\ At(w, "settle") =>
          \/ call'[w].base = call[w].base /\ call'[w].pc \in {"write", "answer"}
          \/ call[w].today \in activeDays' /\ call[w].base.last # call[w].today
    /\ Locals(w)'
    /\ freezes' \in 0..Freezes
    /\ activeDays \subseteq activeDays' /\ activeDays' \subseteq Day
    /\ UNCHANGED <<Outside, store, user, unheard, strays>>

\* The row is written.
Writes(w) ==
    /\ Apart(w)
    /\ At(w, "write") /\ call'[w].pc = "answer"
    /\ Carries(w) /\ Locals(w)'
    /\ user' = Credited(call[w])
    /\ UNCHANGED <<Outside, store, freezes, activeDays, unheard, strays>>

\* The answer, which the client may not wait for any more.
Answers(w) ==
    /\ Apart(w)
    /\ At(w, "answer") /\ call'[w] = Blank
    /\ waiting' = (IF waiting = w THEN None ELSE waiting)
    /\ buffer' \subseteq buffer /\ IsFiniteSet(buffer')
    /\ \A a \in buffer \ buffer' : ~Draft(a) /\ a \in call[w].done
    /\ UNCHANGED <<fresh, trouble, day, store, Rows, strays>>

Dies(w) ==
    /\ Apart(w)
    /\ call'[w] = Blank
    /\ \/ call[w].pc \notin {"day", "mark"} /\ strays' = strays
       \/ call[w].pc \in {"day", "mark"}
            /\ strays' = [strays EXCEPT ![Current(w)] = @ + 1]
    /\ trouble' \in [giveUps : 0..MaxGiveUp, crashes : 0..MaxCrash,
                     failures : 0..MaxFailure]
    /\ ~InOrder'
    /\ UNCHANGED <<client, day, store, Rows>>

Serves(w) ==
    \/ Sends(w) \/ Starts(w)
    \/ Skips(w) \/ Repeats(w) \/ Redrafts(w) \/ TakesUp(w)
    \/ Puts(w) \/ CountsLesson(w) \/ CountsDay(w) \/ Marks(w)
    \/ Settles(w) \/ Writes(w) \/ Answers(w) \/ Dies(w)

-----------------------------------------------------------------------------
(* What the actions of the model come to.                                  *)

LEMMA OneCall ==
    ASSUME TypeInv, NEW w \in Worker
    PROVE  /\ call[w] \in Call
           /\ call[w].pc \in Phase /\ call[w].todo \in Seq(Attempt)
           /\ call[w].done \subseteq Attempt /\ call[w].earned \subseteq Attempt
           /\ call[w].base \in UserRow
           /\ call[w].today \in Day \cup {None} /\ call[w].check \in BOOLEAN
           /\ call[w].missed \in 0..MaxGap /\ call[w].owned \in 0..Freezes
           /\ Locals(w)
           /\ call \in [Worker -> Call]
BY DEF TypeInv, TypeOK, Call

LEMMA CurrentIs ==
    ASSUME TypeInv, NEW w \in Worker, call[w].pc \in InLoop \cup {"read"}
    PROVE  /\ Current(w) \in Attempt
           /\ call[w].todo # << >>
           /\ Tail(call[w].todo) \in Seq(Attempt)
<1>1. call[w].todo \in Seq(Attempt) /\ call[w].todo # << >>
  BY OneCall DEF Locals
<1>2. QED
  BY <1>1, HeadTailProperties DEF Current

\* The next attempt: what a handler goes on with is one of the values of c.
LEMMA NextIs ==
    ASSUME TypeInv, NEW w \in Worker, call[w].pc \in InLoop,
           NEW c \in Call, c.todo = call[w].todo, c.base = call[w].base,
           c.today = call[w].today,
           NextItem(w, c)
    PROVE  /\ Advances(w)
           /\ call'[w].done = c.done /\ call'[w].earned = c.earned
<1>1. PICK rest : rest = Tail(c.todo)
  OBVIOUS
<1>2. rest \in Seq(Attempt)
  BY <1>1, CurrentIs
<1>3. PICK phase : phase = IF rest = << >> THEN "settle" ELSE "item"
  OBVIOUS
<1>4. PICK d : d = [[c EXCEPT !.todo = rest] EXCEPT !.pc = phase]
  OBVIOUS
<1>5. call' = [call EXCEPT ![w] = d]
  BY <1>1, <1>3, <1>4 DEF NextItem, Goto
<1>6. /\ d \in Call
      /\ d.pc = phase /\ d.todo = rest /\ d.done = c.done /\ d.earned = c.earned
      /\ d.base = c.base /\ d.today = c.today
  BY <1>2, <1>3, <1>4 DEF Call, Phase
<1>7. call'[w] = d /\ Apart(w)
  BY <1>5, <1>6, OneCall DEF Apart
<1>8. call[w].today \in Day
  BY OneCall DEF Locals
<1>9. Locals(w)'
  BY <1>3, <1>6, <1>7, <1>8 DEF Locals, InLoop, AfterLoop
<1>10. QED
  BY <1>3, <1>6, <1>7, <1>9 DEF Advances

LEMMA AcceptIs ==
    ASSUME TypeInv, NEW w \in Worker, call[w].pc \in InLoop,
           NEW c \in Call, c.todo = call[w].todo, c.base = call[w].base,
           c.today = call[w].today,
           Accept(w, c)
    PROVE  /\ Advances(w)
           /\ call'[w].done = c.done \cup {Current(w)} /\ call'[w].earned = c.earned
<1>1. Current(w) \in Attempt
  BY CurrentIs
<1>2. PICK d : d = [c EXCEPT !.done = @ \cup {Head(c.todo)}]
  OBVIOUS
<1>3. /\ d \in Call
      /\ d.todo = c.todo /\ d.done = c.done \cup {Current(w)}
      /\ d.earned = c.earned /\ d.base = c.base /\ d.today = c.today
  BY <1>1, <1>2 DEF Call, Current
<1>4. NextItem(w, d)
  BY <1>2 DEF Accept
<1>5. QED
  BY <1>3, <1>4, NextIs

\* The same attempt, at another call.
LEMMA GotoIs ==
    ASSUME TypeInv, NEW w \in Worker, NEW c \in Call, NEW phase \in Phase,
           Goto(w, c, phase)
    PROVE  /\ Apart(w)
           /\ call'[w] \in Call
           /\ call'[w].pc = phase /\ call'[w].todo = c.todo
           /\ call'[w].done = c.done /\ call'[w].earned = c.earned
           /\ call'[w].base = c.base /\ call'[w].today = c.today
           /\ call'[w].missed = c.missed /\ call'[w].owned = c.owned
<1>1. PICK d : d = [c EXCEPT !.pc = phase]
  OBVIOUS
<1>2. /\ d \in Call
      /\ d.pc = phase /\ d.todo = c.todo /\ d.done = c.done /\ d.earned = c.earned
      /\ d.base = c.base /\ d.today = c.today
      /\ d.missed = c.missed /\ d.owned = c.owned
  BY <1>1 DEF Call
<1>3. call' = [call EXCEPT ![w] = d]
  BY <1>1 DEF Goto
<1>4. QED
  BY <1>2, <1>3, OneCall DEF Apart

LEMMA StaysIs ==
    ASSUME TypeInv, NEW w \in Worker, call[w].pc \in InLoop,
           NEW phase \in InLoop, Goto(w, call[w], phase),
           phase = "steps" => Draft(Current(w))
    PROVE  Stays(w) /\ call'[w].pc = phase
<1>1. PICK c : c = call[w]
  OBVIOUS
<1>2. c \in Call /\ phase \in Phase
  BY <1>1, OneCall DEF InLoop, Phase
<1>3. /\ Apart(w)
      /\ call'[w].pc = phase /\ call'[w].todo = call[w].todo
      /\ Carries(w)
  BY <1>1, <1>2, GotoIs DEF Carries
<1>4. Current(w)' = Current(w)
  BY <1>3 DEF Current
<1>5. call[w].todo # << >> /\ call[w].today \in Day
  BY OneCall DEF Locals
<1>6. Draft(Current(w))' <=> Draft(Current(w))
  BY <1>4 DEF Draft
<1>7. Locals(w)'
  BY <1>3, <1>5, <1>6 DEF Locals, Carries, InLoop, AfterLoop
<1>8. QED
  BY <1>3, <1>7 DEF Stays

LEMMA TroubleGrows ==
    ASSUME TypeInv
    PROVE  /\ trouble \in [giveUps : 0..MaxGiveUp, crashes : 0..MaxCrash,
                           failures : 0..MaxFailure]
           /\ trouble.giveUps < MaxGiveUp =>
                 [trouble EXCEPT !.giveUps = @ + 1] \in
                    [giveUps : 0..MaxGiveUp, crashes : 0..MaxCrash,
                     failures : 0..MaxFailure]
           /\ trouble.crashes < MaxCrash =>
                 [trouble EXCEPT !.crashes = @ + 1] \in
                    [giveUps : 0..MaxGiveUp, crashes : 0..MaxCrash,
                     failures : 0..MaxFailure]
           /\ trouble.failures < MaxFailure =>
                 [trouble EXCEPT !.failures = @ + 1] \in
                    [giveUps : 0..MaxGiveUp, crashes : 0..MaxCrash,
                     failures : 0..MaxFailure]
<1>1. MaxGiveUp \in Nat /\ MaxCrash \in Nat /\ MaxFailure \in Nat
  BY ProgressConstants
<1>2. trouble \in [giveUps : 0..MaxGiveUp, crashes : 0..MaxCrash,
                   failures : 0..MaxFailure]
  BY DEF TypeInv, TypeOK
<1>3. QED
  BY <1>1, <1>2

LEMMA CompleteIs ==
    ASSUME TypeInv, NEW a \in Attempt, Complete(a)
    PROVE  Elsewhere
<1> DEFINE drafts == Drafts(Item[a].lesson)
<1>1. drafts \subseteq Attempt /\ \A b \in drafts : Draft(b)
  BY DEF Drafts
<1> HIDE DEF drafts
<1>2. PICK more \in SUBSET drafts : more = IF Draft(a) THEN {} ELSE drafts
  OBVIOUS
<1>3. fresh' = fresh \ ({a} \cup more) /\ buffer' = (buffer \ drafts) \cup {a}
  BY <1>1, <1>2 DEF Complete, drafts
<1>4. buffer \subseteq Attempt /\ fresh \subseteq Attempt /\ day \in Day
  BY DEF TypeInv, TypeOK
<1>5. IsFiniteSet(buffer \ drafts)
  BY FS_Difference DEF TypeInv
<1>6. IsFiniteSet(buffer')
  BY <1>3, <1>5, FS_AddElement
<1>7. ASSUME NEW b \in Attempt, Sent(b)', ~Draft(b)
      PROVE  Sent(b)
  BY <1>1, <1>2, <1>3, <1>7 DEF Sent
<1>8. trouble' = trouble /\ waiting' = waiting /\ day' = day
  BY DEF Complete
<1>9. UNCHANGED <<store, Rows, call, strays>>
  BY DEF Complete, Rows, history
<1>10. day <= day'
  BY <1>4, <1>8, ProgressConstants DEF Day
<1>11. InOrder' => InOrder
  BY <1>8 DEF InOrder
<1>12. QED
  BY <1>3, <1>4, <1>6, <1>7, <1>8, <1>9, <1>10, <1>11, TroubleGrows DEF Elsewhere

LEMMA GiveUpIs ==
    ASSUME TypeInv, GiveUp
    PROVE  Elsewhere
<1>1. UNCHANGED <<store, Rows, call, strays>> /\ day' = day /\ fresh' = fresh
      /\ buffer' = buffer /\ waiting' = None /\ waiting # None
  BY DEF GiveUp, Rows, history
<1>2. buffer \subseteq Attempt /\ fresh \subseteq Attempt /\ day \in Day
      /\ IsFiniteSet(buffer)
  BY DEF TypeInv, TypeOK
<1>3. day <= day'
  BY <1>1, <1>2, ProgressConstants DEF Day
<1>4. \A a \in Attempt : Sent(a)' => Sent(a)
  BY <1>1 DEF Sent
<1>5. CASE At(waiting, "idle")
  <2>1. trouble' = trouble
    BY <1>5 DEF GiveUp
  <2>2. InOrder' => InOrder
    BY <2>1 DEF InOrder
  <2>3. QED
    BY <1>1, <1>2, <1>3, <1>4, <1>5, <2>1, <2>2, TroubleGrows DEF Elsewhere
<1>6. CASE ~At(waiting, "idle")
  <2>1. trouble.giveUps < MaxGiveUp /\ trouble' = [trouble EXCEPT !.giveUps = @ + 1]
    BY <1>6 DEF GiveUp
  <2>2. trouble'.giveUps = trouble.giveUps + 1
    BY <2>1, TroubleGrows
  <2>3. ~InOrder'
    BY <2>2, TroubleGrows DEF InOrder
  <2>4. QED
    BY <1>1, <1>2, <1>3, <1>4, <2>1, <2>3, TroubleGrows DEF Elsewhere
<1>7. QED
  BY <1>5, <1>6

LEMMA MidnightIs ==
    ASSUME TypeInv, Midnight \/ UNCHANGED vars
    PROVE  Elsewhere
<1>1. UNCHANGED <<store, Rows, call, strays, client, trouble>>
  BY DEF Midnight, Rows, history, vars
<1>2. buffer \subseteq Attempt /\ fresh \subseteq Attempt /\ day \in Day
      /\ IsFiniteSet(buffer)
  BY DEF TypeInv, TypeOK
<1>3. day' \in Day /\ day <= day'
  BY <1>2, ProgressConstants DEF Day, Midnight, vars
<1>4. \A a \in Attempt : Sent(a)' => Sent(a)
  BY <1>1 DEF Sent, client
<1>5. InOrder' => InOrder
  BY <1>1 DEF InOrder
<1>6. QED
  BY <1>1, <1>2, <1>3, <1>4, <1>5, TroubleGrows DEF Elsewhere, client

LEMMA SendIs ==
    ASSUME TypeInv, NEW w \in Worker, Send(w)
    PROVE  Sends(w)
<1>1. PICK check \in BOOLEAN, batch \in SetToSeqs(buffer) :
         call' = [call EXCEPT ![w].pc = "read", ![w].todo = batch, ![w].check = check]
  BY DEF Send
<1>2. Cardinality(buffer) \in Nat /\ (Cardinality(buffer) = 0 <=> buffer = {})
  BY FS_CardinalityType, FS_EmptySet DEF TypeInv
<1>3. batch \in [1..Cardinality(buffer) -> Attempt] /\ batch \in Seq(Attempt)
  <2>1. batch \in [1..Cardinality(buffer) -> buffer]
    BY DEF SetToSeqs
  <2>2. batch \in [1..Cardinality(buffer) -> Attempt]
    BY <2>1 DEF TypeInv, TypeOK
  <2>3. QED
    BY <1>2, <2>2, SeqDef
<1>4. Len(batch) = Cardinality(buffer) /\ batch # << >>
  <2>1. buffer # {}
    BY DEF Send
  <2>2. Len(batch) = Cardinality(buffer)
    BY <1>2, <1>3, LenProperties
  <2>3. QED
    BY <1>2, <2>1, <2>2, EmptySeq
<1>5. /\ call[w] \in Call /\ call[w].pc = "idle"
      /\ call[w].done = {} /\ call[w].earned = {}
  BY OneCall DEF Send, At, Locals
<1>6. PICK d : d = [[[call[w] EXCEPT !.pc = "read"] EXCEPT !.todo = batch]
                       EXCEPT !.check = check]
  OBVIOUS
<1>7. call' = [call EXCEPT ![w] = d]
  BY <1>1, <1>5, <1>6, OneCall DEF Call
<1>8. /\ d \in Call /\ d.pc = "read" /\ d.todo = batch
      /\ d.done = {} /\ d.earned = {}
  BY <1>3, <1>5, <1>6 DEF Call, Phase
<1>9. call'[w] = d /\ Apart(w)
  BY <1>7, <1>8, OneCall DEF Apart
<1>10. Locals(w)'
  BY <1>4, <1>8, <1>9 DEF Locals, InLoop, AfterLoop
<1>11. QED
  BY <1>5, <1>8, <1>9, <1>10 DEF Sends, Send, At, Rows, history

LEMMA ReadUserIs ==
    ASSUME TypeInv, NEW w \in Worker, ReadUser(w)
    PROVE  Starts(w)
<1>1. /\ call[w] \in Call /\ call[w].pc = "read" /\ call[w].todo # << >>
      /\ call[w].done = {} /\ call[w].earned = {}
  BY OneCall DEF ReadUser, At, Locals
<1>2. user \in UserRow /\ day \in Day
  BY DEF TypeInv, TypeOK
<1>3. PICK d : d = [[[call[w] EXCEPT !.pc = "item"] EXCEPT !.base = user]
                       EXCEPT !.today = day]
  OBVIOUS
<1>4. call' = [call EXCEPT ![w] = d]
  BY <1>1, <1>3, OneCall DEF Call, ReadUser
<1>5. /\ d \in Call /\ d.pc = "item" /\ d.todo = call[w].todo
      /\ d.done = {} /\ d.earned = {}
  BY <1>1, <1>2, <1>3 DEF Call, Phase
<1>6. d.base = user /\ d.today = day
  BY <1>1, <1>3 DEF Call
<1>7. call'[w] = d /\ Apart(w)
  BY <1>4, <1>5, OneCall DEF Apart
<1>8. Locals(w)'
  BY <1>1, <1>2, <1>5, <1>6, <1>7 DEF Locals, InLoop, AfterLoop
<1>9. QED
  BY <1>1, <1>5, <1>6, <1>7, <1>8 DEF Starts, ReadUser, At, Rows, Outside, history

LEMMA CheckAttemptIs ==
    ASSUME TypeInv, NEW w \in Worker, CheckAttempt(w)
    PROVE  Repeats(w) \/ Redrafts(w) \/ Skips(w) \/ TakesUp(w)
<1>1. /\ call[w] \in Call /\ call[w].pc = "item" /\ call[w].pc \in InLoop
      /\ call[w].done \subseteq Attempt
  BY OneCall DEF CheckAttempt, At, InLoop
<1>2. PICK c : c = call[w]
  OBVIOUS
<1>3. /\ c \in Call /\ c.todo = call[w].todo /\ c.base = call[w].base
      /\ c.today = call[w].today /\ c.done = call[w].done /\ c.earned = call[w].earned
  BY <1>1, <1>2
<1>4. UNCHANGED <<Outside, store, Rows>>
  BY DEF CheckAttempt, Outside, Rows
<1>5. CASE AlreadyProcessed(Current(w)) /\ Replay(w) /\ UNCHANGED strays
  <2>1. Advances(w) /\ call'[w].done = c.done \cup {Current(w)}
        /\ call'[w].earned = c.earned
    BY <1>1, <1>2, <1>3, <1>5, AcceptIs DEF Replay
  <2>2. Marked(Current(w))
    BY <1>5 DEF AlreadyProcessed, Marked
  <2>3. QED
    BY <1>1, <1>3, <1>4, <1>5, <2>1, <2>2 DEF Repeats
<1>6. CASE /\ applied[Current(w)] # None /\ Draft(Current(w))
           /\ Goto(w, call[w], "steps") /\ UNCHANGED strays
  <2>1. Stays(w) /\ call'[w].pc = "steps"
    BY <1>1, <1>6, StaysIs DEF InLoop
  <2>2. QED
    BY <1>1, <1>4, <1>6, <2>1 DEF Redrafts, At
<1>7. CASE NextItem(w, call[w]) /\ UNCHANGED strays
  <2>1. Advances(w) /\ call'[w].done = c.done /\ call'[w].earned = c.earned
    BY <1>1, <1>2, <1>3, <1>7, NextIs
  <2>2. Carries(w)
    BY <1>3, <2>1 DEF Carries, Advances
  <2>3. trouble' = trouble /\ UNCHANGED <<client, day, store, Rows>>
    BY <1>4 DEF Outside
  <2>4. InOrder' => InOrder
    BY <2>3 DEF InOrder
  <2>5. QED
    BY <1>1, <1>7, <2>1, <2>2, <2>3, <2>4, TroubleGrows DEF Skips
<1>8. CASE /\ \/ applied[Current(w)] = None /\ Item[Current(w)].long
                   /\ Goto(w, call[w], "put")
              \/ /\ applied[Current(w)] # None /\ ~Draft(Current(w))
                 /\ ~AlreadyProcessed(Current(w))
                 /\ Goto(w, call[w], "lesson")
           /\ strays' = IF TakenUp(w, Current(w))
                        THEN [strays EXCEPT ![Current(w)] = @ + 1] ELSE strays
  <2>1. CASE applied[Current(w)] = None /\ Goto(w, call[w], "put")
    <3>1. Stays(w) /\ call'[w].pc = "put"
      BY <1>1, <2>1, StaysIs DEF InLoop
    <3>2. ~Marked(Current(w))
      <4>1. None # TRUE
        BY ProgressConstants
      <4>2. QED
        BY <2>1, <4>1 DEF Marked
    <3>3. QED
      BY <1>1, <1>4, <1>8, <3>1, <3>2 DEF TakesUp, At
  <2>2. CASE /\ applied[Current(w)] # None /\ ~Draft(Current(w))
             /\ ~AlreadyProcessed(Current(w))
             /\ Goto(w, call[w], "lesson")
    <3>1. Stays(w) /\ call'[w].pc = "lesson"
      BY <1>1, <2>2, StaysIs DEF InLoop
    <3>2. ~Marked(Current(w)) /\ Known(Current(w))
      BY <2>2 DEF AlreadyProcessed, Marked, Known
    <3>3. QED
      BY <1>1, <1>4, <1>8, <3>1, <3>2 DEF TakesUp, At
  <2>3. QED
    BY <1>8, <2>1, <2>2
<1>9. QED
  BY <1>5, <1>6, <1>7, <1>8 DEF CheckAttempt

LEMMA UpdateStepsIs ==
    ASSUME TypeInv, NEW w \in Worker, UpdateSteps(w)
    PROVE  Repeats(w)
<1>1. /\ call[w] \in Call /\ call[w].pc = "steps" /\ call[w].pc \in InLoop
      /\ Draft(Current(w))
  BY OneCall DEF UpdateSteps, At, InLoop, Locals
<1>2. PICK c : c = call[w]
  OBVIOUS
<1>3. Accept(w, c)
  BY <1>2 DEF UpdateSteps
<1>4. Advances(w) /\ call'[w].done = call[w].done \cup {Current(w)}
      /\ call'[w].earned = call[w].earned
  BY <1>1, <1>2, <1>3, AcceptIs
<1>5. UNCHANGED <<Outside, store, Rows, strays>>
  BY DEF UpdateSteps, Outside, Rows, history
<1>6. QED
  BY <1>1, <1>4, <1>5 DEF Repeats

LEMMA PutAttemptIs ==
    ASSUME TypeInv, NEW w \in Worker, PutAttempt(w)
    PROVE  Puts(w)
<1>1. call[w].pc = "put" /\ call[w].pc \in InLoop
  BY DEF PutAttempt, At, InLoop
<1>2. PICK a \in Attempt : a = Current(w)
  BY <1>1, CurrentIs
<1>3. Stays(w) /\ call'[w].pc = "lesson"
  BY <1>1, StaysIs DEF InLoop, PutAttempt
<1>4. applied \in [Attempt -> BOOLEAN \cup {None}] /\ log \subseteq Range(Key)
  BY DEF TypeInv, TypeOK
<1>5. Key[a] \in Range(Key)
  BY ProgressConstants DEF Range
<1>6. UNCHANGED <<Outside, lessons, days, Rows, strays>>
  BY DEF PutAttempt, Outside, Rows, history
<1>7. None # FALSE /\ None # TRUE /\ TRUE # FALSE
  BY ProgressConstants
<1>8. CASE Key[a] \notin log /\ applied[a] = None
  <2>1. log' = log \cup {Key[a]} /\ applied' = [applied EXCEPT ![a] = FALSE]
    BY <1>2, <1>8 DEF PutAttempt
  <2>2. applied'[a] = FALSE /\ \A b \in Attempt \ {a} : applied'[b] = applied[b]
    BY <1>4, <2>1
  <2>3. applied' \in [Attempt -> BOOLEAN \cup {None}]
    BY <1>4, <2>1
  <2>4. ~Marked(a) /\ ~Known(a)
    BY <1>7, <1>8 DEF Marked, Known
  <2>5. ~Marked(a)' /\ Known(a)'
    BY <1>7, <2>2 DEF Marked, Known
  <2>6. \A b \in Attempt \ {a} : Marked(b)' <=> Marked(b)
    BY <2>2 DEF Marked
  <2>7. \A b \in Attempt : Marked(b)' <=> Marked(b)
    BY <2>4, <2>5, <2>6
  <2>8. applied'[Current(w)] # None
    BY <1>2, <1>7, <2>2
  <2>9. log' = log \cup {Key[Current(w)]} /\ log' \subseteq Range(Key)
    BY <1>2, <1>4, <1>5, <2>1
  <2>10. QED
    BY <1>1, <1>2, <1>3, <1>6, <2>2, <2>3, <2>4, <2>7, <2>8, <2>9 DEF Puts, At
<1>9. CASE ~(Key[a] \notin log /\ applied[a] = None)
  <2>1. log' = log /\ applied' = applied
    BY <1>2, <1>9 DEF PutAttempt
  <2>2. Key[Current(w)] \in log \/ Known(Current(w))
    BY <1>2, <1>9 DEF Known
  <2>3. \A b \in Attempt : Marked(b)' <=> Marked(b)
    BY <2>1 DEF Marked
  <2>4. QED
    BY <1>1, <1>3, <1>4, <1>6, <2>1, <2>2, <2>3 DEF Puts, At
<1>10. QED
  BY <1>8, <1>9

LEMMA RollupsAre ==
    ASSUME TypeInv, NEW w \in Worker
    PROVE  /\ UpdateLessonRollup(w) => CountsLesson(w)
           /\ UpdateDayRollup(w) => CountsDay(w)
<1>1. CASE UpdateLessonRollup(w)
  <2>1. call[w].pc = "lesson" /\ call[w].pc \in InLoop /\ Goto(w, call[w], "day")
    BY <1>1 DEF UpdateLessonRollup, At, InLoop
  <2>2. Stays(w) /\ call'[w].pc = "day"
    BY <2>1, StaysIs DEF InLoop
  <2>3. QED
    BY <1>1, <2>1, <2>2
       DEF UpdateLessonRollup, CountsLesson, Outside, Rows, history, At, UpdateDayRollup
<1>2. CASE UpdateDayRollup(w)
  <2>1. call[w].pc = "day" /\ call[w].pc \in InLoop /\ Goto(w, call[w], "mark")
    BY <1>2 DEF UpdateDayRollup, At, InLoop
  <2>2. Stays(w) /\ call'[w].pc = "mark"
    BY <2>1, StaysIs DEF InLoop
  <2>3. QED
    BY <1>2, <2>1, <2>2
       DEF UpdateDayRollup, CountsDay, Outside, Rows, history, At, UpdateLessonRollup
<1>3. QED
  BY <1>1, <1>2

LEMMA MarkIs ==
    ASSUME TypeInv, NEW w \in Worker, MarkRollupApplied(w)
    PROVE  Marks(w)
<1>1. call[w].pc = "mark" /\ call[w].pc \in InLoop /\ call[w] \in Call
  BY OneCall DEF MarkRollupApplied, At, InLoop
<1>2. PICK a \in Attempt : a = Current(w)
  BY <1>1, CurrentIs
<1>3. PICK c : c = [call[w] EXCEPT !.earned = IF Pays(a) THEN @ \cup {a} ELSE @]
  OBVIOUS
<1>4. c \in Call
  <2>1. CASE Pays(a)
    BY <1>1, <1>2, <1>3, <2>1 DEF Call
  <2>2. CASE ~Pays(a)
    BY <1>1, <1>3, <2>2 DEF Call
  <2>3. QED
    BY <2>1, <2>2
<1>5. /\ c.todo = call[w].todo /\ c.base = call[w].base
      /\ c.today = call[w].today /\ c.done = call[w].done
      /\ c.earned = call[w].earned \cup (IF Pays(a) THEN {a} ELSE {})
  BY <1>1, <1>3 DEF Call
<1>6. Accept(w, c)
  BY <1>2, <1>3 DEF MarkRollupApplied
<1>7. /\ Advances(w)
      /\ call'[w].done = call[w].done \cup {a}
      /\ call'[w].earned = call[w].earned \cup (IF Pays(a) THEN {a} ELSE {})
  BY <1>1, <1>2, <1>4, <1>5, <1>6, AcceptIs
<1>8. applied \in [Attempt -> BOOLEAN \cup {None}]
  BY DEF TypeInv, TypeOK
<1>9. applied' = [applied EXCEPT ![a] = IF @ = None THEN None ELSE TRUE]
  BY <1>2 DEF MarkRollupApplied
<1>10. /\ applied' \in [Attempt -> BOOLEAN \cup {None}]
       /\ \A b \in Attempt \ {a} : applied'[b] = applied[b]
       /\ applied'[a] = IF applied[a] = None THEN None ELSE TRUE
  BY <1>8, <1>9
<1>11. None # TRUE
  BY ProgressConstants
<1>12. /\ applied[a] # None => applied'[a] = TRUE
       /\ applied'[a] = TRUE => applied[a] # None
       /\ \A b \in Attempt : applied'[b] # None <=> applied[b] # None
  BY <1>10, <1>11
<1>13. UNCHANGED <<client, day, trouble, log, lessons, days, user, freezes,
                   activeDays, unheard, strays>>
  BY DEF MarkRollupApplied, history
<1>14. InOrder' <=> InOrder
  BY <1>13 DEF InOrder
<1>15. QED
  BY <1>1, <1>2, <1>7, <1>10, <1>12, <1>13, <1>14, TroubleGrows
     DEF Marks, At, Marked, Known

LEMMA FailAfterMarkIs ==
    ASSUME TypeInv, NEW w \in Worker, FailAfterMark(w)
    PROVE  Marks(w)
<1>1. call[w].pc = "mark" /\ call[w].pc \in InLoop /\ call[w] \in Call
  BY OneCall DEF FailAfterMark, At, InLoop
<1>2. PICK a \in Attempt : a = Current(w)
  BY <1>1, CurrentIs
<1>3. PICK c : c = call[w]
  OBVIOUS
<1>4. NextItem(w, c)
  BY <1>3 DEF FailAfterMark
<1>5. Advances(w) /\ call'[w].done = call[w].done /\ call'[w].earned = call[w].earned
  BY <1>1, <1>3, <1>4, NextIs
<1>6. Carries(w)
  BY <1>5 DEF Advances, Carries
<1>7. applied[a] # None /\ applied' = [applied EXCEPT ![a] = TRUE]
  BY <1>2 DEF FailAfterMark
<1>8. None # TRUE /\ applied \in [Attempt -> BOOLEAN \cup {None}]
  BY ProgressConstants DEF TypeInv, TypeOK
<1>9. /\ applied' \in [Attempt -> BOOLEAN \cup {None}]
      /\ applied'[a] = TRUE
      /\ \A b \in Attempt \ {a} : applied'[b] = applied[b]
      /\ \A b \in Attempt : applied'[b] # None <=> applied[b] # None
  BY <1>7, <1>8
<1>10. /\ trouble' \in [giveUps : 0..MaxGiveUp, crashes : 0..MaxCrash,
                        failures : 0..MaxFailure]
       /\ trouble'.giveUps = trouble.giveUps /\ trouble'.crashes = trouble.crashes
  BY TroubleGrows DEF FailAfterMark
<1>11. InOrder' => InOrder
  BY <1>10 DEF InOrder
<1>12. /\ unheard' = unheard \cup {a}
       /\ UNCHANGED <<client, day, log, lessons, days, user, freezes, activeDays, strays>>
  BY <1>2 DEF FailAfterMark
<1>13. QED
  BY <1>1, <1>2, <1>5, <1>6, <1>7, <1>9, <1>10, <1>11, <1>12 DEF Marks, At, Known

LEMMA FailIs ==
    ASSUME TypeInv, NEW w \in Worker, Fail(w)
    PROVE  Skips(w)
<1>1. call[w] \in Call /\ call[w].pc \in InLoop
  BY OneCall DEF Fail, InLoop
<1>2. PICK c : c = call[w]
  OBVIOUS
<1>3. NextItem(w, c)
  BY <1>2 DEF Fail
<1>4. Advances(w) /\ call'[w].done = call[w].done /\ call'[w].earned = call[w].earned
  BY <1>1, <1>2, <1>3, NextIs
<1>5. Carries(w)
  BY <1>4 DEF Advances, Carries
<1>6. /\ trouble' \in [giveUps : 0..MaxGiveUp, crashes : 0..MaxCrash,
                       failures : 0..MaxFailure]
      /\ trouble'.giveUps = trouble.giveUps /\ trouble'.crashes = trouble.crashes
  <2>1. CASE trouble' = trouble
    BY <2>1, TroubleGrows
  <2>2. CASE trouble.failures < MaxFailure
             /\ trouble' = [trouble EXCEPT !.failures = @ + 1]
    BY <2>2, TroubleGrows
  <2>3. QED
    BY <2>1, <2>2 DEF Fail
<1>7. InOrder' => InOrder
  BY <1>6 DEF InOrder
<1>8. \/ call[w].pc \notin {"day", "mark"} /\ strays' = strays
      \/ strays' = [strays EXCEPT ![Current(w)] = @ + 1]
  BY DEF Fail
<1>9. UNCHANGED <<client, day, store, Rows>>
  BY DEF Fail, Rows
<1>10. QED
  BY <1>4, <1>5, <1>6, <1>7, <1>8, <1>9 DEF Skips

\* The streak that a step leaves on the row to write.
LEMMA WithStreakIs ==
    ASSUME TypeInv, NEW w \in Worker, call[w].pc \in {"settle", "freezes", "spend"},
           NEW n \in {1, call[w].base.streak + 1},
           Goto(w, WithStreak(call[w], n), "write")
    PROVE  /\ Apart(w) /\ call'[w].pc = "write"
           /\ call'[w].done = call[w].done /\ call'[w].earned = call[w].earned
           /\ call'[w].base.xp = call[w].base.xp /\ call'[w].today = call[w].today
           /\ Credits(w) /\ Locals(w)'
<1>1. /\ call[w] \in Call /\ call[w].base \in UserRow
      /\ call[w].today \in Day
  BY OneCall DEF Locals, AfterLoop
<1>2. PICK r : r = [xp |-> call[w].base.xp, streak |-> n,
                    best |-> IF n > call[w].base.best THEN n ELSE call[w].base.best,
                    last |-> call[w].today]
  OBVIOUS
<1>3. r \in UserRow
  BY <1>1, <1>2 DEF UserRow
<1>4. /\ r.xp = call[w].base.xp /\ r.streak = n /\ r.last = call[w].today
      /\ r.streak <= r.best
  BY <1>1, <1>2 DEF UserRow
<1>5. PICK c : c = [call[w] EXCEPT !.base = r]
  OBVIOUS
<1>6. /\ c \in Call /\ c.base = r /\ c.done = call[w].done /\ c.earned = call[w].earned
      /\ c.today = call[w].today
  BY <1>1, <1>3, <1>5 DEF Call
<1>7. WithStreak(call[w], n) = c
  <2>1. PICK e \in Call : e = call[w]
    BY <1>1
  <2>2. PICK e1 : e1 = [e EXCEPT !.base.streak = n]
    OBVIOUS
  <2>3. PICK b1 : b1 = [e.base EXCEPT !.streak = n]
    OBVIOUS
  <2>4. PICK e2 : e2 = [e1 EXCEPT !.base.last = e.today]
    OBVIOUS
  <2>5. PICK b2 : b2 = [b1 EXCEPT !.last = e.today]
    OBVIOUS
  <2>6. PICK e3 : e3 = [e2 EXCEPT !.base.best = IF n > @ THEN n ELSE @]
    OBVIOUS
  <2>7. PICK b3 : b3 = [b2 EXCEPT !.best = IF n > @ THEN n ELSE @]
    OBVIOUS
  <2>8. e1 = [e EXCEPT !.base = b1]
    BY <2>2, <2>3 DEF Call
  <2>9. e2 = [e EXCEPT !.base = b2]
    BY <2>4, <2>5, <2>8 DEF Call
  <2>10. e3 = [e EXCEPT !.base = b3]
    BY <2>6, <2>7, <2>9 DEF Call
  <2>11. b3 = r
    <3>1. PICK b \in UserRow : b = e.base
      BY <1>1, <2>1
    <3>2. b1 = [xp |-> b.xp, streak |-> n, best |-> b.best, last |-> b.last]
      BY <2>3, <3>1 DEF UserRow
    <3>3. b2 = [xp |-> b.xp, streak |-> n, best |-> b.best, last |-> e.today]
      BY <2>5, <3>2
    <3>4. b3 = [xp |-> b.xp, streak |-> n, best |-> IF n > b.best THEN n ELSE b.best,
                last |-> e.today]
      BY <2>7, <3>3
    <3>5. QED
      BY <1>2, <2>1, <3>1, <3>4
  <2>12. WithStreak(e, n) = e3
    BY <2>2, <2>4, <2>6 DEF WithStreak
  <2>13. QED
    BY <1>5, <2>1, <2>10, <2>11, <2>12
<1>8. Goto(w, c, "write")
  BY <1>7
<1>9. /\ Apart(w) /\ call'[w].pc = "write" /\ call'[w].base = r
      /\ call'[w].done = call[w].done /\ call'[w].earned = call[w].earned
      /\ call'[w].today = call[w].today
  BY <1>6, <1>8, GotoIs DEF Phase
<1>10. Locals(w)'
  BY <1>1, <1>9 DEF Locals, InLoop, AfterLoop
<1>11. Credits(w)
  BY <1>4, <1>9 DEF Credits
<1>12. QED
  BY <1>4, <1>9, <1>10, <1>11

\* A step that leaves the row to write alone.
LEMMA PassesOn ==
    ASSUME TypeInv, NEW w \in Worker, call[w].pc \in AfterLoop,
           NEW phase \in {"freezes", "write", "answer"}, NEW n \in 0..MaxGap,
           Goto(w, [call[w] EXCEPT !.missed = n], phase)
    PROVE  /\ Apart(w) /\ call'[w].pc = phase
           /\ Carries(w) /\ Locals(w)'
<1>1. call[w] \in Call /\ call[w].today \in Day
  BY OneCall DEF Locals
<1>2. PICK c : c = [call[w] EXCEPT !.missed = n]
  OBVIOUS
<1>3. c \in Call /\ c.base = call[w].base /\ c.done = call[w].done
      /\ c.earned = call[w].earned /\ c.today = call[w].today
  BY <1>1, <1>2 DEF Call
<1>4. Goto(w, c, phase)
  BY <1>2
<1>5. Apart(w) /\ call'[w].pc = phase /\ Carries(w)
  BY <1>3, <1>4, GotoIs DEF Phase, Carries
<1>6. Locals(w)'
  BY <1>1, <1>5 DEF Locals, Carries, InLoop, AfterLoop
<1>7. QED
  BY <1>5, <1>6

LEMMA WriteOrAnswerIs ==
    ASSUME TypeInv, NEW w \in Worker, call[w].pc \in AfterLoop,
           NEW phase \in {"write", "answer"}, Goto(w, call[w], phase)
    PROVE  /\ Apart(w) /\ call'[w].pc = phase
           /\ Carries(w) /\ Locals(w)'
<1>1. call[w] \in Call /\ call[w].missed \in 0..MaxGap
  BY OneCall
<1>2. [call[w] EXCEPT !.missed = call[w].missed] = call[w]
  BY <1>1 DEF Call
<1>3. PICK n \in 0..MaxGap : n = call[w].missed
  BY <1>1
<1>4. Goto(w, [call[w] EXCEPT !.missed = n], phase)
  BY <1>2, <1>3
<1>5. QED
  BY <1>4, PassesOn

LEMMA SettleIs ==
    ASSUME TypeInv, NEW w \in Worker, Settle(w)
    PROVE  Settles(w)
<1>1. call[w].pc = "settle" /\ call[w].pc \in AfterLoop /\ call[w] \in Call
      /\ call[w].today \in Day
  BY OneCall DEF Settle, At, AfterLoop, Locals
<1>2. /\ UNCHANGED <<Outside, store, user, unheard, strays>>
      /\ freezes' \in 0..Freezes
  BY DEF Settle, Outside, TypeInv, TypeOK
<1>3. /\ activeDays \subseteq activeDays' /\ activeDays' \subseteq Day
      /\ call[w].done # {} => call[w].today \in activeDays'
  BY <1>1 DEF Settle, TypeInv, TypeOK
<1>4. CASE StreakStands(call[w])
  <2>1. WriteOrAnswer(w)
    BY <1>4 DEF Settle
  <2>2. PICK phase \in {"write", "answer"} :
          /\ Goto(w, call[w], phase)
          /\ phase = "answer" => call[w].earned = {}
    BY <2>1 DEF WriteOrAnswer
  <2>3. Apart(w) /\ call'[w].pc = phase /\ Carries(w) /\ Locals(w)'
    BY <1>1, <2>2, WriteOrAnswerIs
  <2>4. QED
    BY <1>1, <1>2, <1>3, <2>2, <2>3 DEF Settles, Carries, At
<1>5. CASE ~StreakStands(call[w])
  <2>1. call[w].today \in activeDays' /\ call[w].base.last # call[w].today
    BY <1>3, <1>5 DEF StreakStands
  <2>2. CASE \/ Goto(w, WithStreak(call[w], call[w].base.streak + 1), "write")
             \/ Goto(w, WithStreak(call[w], 1), "write")
    <3>1. PICK n \in {1, call[w].base.streak + 1} :
            Goto(w, WithStreak(call[w], n), "write")
      BY <2>2
    <3>2. /\ Apart(w) /\ call'[w].pc = "write"
          /\ call'[w].done = call[w].done /\ call'[w].earned = call[w].earned
          /\ call'[w].base.xp = call[w].base.xp /\ call'[w].today = call[w].today
          /\ Credits(w) /\ Locals(w)'
      BY <1>1, <3>1, WithStreakIs
    <3>3. QED
      BY <1>1, <1>2, <1>3, <2>1, <3>2 DEF Settles, At
  <2>3. CASE \E missed \in 1..MaxGap :
                Goto(w, [call[w] EXCEPT !.missed = missed], "freezes")
    <3>1. PICK n \in 1..MaxGap : Goto(w, [call[w] EXCEPT !.missed = n], "freezes")
      BY <2>3
    <3>2. n \in 0..MaxGap
      BY ProgressConstants
    <3>3. Apart(w) /\ call'[w].pc = "freezes" /\ Carries(w) /\ Locals(w)'
      BY <1>1, <3>1, <3>2, PassesOn
    <3>4. QED
      BY <1>1, <1>2, <1>3, <2>1, <3>3 DEF Settles, Carries, At
  <2>4. QED
    BY <1>5, <2>2, <2>3 DEF Settle
<1>6. QED
  BY <1>4, <1>5

LEMMA ReadFreezesIs ==
    ASSUME TypeInv, NEW w \in Worker, ReadFreezes(w)
    PROVE  Settles(w)
<1>1. call[w].pc = "freezes" /\ call[w].pc \in AfterLoop /\ call[w] \in Call
      /\ call[w].today \in Day
  BY OneCall DEF ReadFreezes, At, AfterLoop, Locals
<1>2. /\ UNCHANGED <<Outside, store, user, unheard, strays>>
      /\ freezes' \in 0..Freezes /\ activeDays' = activeDays /\ activeDays \subseteq Day
  BY DEF ReadFreezes, Outside, history, TypeInv, TypeOK
<1>3. CASE freezes >= call[w].missed
  <2>1. PICK c : c = [call[w] EXCEPT !.owned = freezes]
    OBVIOUS
  <2>2. c \in Call
    BY <1>1, <2>1 DEF Call, TypeInv, TypeOK
  <2>3. /\ c.owned = freezes /\ c.missed = call[w].missed
        /\ c.base = call[w].base /\ c.done = call[w].done
        /\ c.earned = call[w].earned /\ c.today = call[w].today
    BY <1>1, <2>1 DEF Call
  <2>4. Goto(w, c, "spend")
    BY <1>3, <2>1 DEF ReadFreezes
  <2>5. /\ Apart(w) /\ call'[w].pc = "spend" /\ Carries(w)
        /\ call'[w].owned = freezes /\ call'[w].missed = call[w].missed
    BY <2>2, <2>3, <2>4, GotoIs DEF Phase, Carries
  <2>6. call'[w].missed <= call'[w].owned
    BY <1>3, <2>5, OneCall, ProgressConstants DEF TypeInv, TypeOK
  <2>7. Locals(w)'
    BY <1>1, <2>5, <2>6 DEF Locals, Carries, InLoop, AfterLoop
  <2>8. QED
    BY <1>1, <1>2, <2>5, <2>7 DEF Settles, Carries, At
<1>4. CASE ~(freezes >= call[w].missed)
  <2>1. Goto(w, WithStreak(call[w], 1), "write")
    BY <1>4 DEF ReadFreezes
  <2>2. PICK n \in {1, call[w].base.streak + 1} : n = 1
    OBVIOUS
  <2>3. /\ Apart(w) /\ call'[w].pc = "write"
        /\ call'[w].done = call[w].done /\ call'[w].earned = call[w].earned
        /\ call'[w].base.xp = call[w].base.xp /\ call'[w].today = call[w].today
        /\ Credits(w) /\ Locals(w)'
    BY <1>1, <2>1, <2>2, WithStreakIs
  <2>4. QED
    BY <1>1, <1>2, <2>3 DEF Settles, At
<1>5. QED
  BY <1>3, <1>4

LEMMA SpendFreezesIs ==
    ASSUME TypeInv, NEW w \in Worker, SpendFreezes(w)
    PROVE  Settles(w)
<1>1. call[w].pc = "spend" /\ call[w] \in Call /\ call[w].missed <= call[w].owned
      /\ call[w].missed \in 0..MaxGap /\ call[w].owned \in 0..Freezes
      /\ call[w].base \in UserRow
  BY OneCall DEF SpendFreezes, At, Locals
<1>2. Freezes \in Nat /\ MaxGap \in Nat
  BY ProgressConstants
<1>3. freezes' = call[w].owned - call[w].missed
  BY DEF SpendFreezes
<1>4. freezes' \in 0..Freezes
  BY <1>1, <1>2, <1>3
<1>5. UNCHANGED <<Outside, store, user, unheard, strays>> /\ activeDays' = activeDays
      /\ activeDays \subseteq Day
  BY DEF SpendFreezes, Outside, history, TypeInv, TypeOK
<1>6. PICK n \in {1, call[w].base.streak + 1} : n = call[w].base.streak + 1
  OBVIOUS
<1>7. Goto(w, WithStreak(call[w], n), "write")
  BY <1>6 DEF SpendFreezes
<1>8. /\ Apart(w) /\ call'[w].pc = "write"
      /\ call'[w].done = call[w].done /\ call'[w].earned = call[w].earned
      /\ call'[w].base.xp = call[w].base.xp /\ call'[w].today = call[w].today
      /\ Credits(w) /\ Locals(w)'
  BY <1>1, <1>7, WithStreakIs
<1>9. QED
  BY <1>1, <1>4, <1>5, <1>8 DEF Settles, At

LEMMA WriteUserIs ==
    ASSUME TypeInv, NEW w \in Worker, WriteUser(w)
    PROVE  Writes(w)
<1>1. call[w].pc = "write" /\ call[w].pc \in AfterLoop
  BY DEF WriteUser, At, AfterLoop
<1>2. Apart(w) /\ call'[w].pc = "answer" /\ Carries(w) /\ Locals(w)'
  BY <1>1, WriteOrAnswerIs DEF WriteUser
<1>3. QED
  BY <1>1, <1>2 DEF Writes, WriteUser, Outside, history, At

\* The record of an idle worker.
LEMMA BlankIs ==
    /\ Blank \in Call
    /\ Blank.pc = "idle" /\ Blank.done = {} /\ Blank.earned = {}
<1>1. NewUser \in UserRow
  BY DEF NewUser, UserRow, Nothing, Rewards
<1>2. 0 \in 0..MaxGap /\ 0 \in 0..Freezes
  BY ProgressConstants
<1>3. << >> \in Seq(Attempt)
  OBVIOUS
<1>4. QED
  BY <1>1, <1>2, <1>3 DEF Blank, Call, Phase

LEMMA FinishIs ==
    ASSUME TypeInv, NEW w \in Worker, Finish(w)
    PROVE  Apart(w) /\ call'[w] = Blank
BY OneCall, BlankIs DEF Finish, Apart

LEMMA AnswerIs ==
    ASSUME TypeInv, NEW w \in Worker, Answer(w)
    PROVE  Answers(w)
<1>1. call[w].pc = "answer" /\ Apart(w) /\ call'[w] = Blank
  BY FinishIs DEF Answer, At
<1>2. UNCHANGED <<fresh, trouble, day, store, Rows, strays>>
  BY DEF Answer, Rows, history
<1>3. /\ waiting' = (IF waiting = w THEN None ELSE waiting)
      /\ buffer' \subseteq buffer
      /\ \A a \in buffer \ buffer' : ~Draft(a) /\ a \in call[w].done
  BY DEF Answer
<1>4. IsFiniteSet(buffer')
  BY <1>3, FS_Subset DEF TypeInv
<1>5. QED
  BY <1>1, <1>2, <1>3, <1>4 DEF Answers, At

LEMMA CrashIs ==
    ASSUME TypeInv, NEW w \in Worker, Crash(w)
    PROVE  Dies(w)
<1>1. Apart(w) /\ call'[w] = Blank
  BY FinishIs DEF Crash
<1>2. UNCHANGED <<client, day, store, Rows>>
  BY DEF Crash, Rows
<1>3. trouble.crashes < MaxCrash /\ trouble' = [trouble EXCEPT !.crashes = @ + 1]
  BY DEF Crash
<1>4. trouble' \in [giveUps : 0..MaxGiveUp, crashes : 0..MaxCrash,
                    failures : 0..MaxFailure]
      /\ trouble'.crashes = trouble.crashes + 1
  BY <1>3, TroubleGrows
<1>5. ~InOrder'
  BY <1>4, TroubleGrows DEF InOrder
<1>6. \/ call[w].pc \notin {"day", "mark"} /\ strays' = strays
      \/ call[w].pc \in {"day", "mark"}
            /\ strays' = [strays EXCEPT ![Current(w)] = @ + 1]
  BY DEF Crash
<1>7. QED
  BY <1>1, <1>2, <1>4, <1>5, <1>6 DEF Dies

\* Every step is of one of the kinds.
LEMMA StepCases ==
    ASSUME TypeInv, [Next]_vars
    PROVE  Elsewhere \/ \E w \in Worker : Serves(w)
<1>1. CASE \E a \in Attempt : Complete(a)
  BY <1>1, CompleteIs
<1>2. CASE GiveUp
  BY <1>2, GiveUpIs
<1>3. CASE Midnight \/ UNCHANGED vars
  BY <1>3, MidnightIs
<1>4. ASSUME NEW w \in Worker, Send(w) \/ Serve(w) \/ Crash(w)
      PROVE  Serves(w)
  <2>1. CASE Send(w)
    BY <2>1, SendIs DEF Serves
  <2>2. CASE ReadUser(w)
    BY <2>2, ReadUserIs DEF Serves
  <2>3. CASE CheckAttempt(w)
    BY <2>3, CheckAttemptIs DEF Serves
  <2>4. CASE UpdateSteps(w)
    BY <2>4, UpdateStepsIs DEF Serves
  <2>5. CASE PutAttempt(w)
    BY <2>5, PutAttemptIs DEF Serves
  <2>6. CASE UpdateLessonRollup(w)
    BY <2>6, RollupsAre DEF Serves
  <2>7. CASE UpdateDayRollup(w)
    BY <2>7, RollupsAre DEF Serves
  <2>8. CASE MarkRollupApplied(w)
    BY <2>8, MarkIs DEF Serves
  <2>9. CASE Settle(w)
    BY <2>9, SettleIs DEF Serves
  <2>10. CASE ReadFreezes(w)
    BY <2>10, ReadFreezesIs DEF Serves
  <2>11. CASE SpendFreezes(w)
    BY <2>11, SpendFreezesIs DEF Serves
  <2>12. CASE WriteUser(w)
    BY <2>12, WriteUserIs DEF Serves
  <2>13. CASE Answer(w)
    BY <2>13, AnswerIs DEF Serves
  <2>14. CASE Fail(w)
    BY <2>14, FailIs DEF Serves
  <2>15. CASE Crash(w)
    BY <2>15, CrashIs DEF Serves
  <2>16. CASE FailAfterMark(w)
    BY <2>16, FailAfterMarkIs DEF Serves
  <2>17. QED
    BY <1>4, <2>1, <2>2, <2>3, <2>4, <2>5, <2>6, <2>7, <2>8, <2>9, <2>10, <2>11,
       <2>12, <2>13, <2>14, <2>15, <2>16 DEF Serve
<1>5. QED
  BY <1>1, <1>2, <1>3, <1>4 DEF Next

-----------------------------------------------------------------------------
(* Type correctness.                                                       *)

LEMMA TypeStarts ==
    ASSUME Init
    PROVE  TypeInv
<1>1. MaxGiveUp \in Nat /\ MaxCrash \in Nat /\ MaxFailure \in Nat /\ Freezes \in Nat
  BY ProgressConstants
<1>2. FirstDay \in Day
  BY ProgressConstants DEF Day
<1>3. TypeOK
  <2>1. user \in UserRow /\ lessons \in Rewards /\ strays \in Rewards
    BY DEF Init, NewUser, UserRow, Nothing, Rewards
  <2>2. call \in [Worker -> Call]
    BY BlankIs DEF Init
  <2>3. days \in [Attempt -> Seq(Day)]
    BY DEF Init
  <2>4. applied \in [Attempt -> BOOLEAN \cup {None}]
    BY DEF Init
  <2>5. trouble \in [giveUps : 0..MaxGiveUp, crashes : 0..MaxCrash,
                     failures : 0..MaxFailure]
    BY <1>1 DEF Init
  <2>6. freezes \in 0..Freezes
    BY <1>1 DEF Init
  <2>7. QED
    BY <1>2, <2>1, <2>2, <2>3, <2>4, <2>5, <2>6 DEF Init, TypeOK, Call
<1>4. \A w \in Worker : Locals(w)
  BY BlankIs DEF Init, Locals, InLoop, AfterLoop
<1>5. IsFiniteSet(buffer)
  BY FS_EmptySet DEF Init
<1>6. QED
  BY <1>3, <1>4, <1>5 DEF TypeInv

\* The other workers' locals are what they were.
LEMMA OthersLocals ==
    ASSUME TypeInv, NEW w \in Worker, Apart(w), Locals(w)'
    PROVE  \A v \in Worker : Locals(v)'
<1>1. ASSUME NEW v \in Worker \ {w}
      PROVE  Locals(v)'
  <2>1. call'[v] = call[v] /\ Locals(v)
    BY OneCall DEF Apart
  <2>2. QED
    BY <2>1 DEF Locals, Current, Draft
<1>2. QED
  BY <1>1

LEMMA OneMore ==
    ASSUME NEW f \in Rewards, NEW a \in Attempt
    PROVE  [f EXCEPT ![a] = @ + 1] \in Rewards
BY DEF Rewards

LEMMA CreditedIs ==
    ASSUME TypeInv, NEW w \in Worker
    PROVE  /\ Credited(call[w]) \in UserRow
           /\ \A a \in Attempt :
                 Credited(call[w]).xp[a] =
                    call[w].base.xp[a] + (IF a \in call[w].earned THEN 1 ELSE 0)
           /\ Credited(call[w]).streak = call[w].base.streak
           /\ Credited(call[w]).best = call[w].base.best
           /\ Credited(call[w]).last = call[w].base.last
<1>1. PICK c \in Call : c = call[w]
  BY OneCall
<1>2. PICK b \in UserRow : b = c.base
  BY <1>1 DEF Call
<1>3. PICK xp : xp = [a \in Attempt |-> b.xp[a] + (IF a \in c.earned THEN 1 ELSE 0)]
  OBVIOUS
<1>4. b.xp \in Rewards
  BY <1>2 DEF UserRow
<1>5. xp \in Rewards
  <2>1. \A a \in Attempt : b.xp[a] + (IF a \in c.earned THEN 1 ELSE 0) \in Nat
    BY <1>4 DEF Rewards
  <2>2. QED
    BY <1>3, <2>1 DEF Rewards
<1>6. Credited(c) = [b EXCEPT !.xp = xp]
  BY <1>2, <1>3 DEF Credited
<1>7. PICK r : r = [b EXCEPT !.xp = xp]
  OBVIOUS
<1>8. /\ r \in UserRow /\ r.xp = xp /\ r.streak = b.streak /\ r.best = b.best
      /\ r.last = b.last
  BY <1>2, <1>5, <1>7 DEF UserRow
<1>9. QED
  BY <1>1, <1>2, <1>3, <1>6, <1>7, <1>8

LEMMA TypeKept ==
    ASSUME TypeInv, NEW w \in Worker, Serves(w)
    PROVE  TypeInv'
<1> USE DEF Outside, Rows, store, client
<1>1. /\ day \in Day /\ fresh \subseteq Attempt /\ buffer \subseteq Attempt
      /\ IsFiniteSet(buffer) /\ waiting \in Worker \cup {None}
      /\ log \subseteq Range(Key) /\ applied \in [Attempt -> BOOLEAN \cup {None}]
      /\ lessons \in Rewards /\ days \in [Attempt -> Seq(Day)] /\ user \in UserRow
      /\ freezes \in 0..Freezes /\ activeDays \subseteq Day /\ strays \in Rewards
      /\ unheard \subseteq Attempt
  BY DEF TypeInv, TypeOK
<1>2. Apart(w)
  BY DEF Serves, Sends, Starts, Skips, Repeats, Redrafts, TakesUp, Puts, CountsLesson,
         CountsDay, Marks, Settles, Writes, Answers, Dies, Advances, Stays
<1>3. Locals(w)'
  <2>1. CASE Answers(w) \/ Dies(w)
    BY <2>1, BlankIs DEF Answers, Dies, Locals, InLoop, AfterLoop
  <2>2. QED
    BY <2>1
       DEF Serves, Sends, Starts, Skips, Repeats, Redrafts, TakesUp, Puts, CountsLesson,
           CountsDay, Marks, Settles, Writes, Advances, Stays
<1>4. \A v \in Worker : Locals(v)'
  BY <1>2, <1>3, OthersLocals
<1>5. day' \in Day /\ fresh' \subseteq Attempt
  BY <1>1
     DEF Serves, Sends, Starts, Skips, Repeats, Redrafts, TakesUp, Puts, CountsLesson,
         CountsDay, Marks, Settles, Writes, Answers, Dies
<1>6. buffer' \subseteq Attempt /\ IsFiniteSet(buffer')
      /\ waiting' \in Worker \cup {None}
  BY <1>1
     DEF Serves, Sends, Starts, Skips, Repeats, Redrafts, TakesUp, Puts, CountsLesson,
         CountsDay, Marks, Settles, Writes, Answers, Dies
<1>7. trouble' \in [giveUps : 0..MaxGiveUp, crashes : 0..MaxCrash,
                    failures : 0..MaxFailure]
  BY TroubleGrows
     DEF Serves, Sends, Starts, Skips, Repeats, Redrafts, TakesUp, Puts, CountsLesson,
         CountsDay, Marks, Settles, Writes, Answers, Dies
<1>8. log' \subseteq Range(Key) /\ applied' \in [Attempt -> BOOLEAN \cup {None}]
  BY <1>1
     DEF Serves, Sends, Starts, Skips, Repeats, Redrafts, TakesUp, Puts, CountsLesson,
         CountsDay, Marks, Settles, Writes, Answers, Dies
<1>9. call[w].pc \in InLoop => Current(w) \in Attempt
  BY CurrentIs
<1>10. lessons' \in Rewards
  <2>1. CASE CountsLesson(w)
    BY <1>1, <1>9, <2>1, OneMore DEF CountsLesson, Stays
  <2>2. QED
    BY <1>1, <2>1
       DEF Serves, Sends, Starts, Skips, Repeats, Redrafts, TakesUp, Puts,
           CountsDay, Marks, Settles, Writes, Answers, Dies
<1>11. days' \in [Attempt -> Seq(Day)]
  <2>1. CASE CountsDay(w)
    <3>1. PICK a \in Attempt : a = Current(w)
      BY <1>9, <2>1 DEF CountsDay, Stays
    <3>2. Append(days[a], day) \in Seq(Day)
      BY <1>1
    <3>3. QED
      BY <1>1, <2>1, <3>1, <3>2 DEF CountsDay
  <2>2. QED
    BY <1>1, <2>1
       DEF Serves, Sends, Starts, Skips, Repeats, Redrafts, TakesUp, Puts,
           CountsLesson, Marks, Settles, Writes, Answers, Dies
<1>12. strays' \in Rewards
  <2>1. CASE Skips(w) \/ TakesUp(w)
    BY <1>1, <1>9, <2>1, OneMore DEF Skips, TakesUp, Advances, Stays
  <2>2. CASE Dies(w)
    BY <1>1, <1>9, <2>2, OneMore DEF Dies, InLoop
  <2>3. QED
    BY <1>1, <2>1, <2>2
       DEF Serves, Sends, Starts, Repeats, Redrafts, Puts, CountsLesson,
           CountsDay, Marks, Settles, Writes, Answers
<1>13. user' \in UserRow /\ freezes' \in 0..Freezes /\ activeDays' \subseteq Day
  <2>1. CASE Writes(w)
    BY <1>1, <2>1, CreditedIs DEF Writes
  <2>2. QED
    BY <1>1, <2>1
       DEF Serves, Sends, Starts, Skips, Repeats, Redrafts, TakesUp, Puts, CountsLesson,
           CountsDay, Marks, Settles, Answers, Dies
<1>14. call' \in [Worker -> Call]
  BY <1>2 DEF Apart
<1>15. unheard' \subseteq Attempt
  <2>1. CASE Marks(w)
    BY <1>1, <1>9, <2>1 DEF Marks, Advances
  <2>2. QED
    BY <1>1, <2>1
       DEF Serves, Sends, Starts, Skips, Repeats, Redrafts, TakesUp, Puts, CountsLesson,
           CountsDay, Settles, Writes, Answers, Dies
<1>16. QED
  BY <1>4, <1>5, <1>6, <1>7, <1>8, <1>10, <1>11, <1>12, <1>13, <1>14, <1>15
     DEF TypeInv, TypeOK, Call

LEMMA TypeKeptElsewhere ==
    ASSUME TypeInv, Elsewhere
    PROVE  TypeInv'
<1> USE DEF Rows, store
<1>1. \A w \in Worker : Locals(w)'
  BY OneCall DEF Elsewhere, Locals, Current, Draft
<1>2. waiting' \in Worker \cup {None}
  BY DEF Elsewhere, TypeInv, TypeOK
<1>3. /\ day' \in Day /\ fresh' \subseteq Attempt /\ buffer' \subseteq Attempt
      /\ IsFiniteSet(buffer')
      /\ trouble' \in [giveUps : 0..MaxGiveUp, crashes : 0..MaxCrash,
                       failures : 0..MaxFailure]
  BY DEF Elsewhere, TypeInv, TypeOK
<1>4. UNCHANGED <<log, applied, lessons, days, user, freezes, activeDays, unheard, call,
                  strays>>
  BY DEF Elsewhere
<1>5. QED
  BY <1>1, <1>2, <1>3, <1>4 DEF TypeInv, TypeOK

\* Every variable keeps its type, and a handler has set what its next call uses:
\* no interleaving leads a worker to a call without an attempt, without a date, or
\* to spending freezes that it has not counted (submit_attempt_batch).
THEOREM TypeInvHolds == Spec => []TypeInv
<1>1. Init => TypeInv
  BY TypeStarts
<1>2. TypeInv /\ [Next]_vars => TypeInv'
  BY StepCases, TypeKept, TypeKeptElsewhere
<1>3. QED
  BY <1>1, <1>2, PTL DEF Spec

\* In particular the freezes of the user never fall below zero (TypeOK): they are
\* spent after a look at the inventory (_consume_streak_freezes).
THEOREM TypeCorrect == Spec => []TypeOK
<1>1. TypeInv => TypeOK
  BY DEF TypeInv
<1>2. QED
  BY <1>1, TypeInvHolds, PTL

-----------------------------------------------------------------------------
(* What is dropped was stored.  Two attempts of one lesson and one time    *)
(* share the key of their row in the log, and the second is then not put   *)
(* at all; the theorems that follow are about attempts with keys of their  *)
(* own.                                                                    *)

OwnKeys == \A a, b \in Attempt : Key[a] = Key[b] => a = b

\* Between put and mark the CLIENT# row is there; and what a request is about to
\* report accepted is marked, or a draft.
StoredInv ==
    /\ \A a \in Attempt : Key[a] \in log => Known(a)
    /\ \A w \in Worker : call[w].pc \in {"lesson", "day", "mark"} => Known(Current(w))
    /\ \A w \in Worker : \A a \in call[w].done : Draft(a) \/ Marked(a)
    /\ \A a \in Attempt : Sent(a) /\ ~Draft(a) => Marked(a)
    /\ \A a \in unheard : Marked(a)

\* Nothing in the table is ever unmarked or deleted.
LEMMA MarksStay ==
    ASSUME TypeInv, NEW w \in Worker, Serves(w), NEW b \in Attempt
    PROVE  (Known(b) => Known(b)') /\ (Marked(b) => Marked(b)')
<1> USE DEF store
<1>1. CASE Puts(w)
  BY <1>1 DEF Puts, Known
<1>2. CASE Marks(w)
  <2>1. CASE b = Current(w)
    <3>1. Marked(b) => Known(b)
      BY ProgressConstants DEF Marked, Known
    <3>2. Known(b)' <=> Known(b)
      BY <1>2 DEF Marks
    <3>3. Known(b) => applied'[b] = TRUE
      BY <1>2, <2>1 DEF Marks
    <3>4. QED
      BY <3>1, <3>2, <3>3 DEF Marked
  <2>2. CASE b # Current(w)
    BY <1>2, <2>2 DEF Marks, Marked, Known
  <2>3. QED
    BY <2>1, <2>2
<1>3. CASE ~Puts(w) /\ ~Marks(w)
  <2>1. applied' = applied
    BY <1>3
       DEF Serves, Sends, Starts, Skips, Repeats, Redrafts, TakesUp, CountsLesson,
           CountsDay, Settles, Writes, Answers, Dies
  <2>2. QED
    BY <2>1 DEF Known, Marked
<1>4. QED
  BY <1>1, <1>2, <1>3

LEMMA StoredStarts ==
    ASSUME Init
    PROVE  StoredInv
BY BlankIs DEF Init, StoredInv, Sent, At

LEMMA StoredKept ==
    ASSUME OwnKeys, TypeInv, StoredInv, NEW w \in Worker, Serves(w)
    PROVE  StoredInv'
<1> USE DEF store, Outside, client
<1>1. Apart(w)
  BY DEF Serves, Sends, Starts, Skips, Repeats, Redrafts, TakesUp, Puts, CountsLesson,
         CountsDay, Marks, Settles, Writes, Answers, Dies, Advances, Stays
<1>2. \A v \in Worker \ {w} : call'[v] = call[v]
  BY <1>1 DEF Apart
<1>3. \A b \in Attempt : (Known(b) => Known(b)') /\ (Marked(b) => Marked(b)')
  BY MarksStay
<1>4. call[w].pc \in InLoop => Current(w) \in Attempt
  BY CurrentIs
<1>5. ASSUME NEW a \in Attempt, Key[a] \in log'
      PROVE  Known(a)'
  <2>1. CASE Key[a] \in log
    BY <1>3, <2>1 DEF StoredInv
  <2>2. CASE Puts(w) /\ log' = log \cup {Key[Current(w)]} /\ applied'[Current(w)] # None
             /\ Key[a] \notin log
    <3>1. Current(w) \in Attempt
      BY <1>4, <2>2 DEF Puts, Stays
    <3>2. a = Current(w)
      BY <1>5, <2>2, <3>1 DEF OwnKeys
    <3>3. QED
      BY <2>2, <3>2 DEF Known
  <2>3. QED
    BY <1>5, <2>1, <2>2
       DEF Serves, Sends, Starts, Skips, Repeats, Redrafts, TakesUp, Puts, CountsLesson,
           CountsDay, Marks, Settles, Writes, Answers, Dies
<1>6. ASSUME NEW v \in Worker, call'[v].pc \in {"lesson", "day", "mark"}
      PROVE  Known(Current(v))'
  <2>1. CASE v # w
    <3>1. call'[v] = call[v]
      BY <1>2, <2>1
    <3>2. Current(v)' = Current(v) /\ Known(Current(v)) /\ Current(v) \in Attempt
      BY <1>6, <3>1, CurrentIs DEF Current, StoredInv, InLoop
    <3>3. QED
      BY <1>3, <3>1, <3>2 DEF Known
  <2>2. CASE v = w
    <3>1. CASE Puts(w)
      <4>1. Current(w) \in Attempt /\ Current(w)' = Current(w)
        BY <1>4, <3>1 DEF Puts, Stays, Current
      <4>2. applied'[Current(w)] # None
        BY <1>3, <3>1, <4>1 DEF Puts, StoredInv, Known
      <4>3. QED
        BY <2>2, <4>1, <4>2 DEF Known
    <3>2. CASE TakesUp(w) \/ CountsLesson(w) \/ CountsDay(w)
      <4>1. Current(w) \in Attempt /\ Current(w)' = Current(w)
        BY <1>4, <3>2 DEF TakesUp, CountsLesson, CountsDay, Stays, Current
      <4>2. Known(Current(w)) /\ applied' = applied
        BY <1>6, <2>2, <3>2 DEF TakesUp, CountsLesson, CountsDay, StoredInv, At
      <4>3. QED
        BY <2>2, <4>1, <4>2 DEF Known
    <3>3. QED
      BY <1>6, <2>2, <3>1, <3>2, BlankIs
         DEF Serves, Sends, Starts, Skips, Repeats, Redrafts, Marks, Advances,
             Settles, Writes, Answers, Dies
  <2>3. QED
    BY <2>1, <2>2
<1>7. ASSUME NEW v \in Worker, NEW a \in call'[v].done
      PROVE  Draft(a) \/ Marked(a)'
  <2>1. a \in Attempt
    BY <1>1, <1>7 DEF Apart, Call
  <2>2. CASE a \in call[v].done
    BY <1>3, <2>1, <2>2 DEF StoredInv
  <2>3. CASE v = w /\ a \notin call[v].done
    <3>1. CASE Repeats(w)
      BY <1>3, <1>7, <2>1, <2>3, <3>1 DEF Repeats
    <3>2. CASE Marks(w)
      <4>1. a = Current(w) /\ Known(a)
        BY <1>7, <2>3, <3>2 DEF Marks, Carries, StoredInv, At
      <4>2. QED
        BY <3>2, <4>1 DEF Marks, Marked
    <3>3. QED
      BY <1>7, <2>3, <3>1, <3>2, BlankIs
         DEF Serves, Sends, Starts, Skips, Carries, Redrafts, TakesUp, Puts, CountsLesson,
             CountsDay, Stays, Settles, Writes, Answers, Dies
  <2>4. QED
    BY <1>2, <1>7, <2>2, <2>3
<1>8. ASSUME NEW a \in Attempt, Sent(a)', ~Draft(a)
      PROVE  Marked(a)'
  <2>1. CASE Sent(a)
    BY <1>3, <1>8, <2>1 DEF StoredInv
  <2>2. CASE Answers(w) /\ ~Sent(a)
    <3>1. a \in buffer \ buffer'
      BY <1>8, <2>2 DEF Answers, Sent
    <3>2. a \in call[w].done
      BY <2>2, <3>1 DEF Answers
    <3>3. QED
      BY <1>3, <1>8, <3>2 DEF StoredInv
  <2>3. QED
    BY <1>8, <2>1, <2>2
       DEF Serves, Sends, Starts, Skips, Repeats, Redrafts, TakesUp, Puts, CountsLesson,
           CountsDay, Marks, Settles, Writes, Dies, Sent
<1>9. \A a \in Attempt : Draft(a)' <=> Draft(a)
  BY DEF Draft
<1>10. ASSUME NEW a \in unheard'
       PROVE  Marked(a)'
  <2>1. CASE a \in unheard
    <3>1. a \in Attempt /\ Marked(a)
      BY <2>1 DEF TypeInv, TypeOK, StoredInv
    <3>2. QED
      BY <1>3, <3>1
  <2>2. CASE a \notin unheard
    <3>1. Marks(w)
      BY <1>10, <2>2
         DEF Serves, Sends, Starts, Skips, Repeats, Redrafts, TakesUp, Puts, CountsLesson,
             CountsDay, Settles, Writes, Answers, Dies, Rows
    <3>2. a = Current(w) /\ Known(a) /\ applied'[a] = TRUE
      BY <1>10, <2>2, <3>1 DEF Marks
    <3>3. QED
      BY <3>2 DEF Marked
  <2>3. QED
    BY <2>1, <2>2
<1>11. QED
  BY <1>5, <1>6, <1>7, <1>8, <1>9, <1>10 DEF StoredInv, Draft

LEMMA StoredKeptElsewhere ==
    ASSUME StoredInv, Elsewhere
    PROVE  StoredInv'
<1>1. log' = log /\ applied' = applied /\ call' = call /\ unheard' = unheard
  BY DEF Elsewhere, store, Rows
<1>2. \A a \in Attempt : Sent(a)' /\ ~Draft(a) => Sent(a)
  BY DEF Elsewhere
<1>3. QED
  BY <1>1, <1>2 DEF StoredInv, Known, Marked, Current, Draft

\* A final attempt leaves the client's buffer only when the server has stored and
\* counted it, whatever requests overlap, are given up on, raise or die.
THEOREM DroppedIsStoredHolds ==
    ASSUME OwnKeys
    PROVE  Spec => []DroppedIsStored
<1>1. Init => StoredInv
  BY StoredStarts
<1>2. TypeInv /\ StoredInv /\ [Next]_vars => StoredInv'
  BY StepCases, StoredKept, StoredKeptElsewhere
<1>3. StoredInv => DroppedIsStored
  BY DEF StoredInv, DroppedIsStored, Marked
<1>4. QED
  BY <1>1, <1>2, <1>3, TypeInvHolds, PTL DEF Spec

-----------------------------------------------------------------------------
(* The streak.  A row may be put back after another one, so the row in the *)
(* table can be older than a row that was there before; but each row that  *)
(* was ever computed is earned by the days up to its own, and stays so, as *)
(* the days only become more.                                              *)

EarnedIn(active, row) ==
    /\ row.streak <= Cardinality({d \in active : row.last # None /\ d <= row.last})
    /\ row.streak <= row.best

NotAfter(last, today) == last = None \/ last <= today

StreakInv ==
    /\ EarnedIn(activeDays, user)
    /\ NotAfter(user.last, day)
    /\ \A w \in Worker :
          call[w].pc \in InLoop \cup AfterLoop =>
             /\ EarnedIn(activeDays, call[w].base)
             /\ call[w].today <= day
             /\ NotAfter(call[w].base.last, call[w].today)
    /\ \A w \in Worker :
          call[w].pc \in {"freezes", "spend"} =>
             /\ call[w].today \in activeDays
             /\ call[w].base.last # call[w].today

LEMMA DaysAreFinite ==
    ASSUME NEW active \in SUBSET Day, NEW P
    PROVE  /\ IsFiniteSet(active \cap P)
           /\ Cardinality(active \cap P) \in Nat
<1>1. IsFiniteSet(Day)
  BY FS_Interval, ProgressConstants DEF Day
<1>2. IsFiniteSet(active \cap P)
  BY <1>1, FS_Subset
<1>3. QED
  BY <1>2, FS_CardinalityType

LEMMA EarnedStays ==
    ASSUME NEW less \in SUBSET Day, NEW more \in SUBSET Day, less \subseteq more,
           NEW row \in UserRow, EarnedIn(less, row)
    PROVE  EarnedIn(more, row)
<1> DEFINE upTo(active) == {d \in active : row.last # None /\ d <= row.last}
<1>1. /\ IsFiniteSet(upTo(less)) /\ Cardinality(upTo(less)) \in Nat
      /\ IsFiniteSet(upTo(more)) /\ Cardinality(upTo(more)) \in Nat
  <2>1. upTo(less) = less \cap upTo(less) /\ upTo(more) = more \cap upTo(more)
    OBVIOUS
  <2>2. QED
    BY <2>1, DaysAreFinite
<1>2. upTo(less) \subseteq upTo(more)
  OBVIOUS
<1>3. Cardinality(upTo(less)) <= Cardinality(upTo(more))
  BY <1>1, <1>2, FS_Subset
<1>4. row.streak \in Nat
  BY DEF UserRow
<1>5. QED
  BY <1>1, <1>3, <1>4 DEF EarnedIn

\* One more day for a streak that is one longer, or one day for a streak of one.
LEMMA EarnedGrows ==
    ASSUME NEW active \in SUBSET Day, NEW row \in UserRow, NEW next \in UserRow,
           EarnedIn(active, row), NotAfter(row.last, next.last),
           row.last # next.last, next.last \in active,
           next.streak \in {1, row.streak + 1}, next.streak <= next.best
    PROVE  EarnedIn(active, next)
<1> DEFINE before == {d \in active : row.last # None /\ d <= row.last}
           after == {d \in active : next.last # None /\ d <= next.last}
<1>1. /\ \A d \in active : d \in Nat
      /\ next.last \in Nat /\ next.last # None
  BY ProgressConstants DEF Day
<1>2. (row.last \in Nat \/ row.last = None) /\ row.streak \in Nat
  BY ProgressConstants DEF UserRow, Day
<1>3. next.last \notin before
  BY <1>1, <1>2 DEF NotAfter
<1>4. before \cup {next.last} \subseteq after
  <2>1. ASSUME NEW d \in before
        PROVE  d <= next.last
    <3>1. d \in Nat /\ row.last \in Nat /\ d <= row.last /\ row.last <= next.last
      BY <1>1, <1>2, <2>1 DEF NotAfter
    <3>2. QED
      BY <1>1, <3>1
  <2>2. next.last <= next.last
    BY <1>1
  <2>3. QED
    BY <1>1, <2>1, <2>2
<1>5. /\ IsFiniteSet(before) /\ Cardinality(before) \in Nat
      /\ IsFiniteSet(after) /\ Cardinality(after) \in Nat
  <2>1. before = active \cap before /\ after = active \cap after
    OBVIOUS
  <2>2. QED
    BY <2>1, DaysAreFinite
<1>6. Cardinality(before \cup {next.last}) = Cardinality(before) + 1
  BY <1>3, <1>5, FS_AddElement
<1>7. Cardinality(before) + 1 <= Cardinality(after)
  BY <1>4, <1>5, <1>6, FS_Subset
<1>8. row.streak <= Cardinality(before)
  BY DEF EarnedIn
<1>9. next.streak <= Cardinality(after)
  BY <1>2, <1>5, <1>7, <1>8
<1>10. QED
  BY <1>9 DEF EarnedIn

LEMMA StreakStarts ==
    ASSUME Init
    PROVE  StreakInv
<1>1. user.streak = 0 /\ user.best = 0 /\ user.last = None
  BY DEF Init, NewUser
<1>2. {d \in activeDays : user.last # None /\ d <= user.last} = {}
  BY <1>1
<1>3. EarnedIn(activeDays, user)
  BY <1>1, <1>2, FS_EmptySet DEF EarnedIn
<1>4. \A w \in Worker : call[w].pc = "idle"
  BY BlankIs DEF Init
<1>5. QED
  BY <1>1, <1>3, <1>4 DEF StreakInv, NotAfter, InLoop, AfterLoop

\* What a step of w leaves of the streak's own: who writes the row, who reads it.
LEMMA StreakKept ==
    ASSUME TypeInv, StreakInv, NEW w \in Worker, Serves(w)
    PROVE  StreakInv'
<1> USE DEF Outside, Rows
<1>1. Apart(w)
  BY DEF Serves, Sends, Starts, Skips, Repeats, Redrafts, TakesUp, Puts, CountsLesson,
         CountsDay, Marks, Settles, Writes, Answers, Dies, Advances, Stays
<1>2. \A v \in Worker \ {w} : call'[v] = call[v]
  BY <1>1 DEF Apart
<1>3. day' = day
  BY DEF Serves, Sends, Starts, Skips, Repeats, Redrafts, TakesUp, Puts, CountsLesson,
         CountsDay, Marks, Settles, Writes, Answers, Dies
<1>4. /\ activeDays \subseteq activeDays' /\ activeDays' \subseteq Day
      /\ activeDays \subseteq Day
      /\ ~Settles(w) => activeDays' = activeDays
  BY DEF Serves, Sends, Starts, Skips, Repeats, Redrafts, TakesUp, Puts, CountsLesson,
         CountsDay, Marks, Settles, Writes, Answers, Dies, TypeInv, TypeOK
<1>5. user \in UserRow /\ day \in Day
  BY DEF TypeInv, TypeOK
<1>6. \A row \in UserRow : EarnedIn(activeDays, row) => EarnedIn(activeDays', row)
  BY <1>4, EarnedStays
<1>7. EarnedIn(activeDays', user') /\ NotAfter(user'.last, day')
  <2>1. CASE Writes(w)
    <3>1. call[w].pc \in InLoop \cup AfterLoop
      BY <2>1 DEF Writes, At, AfterLoop
    <3>2. /\ user'.streak = call[w].base.streak /\ user'.best = call[w].base.best
          /\ user'.last = call[w].base.last
      BY <2>1, CreditedIs DEF Writes
    <3>3. EarnedIn(activeDays', call[w].base)
      BY <1>6, <3>1, OneCall DEF StreakInv
    <3>4. EarnedIn(activeDays', user')
      BY <3>2, <3>3 DEF EarnedIn
    <3>5. NotAfter(call[w].base.last, call[w].today) /\ call[w].today <= day
          /\ call[w].today \in Day /\ call[w].base.last \in Day \cup {None}
      BY <3>1, OneCall DEF StreakInv, Locals, UserRow
    <3>6. NotAfter(user'.last, day')
      BY <1>3, <1>5, <3>2, <3>5, ProgressConstants DEF NotAfter, Day
    <3>7. QED
      BY <3>4, <3>6
  <2>2. CASE ~Writes(w)
    <3>1. user' = user
      BY <2>2
         DEF Serves, Sends, Starts, Skips, Repeats, Redrafts, TakesUp, Puts, CountsLesson,
             CountsDay, Marks, Settles, Answers, Dies
    <3>2. QED
      BY <1>3, <1>5, <1>6, <3>1 DEF StreakInv
  <2>3. QED
    BY <2>1, <2>2
<1>8. ASSUME NEW v \in Worker, call'[v].pc \in InLoop \cup AfterLoop
      PROVE  /\ EarnedIn(activeDays', call'[v].base)
             /\ call'[v].today <= day'
             /\ NotAfter(call'[v].base.last, call'[v].today)
  <2>1. CASE v # w
    BY <1>2, <1>3, <1>6, <1>8, <2>1, OneCall DEF StreakInv
  <2>2. CASE v = w /\ Starts(w)
    <3>1. call'[w].base = user /\ call'[w].today = day
      BY <2>2 DEF Starts
    <3>2. day <= day'
      BY <1>3, <1>5, ProgressConstants DEF Day
    <3>3. QED
      BY <1>3, <1>5, <1>6, <2>2, <3>1, <3>2 DEF StreakInv
  <2>3. CASE v = w /\ call[w].pc \in InLoop \cup AfterLoop
             /\ call'[w].base = call[w].base /\ call'[w].today = call[w].today
    BY <1>3, <1>6, <2>3, OneCall DEF StreakInv
  <2>4. CASE v = w /\ Settles(w) /\ call'[w].base # call[w].base
    <3>1. /\ Credits(w) /\ call'[w].today = call[w].today
          /\ call[w].today \in activeDays' /\ call[w].base.last # call[w].today
          /\ call[w].pc \in AfterLoop
      BY <1>4, <2>4 DEF Settles, StreakInv, At, AfterLoop
    <3>2. /\ EarnedIn(activeDays', call[w].base)
          /\ call[w].today <= day /\ NotAfter(call[w].base.last, call[w].today)
          /\ call[w].base \in UserRow /\ call'[w].base \in UserRow
      <4>1. call'[w] \in Call
        BY <1>1 DEF Apart
      <4>2. QED
        BY <1>6, <3>1, <4>1, OneCall DEF StreakInv, Call
    <3>3. EarnedIn(activeDays', call'[w].base)
      <4>1. PICK row \in UserRow : row = call[w].base
        BY <3>2
      <4>2. PICK next \in UserRow : next = call'[w].base
        BY <3>2
      <4>3. PICK active \in SUBSET Day : active = activeDays'
        BY <1>4
      <4>4. EarnedIn(active, next)
        BY <3>1, <3>2, <4>1, <4>2, <4>3, EarnedGrows DEF Credits
      <4>5. QED
        BY <4>2, <4>3, <4>4
    <3>4. call[w].today <= call[w].today
      BY <3>1, OneCall, ProgressConstants DEF Locals, Day
    <3>5. NotAfter(call'[w].base.last, call'[w].today)
      BY <3>1, <3>4 DEF Credits, NotAfter
    <3>6. QED
      BY <1>3, <2>4, <3>1, <3>2, <3>3, <3>5
  <2>5. QED
    BY <1>8, <2>1, <2>2, <2>3, <2>4, BlankIs
       DEF Serves, Sends, Skips, Repeats, Redrafts, TakesUp, Puts, CountsLesson,
           CountsDay, Marks, Settles, Writes, Answers, Dies, Advances, Stays, Carries,
           InLoop, AfterLoop, At
<1>9. ASSUME NEW v \in Worker, call'[v].pc \in {"freezes", "spend"}
      PROVE  call'[v].today \in activeDays' /\ call'[v].base.last # call'[v].today
  <2>1. CASE v # w
    BY <1>2, <1>4, <1>9, <2>1 DEF StreakInv
  <2>2. CASE v = w
    <3>1. Settles(w)
      BY <1>9, <2>2, BlankIs
         DEF Serves, Sends, Starts, Skips, Repeats, Redrafts, TakesUp, Puts, CountsLesson,
             CountsDay, Marks, Writes, Answers, Dies, Advances
    <3>2. call'[w].base = call[w].base /\ call'[w].today = call[w].today
      BY <1>9, <2>2, <3>1 DEF Settles
    <3>3. call[w].today \in activeDays' /\ call[w].base.last # call[w].today
      BY <1>4, <1>9, <2>2, <3>1 DEF Settles, StreakInv, At
    <3>4. QED
      BY <2>2, <3>2, <3>3
  <2>3. QED
    BY <2>1, <2>2
<1>10. QED
  BY <1>7, <1>8, <1>9 DEF StreakInv, EarnedIn, NotAfter

LEMMA StreakKeptElsewhere ==
    ASSUME TypeInv, StreakInv, Elsewhere
    PROVE  StreakInv'
<1>1. user' = user /\ activeDays' = activeDays /\ call' = call /\ day <= day'
      /\ day \in Day /\ day' \in Day /\ user \in UserRow
  BY DEF Elsewhere, Rows, TypeInv, TypeOK
<1>2. day \in Nat /\ day' \in Nat
  BY <1>1, ProgressConstants DEF Day
<1>3. NotAfter(user.last, day')
  <2>1. user.last \in Nat \/ user.last = None
    BY <1>1, ProgressConstants DEF UserRow, Day
  <2>2. QED
    BY <1>1, <1>2, <2>1 DEF StreakInv, NotAfter
<1>4. ASSUME NEW w \in Worker, call[w].pc \in InLoop \cup AfterLoop
      PROVE  call[w].today <= day'
  <2>1. call[w].today \in Nat
    BY <1>4, OneCall, ProgressConstants DEF Locals, Day
  <2>2. QED
    BY <1>1, <1>2, <1>4, <2>1 DEF StreakInv
<1>5. QED
  BY <1>1, <1>3, <1>4 DEF StreakInv, EarnedIn, NotAfter

\* The streak never exceeds the days up to the last one credited on which the server
\* accepted an attempt, and never the best streak: neither overlapping batches that
\* put back rows they read before, nor a midnight between the two readings of the
\* date, nor freezes credit a day twice (submit_attempt_batch).
THEOREM StreakIsEarnedHolds == Spec => []StreakIsEarned
<1>1. Init => StreakInv
  BY StreakStarts
<1>2. TypeInv /\ StreakInv /\ [Next]_vars => StreakInv'
  BY StepCases, StreakKept, StreakKeptElsewhere
<1>3. StreakInv => StreakIsEarned
  BY DEF StreakInv, StreakIsEarned, EarnedIn
<1>4. QED
  BY <1>1, <1>2, <1>3, TypeInvHolds, PTL DEF Spec

-----------------------------------------------------------------------------
(* What is paid.  While no request is given up on and none dies, there is  *)
(* one request at a time, and between its mark and its write the row is    *)
(* short by just what the request has earned.                              *)

Working == InLoop \cup {"settle", "freezes", "spend", "write"}

Due(w) == IF call[w].pc \in Working THEN call[w].earned ELSE {}

\* What is marked is to be paid, but for what is marked unheard.
Payable(a) == Marked(a) /\ a \notin unheard

Balance(a, due) ==
    user.xp[a] + (IF a \in due THEN 1 ELSE 0) = (IF Payable(a) THEN 1 ELSE 0)

PaidInv ==
    InOrder =>
        /\ \A w \in Worker : call[w].pc # "idle" <=> waiting = w
        /\ \A w \in Worker :
              call[w].pc \in {"put", "lesson", "day", "mark"} => ~Marked(Current(w))
        /\ \A w \in Worker : call[w].pc \in Working => call[w].base.xp = user.xp
        /\ \A a \in Attempt : Pays(a) =>
              /\ AllIdle => Balance(a, {})
              /\ \A w \in Worker : call[w].pc # "idle" => Balance(a, Due(w))

LEMMA PaidStarts ==
    ASSUME Init
    PROVE  PaidInv
<1>1. \A w \in Worker : call[w].pc = "idle"
  BY BlankIs DEF Init
<1>2. \A w \in Worker : waiting # w
  BY ProgressConstants DEF Init
<1>3. ASSUME NEW a \in Attempt
      PROVE  Balance(a, {})
  <2>1. user.xp[a] = 0
    BY DEF Init, NewUser, Nothing
  <2>2. ~Marked(a)
    <3>1. applied[a] = None /\ None # TRUE
      BY ProgressConstants DEF Init
    <3>2. QED
      BY <3>1 DEF Marked
  <2>3. QED
    BY <2>1, <2>2 DEF Balance, Payable
<1>4. QED
  BY <1>1, <1>2, <1>3 DEF PaidInv, Working, InLoop

\* In order, a request has the server to itself.
LEMMA OneAtATime ==
    ASSUME TypeInv, PaidInv, NEW w \in Worker, Serves(w), InOrder'
    PROVE  /\ InOrder /\ ~Dies(w) /\ Apart(w)
           /\ \A v \in Worker \ {w} : call[v].pc = "idle" /\ call'[v].pc = "idle"
           /\ IF Sends(w) THEN call[w].pc = "idle" /\ waiting = None
              ELSE call[w].pc # "idle" /\ waiting = w
<1>1. Apart(w) /\ ~Dies(w)
  BY DEF Serves, Sends, Starts, Skips, Repeats, Redrafts, TakesUp, Puts, CountsLesson,
         CountsDay, Marks, Settles, Writes, Answers, Dies, Advances, Stays
<1>2. InOrder
  BY <1>1
     DEF Serves, Sends, Starts, Skips, Repeats, Redrafts, TakesUp, Puts, CountsLesson,
         CountsDay, Marks, Settles, Writes, Answers, InOrder, Outside
<1>3. CASE Sends(w)
  <2>1. waiting = None /\ call[w].pc = "idle"
    BY <1>3 DEF Sends, At
  <2>2. \A v \in Worker : call[v].pc = "idle"
    BY <1>2, <2>1, ProgressConstants DEF PaidInv
  <2>3. QED
    BY <1>1, <1>2, <1>3, <2>1, <2>2 DEF Apart
<1>4. CASE ~Sends(w)
  <2>1. call[w].pc # "idle"
    BY <1>1, <1>4
       DEF Serves, Starts, Skips, Repeats, Redrafts, TakesUp, Puts, CountsLesson,
           CountsDay, Marks, Settles, Writes, Answers, Advances, Stays, At, InLoop
  <2>2. waiting = w
    BY <1>2, <2>1 DEF PaidInv
  <2>3. \A v \in Worker \ {w} : call[v].pc = "idle"
    BY <1>2, <2>2 DEF PaidInv
  <2>4. QED
    BY <1>1, <1>2, <1>4, <2>1, <2>2, <2>3 DEF Apart
<1>5. QED
  BY <1>3, <1>4

LEMMA PaidKept ==
    ASSUME TypeInv, StoredInv, PaidInv, NEW w \in Worker, Serves(w)
    PROVE  PaidInv'
<1> USE DEF Outside, Rows, store, client
<1> SUFFICES ASSUME InOrder'
             PROVE  PaidInv'
  BY DEF PaidInv
<1>1. /\ InOrder /\ ~Dies(w) /\ Apart(w)
      /\ \A v \in Worker \ {w} : call[v].pc = "idle" /\ call'[v].pc = "idle"
      /\ IF Sends(w) THEN call[w].pc = "idle" /\ waiting = None
         ELSE call[w].pc # "idle" /\ waiting = w
  BY OneAtATime
<1>2. user \in UserRow /\ user' \in UserRow
  BY TypeKept DEF TypeInv, TypeOK
<1>3. \A a \in Attempt : user.xp[a] \in Nat /\ user'.xp[a] \in Nat
  BY <1>2 DEF UserRow, Rewards
<1>4. CASE Answers(w)
  <2>1. call[w].pc = "answer" /\ call'[w].pc = "idle" /\ waiting' = None
    BY <1>1, <1>4, BlankIs DEF Answers, At
  <2>2. \A v \in Worker : call'[v].pc = "idle" /\ waiting' # v
    BY <1>1, <2>1, ProgressConstants
  <2>3. user' = user /\ applied' = applied /\ unheard' = unheard
    BY <1>4 DEF Answers
  <2>4. Due(w) = {}
    BY <2>1 DEF Due, Working, InLoop
  <2>5. ASSUME NEW a \in Attempt, Pays(a)
        PROVE  Balance(a, {})'
    <3>1. Balance(a, {})
      BY <1>1, <2>1, <2>4, <2>5 DEF PaidInv
    <3>2. QED
      BY <2>3, <3>1 DEF Balance, Payable, Marked
  <2>6. QED
    BY <2>2, <2>5 DEF PaidInv, Working, InLoop
<1>5. CASE ~Answers(w)
  <2>1. call'[w].pc # "idle" /\ waiting' = w
    BY <1>1, <1>5
       DEF Serves, Sends, Starts, Skips, Repeats, Redrafts, TakesUp, Puts, CountsLesson,
           CountsDay, Marks, Settles, Writes, Advances, Stays
  <2>2. \A v \in Worker : call'[v].pc # "idle" <=> waiting' = v
    BY <1>1, <2>1
  <2>3. call'[w].pc \in {"put", "lesson", "day", "mark"} => ~Marked(Current(w))'
    <3>1. CASE TakesUp(w)
      BY <3>1 DEF TakesUp, Stays, Current, Marked
    <3>2. CASE Puts(w) \/ CountsLesson(w) \/ CountsDay(w)
      <4>1. Current(w) \in Attempt /\ Current(w)' = Current(w)
        BY <3>2, CurrentIs DEF Puts, CountsLesson, CountsDay, Stays, Current
      <4>2. ~Marked(Current(w))
        BY <1>1, <3>2 DEF Puts, CountsLesson, CountsDay, PaidInv, At
      <4>3. \A b \in Attempt : applied'[b] = TRUE <=> applied[b] = TRUE
        BY <3>2 DEF Puts, CountsLesson, CountsDay, Marked
      <4>4. QED
        BY <4>1, <4>2, <4>3 DEF Marked
    <3>3. QED
      BY <1>1, <1>5, <3>1, <3>2
         DEF Serves, Sends, Starts, Skips, Repeats, Redrafts, Marks, Settles, Writes,
             Advances
  <2>4. call'[w].pc \in Working => call'[w].base.xp = user'.xp
    <3>1. CASE Starts(w)
      BY <3>1 DEF Starts
    <3>2. CASE Sends(w) \/ Writes(w)
      BY <3>2 DEF Sends, Writes, Working, InLoop
    <3>3. CASE ~Starts(w) /\ ~Sends(w) /\ ~Writes(w)
      <4>1. user' = user /\ call'[w].base.xp = call[w].base.xp /\ call[w].pc \in Working
        BY <1>1, <1>5, <3>3
           DEF Serves, Skips, Repeats, Redrafts, TakesUp, Puts, CountsLesson,
               CountsDay, Marks, Settles, Advances, Stays, Carries, Working
      <4>2. QED
        BY <1>1, <4>1 DEF PaidInv
    <3>4. QED
      BY <3>1, <3>2, <3>3
  <2>5. ASSUME NEW a \in Attempt, Pays(a)
        PROVE  Balance(a, Due(w))'
    <3>1. CASE Sends(w)
      <4>1. AllIdle
        BY <1>1, <3>1 DEF AllIdle, At
      <4>2. Balance(a, {})
        BY <1>1, <2>5, <4>1 DEF PaidInv
      <4>3. user' = user /\ applied' = applied /\ unheard' = unheard /\ Due(w)' = {}
        BY <3>1 DEF Sends, Due, Working, InLoop
      <4>4. QED
        BY <4>2, <4>3 DEF Balance, Payable, Marked
    <3>2. ASSUME ~Sends(w)
          PROVE  Balance(a, Due(w))
      BY <1>1, <2>5, <3>2 DEF PaidInv
    <3>3. CASE Writes(w)
      <4>1. Due(w) = call[w].earned /\ Due(w)' = {} /\ applied' = applied
            /\ unheard' = unheard /\ call[w].base.xp = user.xp
        BY <1>1, <3>3 DEF Writes, Due, Working, InLoop, At, PaidInv
      <4>2. user'.xp[a] = user.xp[a] + (IF a \in call[w].earned THEN 1 ELSE 0)
        BY <3>3, <4>1, CreditedIs DEF Writes
      <4>3. Balance(a, call[w].earned)
        BY <1>1, <3>2, <4>1, <3>3 DEF Writes, Sends, At
      <4>4. Payable(a)' <=> Payable(a)
        BY <4>1 DEF Payable, Marked
      <4>5. a \notin Due(w)'
        BY <4>1
      <4>6. user'.xp[a] + 0 = user'.xp[a]
        BY <1>3
      <4>7. QED
        BY <4>2, <4>3, <4>4, <4>5, <4>6 DEF Balance
    <3>4. CASE Marks(w)
      <4>1. Balance(a, call[w].earned) /\ user' = user
        <5>1. Due(w) = call[w].earned /\ ~Sends(w)
          BY <3>4 DEF Marks, Sends, Due, Working, InLoop, At
        <5>2. QED
          BY <3>2, <3>4, <5>1 DEF Marks
      <4>2. CASE a = Current(w)
        <5>1. ~Marked(a)
          BY <1>1, <3>4, <4>2 DEF Marks, At, PaidInv
        <5>2. a \notin call[w].earned /\ user.xp[a] = 0
          BY <1>3, <4>1, <5>1 DEF Balance, Payable
        <5>3. Marked(a)' /\ a \notin unheard
          <6>1. Known(a) /\ a \notin unheard
            BY <3>4, <4>2, <5>1 DEF Marks, At, StoredInv
          <6>2. applied'[a] = TRUE
            BY <3>4, <4>2, <6>1 DEF Marks
          <6>3. QED
            BY <6>1, <6>2 DEF Marked
        <5>4. a \in Due(w)' <=> a \notin unheard'
          <6>1. Due(w)' = call'[w].earned
            BY <3>4 DEF Marks, Advances, Due, Working, InLoop
          <6>2. QED
            BY <2>5, <3>4, <4>2, <5>2, <5>3, <6>1 DEF Marks, Carries
        <5>5. Payable(a)' <=> a \notin unheard'
          BY <5>3 DEF Payable
        <5>6. QED
          BY <4>1, <5>2, <5>4, <5>5 DEF Balance
      <4>3. CASE a # Current(w)
        <5>1. a \in Due(w)' <=> a \in call[w].earned
          <6>1. Due(w)' = call'[w].earned
            BY <3>4 DEF Marks, Advances, Due, Working, InLoop
          <6>2. QED
            BY <3>4, <4>3, <6>1 DEF Marks, Carries
        <5>2. Payable(a)' <=> Payable(a)
          BY <3>4, <4>3 DEF Marks, Payable, Marked
        <5>3. QED
          BY <4>1, <5>1, <5>2 DEF Balance
      <4>4. QED
        BY <4>2, <4>3
    <3>5. CASE ~Sends(w) /\ ~Writes(w) /\ ~Marks(w)
      <4>1. user' = user
        BY <1>1, <1>5, <3>5
           DEF Serves, Starts, Skips, Repeats, Redrafts, TakesUp, Puts, CountsLesson,
               CountsDay, Settles
      <4>2. Payable(a)' <=> Payable(a)
        <5>1. Marked(a)' <=> Marked(a)
          BY <1>1, <1>5, <3>5
             DEF Serves, Starts, Skips, Repeats, Redrafts, TakesUp, Puts, CountsLesson,
                 CountsDay, Settles, Marked
        <5>2. unheard' = unheard
          BY <1>1, <1>5, <3>5
             DEF Serves, Starts, Skips, Repeats, Redrafts, TakesUp, Puts, CountsLesson,
                 CountsDay, Settles
        <5>3. QED
          BY <5>1, <5>2 DEF Payable
      <4>3. Due(w)' = Due(w)
        <5>1. CASE Starts(w)
          BY <5>1 DEF Starts, Due, Working, InLoop, At
        <5>2. CASE Settles(w)
          BY <5>2 DEF Settles, Due, Working, InLoop
        <5>3. QED
          BY <1>1, <1>5, <3>5, <5>1, <5>2
             DEF Serves, Skips, Repeats, Redrafts, TakesUp, Puts, CountsLesson,
                 CountsDay, Advances, Stays, Carries, Due, Working, InLoop
      <4>4. QED
        BY <3>2, <3>5, <4>1, <4>2, <4>3 DEF Balance
    <3>6. QED
      BY <3>1, <3>3, <3>4, <3>5
  <2>6. ~AllIdle'
    BY <2>1 DEF AllIdle, At
  <2>7. QED
    BY <1>1, <2>1, <2>2, <2>3, <2>4, <2>5, <2>6 DEF PaidInv, Working, InLoop
<1>6. QED
  BY <1>4, <1>5

LEMMA PaidKeptElsewhere ==
    ASSUME TypeInv, PaidInv, Elsewhere
    PROVE  PaidInv'
<1> SUFFICES ASSUME InOrder'
             PROVE  PaidInv'
  BY DEF PaidInv
<1>1. user' = user /\ applied' = applied /\ unheard' = unheard /\ call' = call /\ InOrder
  BY DEF Elsewhere, Rows, store
<1>2. \A w \in Worker : call[w].pc # "idle" <=> waiting = w
  BY <1>1 DEF PaidInv
<1>3. waiting' = waiting
  <2>1. CASE waiting # None /\ At(waiting, "idle")
    <3>1. waiting \in Worker
      BY <2>1 DEF TypeInv, TypeOK
    <3>2. QED
      BY <1>2, <2>1, <3>1 DEF At
  <2>2. QED
    BY <2>1 DEF Elsewhere
<1>4. QED
  BY <1>1, <1>3 DEF PaidInv, Payable, Marked, Current, AllIdle, At, Balance, Due

\* If no request is given up on or dies, each passed attempt that has left the
\* client's buffer is paid once, whichever calls inside the loop raise, with effect
\* or without, and however often the client sends an attempt again; but an attempt
\* whose mark landed in a call that raised is not paid at all, and no other one is
\* passed over with it (submit_attempt_batch, one update_user).
THEOREM PaidOnceInOrderHolds ==
    ASSUME OwnKeys
    PROVE  Spec => []PaidOnceInOrder
<1>1. Init => PaidInv /\ StoredInv
  BY PaidStarts, StoredStarts
<1>2. TypeInv /\ StoredInv /\ PaidInv /\ [Next]_vars => PaidInv' /\ StoredInv'
  BY StepCases, PaidKept, PaidKeptElsewhere, StoredKept, StoredKeptElsewhere
<1>3. TypeInv /\ StoredInv /\ PaidInv => PaidOnceInOrder
  <2> SUFFICES ASSUME TypeInv, StoredInv, PaidInv, InOrder, AllIdle,
                      NEW a \in Attempt, Sent(a), Pays(a)
               PROVE  user.xp[a] = IF a \in unheard THEN 0 ELSE 1
    BY DEF PaidOnceInOrder
  <2>1. Marked(a)
    BY DEF Pays, Draft, StoredInv
  <2>2. Balance(a, {})
    BY DEF PaidInv
  <2>3. user.xp[a] \in Nat
    BY DEF TypeInv, TypeOK, UserRow, Rewards
  <2>4. QED
    BY <2>1, <2>2, <2>3 DEF Balance, Payable
<1>4. QED
  BY <1>1, <1>2, <1>3, TypeInvHolds, PTL DEF Spec

-----------------------------------------------------------------------------
(* What is counted.  A worker that has taken an attempt up has a claim to  *)
(* add it to the rollups once.  An unmarked attempt that nobody has taken  *)
(* up, and a marked one, have used up all but the strays of their claims.  *)

Holding(phases, a) == {w \in Worker : call[w].pc \in phases /\ Current(w) = a}

Taken(a) == Holding({"put", "lesson", "day", "mark"}, a)
LessonDue(a) == Holding({"put", "lesson"}, a)
DayDue(a) == Holding({"put", "lesson", "day"}, a)

Claim(a) == IF Marked(a) \/ Taken(a) # {} THEN 1 ELSE 0

Counted(a) ==
    /\ IsFiniteSet(Taken(a))
    /\ lessons[a] + Cardinality(LessonDue(a)) <= strays[a] + Claim(a)
    /\ DayCount(a) + Cardinality(DayDue(a)) <= strays[a] + Claim(a)

CountInv == \A a \in Attempt : Counted(a)

LEMMA SizeWithout ==
    ASSUME NEW S, IsFiniteSet(S), NEW w
    PROVE  /\ IsFiniteSet(S \ {w}) /\ Cardinality(S \ {w}) \in Nat
           /\ Cardinality(S) = Cardinality(S \ {w}) + (IF w \in S THEN 1 ELSE 0)
<1>1. IsFiniteSet(S \ {w}) /\ Cardinality(S \ {w}) \in Nat /\ Cardinality(S) \in Nat
  BY FS_Difference, FS_CardinalityType
<1>2. CASE w \in S
  <2>1. (S \ {w}) \cup {w} = S /\ w \notin S \ {w}
    BY <1>2
  <2>2. Cardinality((S \ {w}) \cup {w}) = Cardinality(S \ {w}) + 1
    BY <1>1, <2>1, FS_AddElement
  <2>3. QED
    BY <1>1, <1>2, <2>1, <2>2
<1>3. CASE w \notin S
  <2>1. PICK n \in Nat : n = Cardinality(S)
    BY <1>1
  <2>2. Cardinality(S \ {w}) = n
    <3>1. S \ {w} = S
      BY <1>3
    <3>2. QED
      BY <2>1, <3>1
  <2>3. n = n + 0
    OBVIOUS
  <2>4. QED
    BY <1>1, <1>3, <2>1, <2>2, <2>3
<1>4. QED
  BY <1>2, <1>3

\* A step of w leaves all but w where they are.
LEMMA HoldingMoves ==
    ASSUME NEW w \in Worker, Apart(w), NEW phases, NEW a,
           IsFiniteSet(Holding(phases, a))
    PROVE  /\ Holding(phases, a)' \ {w} = Holding(phases, a) \ {w}
           /\ IsFiniteSet(Holding(phases, a)')
           /\ w \in Holding(phases, a) <=> call[w].pc \in phases /\ Current(w) = a
           /\ w \in Holding(phases, a)' <=> call'[w].pc \in phases /\ Current(w)' = a
           /\ \E n \in Nat :
                 /\ Cardinality(Holding(phases, a)) =
                       n + (IF w \in Holding(phases, a) THEN 1 ELSE 0)
                 /\ Cardinality(Holding(phases, a)') =
                       n + (IF w \in Holding(phases, a)' THEN 1 ELSE 0)
<1> PICK now : now = Holding(phases, a)
  OBVIOUS
<1> PICK then : then = Holding(phases, a)'
  OBVIOUS
<1>1. now \ {w} = then \ {w}
  BY DEF Apart, Holding, Current
<1>2. IsFiniteSet(now \ {w}) /\ Cardinality(now \ {w}) \in Nat
      /\ Cardinality(now) = Cardinality(now \ {w}) + (IF w \in now THEN 1 ELSE 0)
  BY SizeWithout
<1>3. IsFiniteSet(then)
  <2>1. IsFiniteSet((then \ {w}) \cup {w})
    BY <1>1, <1>2, FS_AddElement
  <2>2. then \subseteq (then \ {w}) \cup {w}
    OBVIOUS
  <2>3. QED
    BY <2>1, <2>2, FS_Subset
<1>4. Cardinality(then) = Cardinality(then \ {w}) + (IF w \in then THEN 1 ELSE 0)
  BY <1>3, SizeWithout
<1>5. /\ w \in now <=> call[w].pc \in phases /\ Current(w) = a
      /\ w \in then <=> call'[w].pc \in phases /\ Current(w)' = a
  BY DEF Holding
<1>6. QED
  BY <1>1, <1>2, <1>3, <1>4, <1>5

LEMMA CountStarts ==
    ASSUME Init
    PROVE  CountInv
<1> SUFFICES ASSUME NEW a \in Attempt PROVE Counted(a)
  BY DEF CountInv
<1>1. Taken(a) = {} /\ LessonDue(a) = {} /\ DayDue(a) = {}
  BY BlankIs DEF Init, Taken, LessonDue, DayDue, Holding
<1>2. Cardinality({}) = 0 /\ IsFiniteSet({})
  BY FS_EmptySet
<1>3. lessons[a] = 0 /\ strays[a] = 0 /\ DayCount(a) = 0
  BY DEF Init, Nothing, DayCount
<1>4. Claim(a) \in {0, 1}
  BY DEF Claim
<1>5. QED
  BY <1>1, <1>2, <1>3, <1>4 DEF Counted

\* What the handler of w is to an attempt, before a step and after it.
LEMMA CountsAre ==
    ASSUME TypeInv, CountInv, NEW w \in Worker, Serves(w), NEW a \in Attempt
    PROVE  /\ lessons[a] \in Nat /\ DayCount(a) \in Nat /\ strays[a] \in Nat
           /\ lessons'[a] \in Nat /\ Len(days'[a]) \in Nat /\ strays'[a] \in Nat
           /\ Taken(a)' \ {w} = Taken(a) \ {w} /\ IsFiniteSet(Taken(a)')
           /\ \E l, d \in Nat :
                 /\ lessons[a] + l + (IF w \in LessonDue(a) THEN 1 ELSE 0)
                       <= strays[a] + Claim(a)
                 /\ DayCount(a) + d + (IF w \in DayDue(a) THEN 1 ELSE 0)
                       <= strays[a] + Claim(a)
                 /\ Cardinality(LessonDue(a)') =
                       l + (IF w \in LessonDue(a)' THEN 1 ELSE 0)
                 /\ Cardinality(DayDue(a)') =
                       d + (IF w \in DayDue(a)' THEN 1 ELSE 0)
<1>1. Apart(w)
  BY DEF Serves, Sends, Starts, Skips, Repeats, Redrafts, TakesUp, Puts, CountsLesson,
         CountsDay, Marks, Settles, Writes, Answers, Dies, Advances, Stays
<1>2. /\ lessons[a] \in Nat /\ DayCount(a) \in Nat /\ strays[a] \in Nat
      /\ lessons'[a] \in Nat /\ Len(days'[a]) \in Nat /\ strays'[a] \in Nat
  <2>1. lessons \in Rewards /\ strays \in Rewards /\ days \in [Attempt -> Seq(Day)]
    BY DEF TypeInv, TypeOK
  <2>2. TypeInv'
    BY TypeKept
  <2>3. lessons' \in Rewards /\ strays' \in Rewards /\ days' \in [Attempt -> Seq(Day)]
    BY <2>2 DEF TypeInv, TypeOK
  <2>4. days[a] \in Seq(Day) /\ days'[a] \in Seq(Day)
    BY <2>1, <2>3
  <2>5. Len(days[a]) \in Nat /\ Len(days'[a]) \in Nat
    BY <2>4, LenProperties
  <2>6. QED
    BY <2>1, <2>3, <2>5 DEF Rewards, DayCount
<1>3. /\ Counted(a)
      /\ LessonDue(a) \subseteq Taken(a) /\ DayDue(a) \subseteq Taken(a)
  BY DEF CountInv, LessonDue, DayDue, Taken, Holding
<1>4. IsFiniteSet(Taken(a)) /\ IsFiniteSet(LessonDue(a)) /\ IsFiniteSet(DayDue(a))
  BY <1>3, FS_Subset DEF Counted
<1>5. Taken(a)' \ {w} = Taken(a) \ {w} /\ IsFiniteSet(Taken(a)')
  BY <1>1, <1>4, HoldingMoves DEF Taken
<1>6. PICK l \in Nat :
        /\ Cardinality(LessonDue(a)) = l + (IF w \in LessonDue(a) THEN 1 ELSE 0)
        /\ Cardinality(LessonDue(a)') = l + (IF w \in LessonDue(a)' THEN 1 ELSE 0)
  BY <1>1, <1>4, HoldingMoves DEF LessonDue
<1>7. PICK d \in Nat :
        /\ Cardinality(DayDue(a)) = d + (IF w \in DayDue(a) THEN 1 ELSE 0)
        /\ Cardinality(DayDue(a)') = d + (IF w \in DayDue(a)' THEN 1 ELSE 0)
  BY <1>1, <1>4, HoldingMoves DEF DayDue
<1>8. /\ lessons[a] + l + (IF w \in LessonDue(a) THEN 1 ELSE 0) <= strays[a] + Claim(a)
      /\ DayCount(a) + d + (IF w \in DayDue(a) THEN 1 ELSE 0) <= strays[a] + Claim(a)
  <2>1. Claim(a) \in Nat
    BY DEF Claim
  <2>2. /\ lessons[a] + Cardinality(LessonDue(a)) <= strays[a] + Claim(a)
        /\ DayCount(a) + Cardinality(DayDue(a)) <= strays[a] + Claim(a)
    BY <1>3 DEF Counted
  <2>3. PICK m \in Nat, n \in Nat :
          /\ m = (IF w \in LessonDue(a) THEN 1 ELSE 0)
          /\ n = (IF w \in DayDue(a) THEN 1 ELSE 0)
    OBVIOUS
  <2>4. lessons[a] + (l + m) = lessons[a] + l + m
        /\ DayCount(a) + (d + n) = DayCount(a) + d + n
    BY SMTT(30), <1>2, <2>3
  <2>5. QED
    BY <1>6, <1>7, <2>2, <2>3, <2>4
<1>9. QED
  BY <1>2, <1>5, <1>6, <1>7, <1>8

\* The date is added behind the others.
LEMMA DayGrows ==
    ASSUME TypeInv, NEW w \in Worker, CountsDay(w), NEW a \in Attempt
    PROVE  Len(days'[a]) = DayCount(a) + (IF a = Current(w) THEN 1 ELSE 0)
<1>1. days \in [Attempt -> Seq(Day)] /\ day \in Day
  BY DEF TypeInv, TypeOK
<1>2. PICK b \in Attempt : b = Current(w)
  BY CurrentIs DEF CountsDay, Stays
<1>3. PICK s \in Seq(Day) : s = days[b]
  BY <1>1
<1>4. Len(Append(s, day)) = Len(s) + 1
  BY <1>1, AppendProperties
<1>5. days' = [days EXCEPT ![b] = Append(s, day)]
  BY <1>1, <1>2, <1>3 DEF CountsDay
<1>6. CASE a = b
  BY <1>1, <1>2, <1>3, <1>4, <1>5, <1>6 DEF DayCount
<1>7. CASE a # b
  <2>1. days[a] \in Seq(Day) /\ days'[a] = days[a]
    BY <1>1, <1>5, <1>7
  <2>2. Len(days[a]) \in Nat
    BY <2>1, LenProperties
  <2>3. QED
    BY <1>2, <1>7, <2>1, <2>2 DEF DayCount
<1>8. QED
  BY <1>6, <1>7

\* No step counts an attempt once more but at the cost of a claim or of a stray.
LEMMA CountKept ==
    ASSUME TypeInv, StoredInv, CountInv, NEW w \in Worker, Serves(w), NEW a \in Attempt
    PROVE  Counted(a)'
<1> USE DEF Outside, Rows, store, client
<1>1. PICK l \in Nat, d \in Nat :
        /\ lessons[a] + l + (IF w \in LessonDue(a) THEN 1 ELSE 0) <= strays[a] + Claim(a)
        /\ DayCount(a) + d + (IF w \in DayDue(a) THEN 1 ELSE 0) <= strays[a] + Claim(a)
        /\ Cardinality(LessonDue(a)') = l + (IF w \in LessonDue(a)' THEN 1 ELSE 0)
        /\ Cardinality(DayDue(a)') = d + (IF w \in DayDue(a)' THEN 1 ELSE 0)
  BY CountsAre
<1>2. /\ lessons[a] \in Nat /\ DayCount(a) \in Nat /\ strays[a] \in Nat
      /\ lessons'[a] \in Nat /\ Len(days'[a]) \in Nat /\ strays'[a] \in Nat
      /\ Taken(a)' \ {w} = Taken(a) \ {w} /\ IsFiniteSet(Taken(a)')
  BY CountsAre
<1>3. /\ w \in Taken(a) <=>
            call[w].pc \in {"put", "lesson", "day", "mark"} /\ Current(w) = a
      /\ w \in LessonDue(a) <=> call[w].pc \in {"put", "lesson"} /\ Current(w) = a
      /\ w \in DayDue(a) <=> call[w].pc \in {"put", "lesson", "day"} /\ Current(w) = a
  BY DEF Taken, LessonDue, DayDue, Holding
<1>4. /\ w \in Taken(a)' <=>
            call'[w].pc \in {"put", "lesson", "day", "mark"} /\ Current(w)' = a
      /\ w \in LessonDue(a)' <=> call'[w].pc \in {"put", "lesson"} /\ Current(w)' = a
      /\ w \in DayDue(a)' <=> call'[w].pc \in {"put", "lesson", "day"} /\ Current(w)' = a
  BY DEF Taken, LessonDue, DayDue, Holding
<1>5. Marked(a) => Marked(a)'
  BY MarksStay
<1>6. Claim(a) \in {0, 1} /\ Claim(a)' \in {0, 1}
  BY DEF Claim
<1>7. /\ w \in Taken(a) => Claim(a) = 1
      /\ w \in Taken(a)' \/ Marked(a)' => Claim(a)' = 1
  BY DEF Claim
<1>8. TakesUp(w) \/ Puts(w) \/ CountsLesson(w) \/ CountsDay(w) =>
         Current(w)' = Current(w)
  BY DEF TakesUp, Puts, CountsLesson, CountsDay, Stays, Current
<1>9. \* The sum that no step lets grow.
      ASSUME NEW m \in {0, 1}, NEW n \in {0, 1},
             m = (IF w \in LessonDue(a)' THEN 1 ELSE 0),
             n = (IF w \in DayDue(a)' THEN 1 ELSE 0),
             lessons'[a] + l + m <= strays'[a] + Claim(a)',
             Len(days'[a]) + d + n <= strays'[a] + Claim(a)'
      PROVE  Counted(a)'
  <2>1. /\ Cardinality(LessonDue(a)') = l + m /\ Cardinality(DayDue(a)') = d + n
    BY <1>1, <1>9
  <2>2. /\ lessons'[a] + (l + m) = lessons'[a] + l + m
        /\ Len(days'[a]) + (d + n) = Len(days'[a]) + d + n
    <3>1. \A x, y, z \in Nat : x + (y + z) = x + y + z
      OBVIOUS
    <3>2. m \in Nat /\ n \in Nat
      OBVIOUS
    <3>3. PICK x \in Nat, y \in Nat : x = lessons'[a] /\ y = Len(days'[a])
      BY <1>2
    <3>4. x + (l + m) = x + l + m /\ y + (d + n) = y + d + n
      BY <3>1, <3>2
    <3>5. QED
      BY <3>3, <3>4
  <2>3. DayCount(a)' = Len(days'[a])
    BY DEF DayCount
  <2>4. QED
    BY <1>2, <1>9, <2>1, <2>2, <2>3 DEF Counted
<1>10. CASE /\ TakesUp(w) \/ Puts(w) \/ CountsLesson(w) \/ CountsDay(w)
            /\ Current(w) = a
  <2>1. CASE TakesUp(w)
    <3>1. /\ w \notin Taken(a) /\ w \notin LessonDue(a) /\ w \notin DayDue(a)
          /\ w \in Taken(a)' /\ w \in LessonDue(a)' /\ w \in DayDue(a)'
      BY <1>3, <1>4, <1>8, <1>10, <2>1 DEF TakesUp, At
    <3>2. Claim(a)' = 1 /\ lessons' = lessons /\ days' = days
      BY <1>7, <2>1, <3>1 DEF TakesUp
    <3>3. TakenUp(w, a) <=> Taken(a) # {}
      BY <3>1 DEF TakenUp, Taken, Holding
    <3>4. Claim(a) = (IF TakenUp(w, a) THEN 1 ELSE 0)
      BY <1>10, <2>1, <3>3 DEF TakesUp, Claim
    <3>5. strays'[a] = strays[a] + (IF TakenUp(w, a) THEN 1 ELSE 0)
      <4>1. strays' = IF TakenUp(w, a) THEN [strays EXCEPT ![a] = @ + 1] ELSE strays
        BY <1>10, <2>1 DEF TakesUp
      <4>2. DOMAIN strays = Attempt
        BY DEF TypeInv, TypeOK, Rewards
      <4>3. QED
        BY <1>2, <4>1, <4>2
    <3>6. /\ lessons'[a] + l + 1 <= strays'[a] + Claim(a)'
          /\ Len(days'[a]) + d + 1 <= strays'[a] + Claim(a)'
      BY SMTT(30), <1>1, <1>2, <3>1, <3>2, <3>4, <3>5 DEF DayCount
    <3>7. QED
      BY <1>9, <3>1, <3>6
  <2>2. CASE Puts(w)
    <3>1. /\ w \in Taken(a) /\ w \in LessonDue(a) /\ w \in DayDue(a)
          /\ w \in Taken(a)' /\ w \in LessonDue(a)' /\ w \in DayDue(a)'
      BY <1>3, <1>4, <1>8, <1>10, <2>2 DEF Puts, At
    <3>2. /\ Claim(a) = 1 /\ Claim(a)' = 1
          /\ lessons' = lessons /\ days' = days /\ strays' = strays
      BY <1>7, <2>2, <3>1 DEF Puts
    <3>3. /\ lessons'[a] + l + 1 <= strays'[a] + Claim(a)'
          /\ Len(days'[a]) + d + 1 <= strays'[a] + Claim(a)'
      BY <1>1, <1>2, <3>1, <3>2 DEF DayCount
    <3>4. QED
      BY <1>9, <3>1, <3>3
  <2>3. CASE CountsLesson(w)
    <3>1. /\ w \in Taken(a) /\ w \in LessonDue(a) /\ w \in DayDue(a)
          /\ w \in Taken(a)' /\ w \notin LessonDue(a)' /\ w \in DayDue(a)'
      BY <1>3, <1>4, <1>8, <1>10, <2>3 DEF CountsLesson, At
    <3>2. /\ Claim(a) = 1 /\ Claim(a)' = 1 /\ days' = days /\ strays' = strays
      BY <1>7, <2>3, <3>1 DEF CountsLesson
    <3>3. lessons'[a] = lessons[a] + 1
      BY <1>10, <2>3 DEF CountsLesson, TypeInv, TypeOK, Rewards
    <3>4. /\ lessons'[a] + l + 0 <= strays'[a] + Claim(a)'
          /\ Len(days'[a]) + d + 1 <= strays'[a] + Claim(a)'
      BY <1>1, <1>2, <3>1, <3>2, <3>3 DEF DayCount
    <3>5. QED
      BY <1>9, <3>1, <3>4
  <2>4. CASE CountsDay(w)
    <3>1. /\ w \in Taken(a) /\ w \notin LessonDue(a) /\ w \in DayDue(a)
          /\ w \in Taken(a)' /\ w \notin LessonDue(a)' /\ w \notin DayDue(a)'
      BY <1>3, <1>4, <1>8, <1>10, <2>4 DEF CountsDay, At
    <3>2. /\ Claim(a) = 1 /\ Claim(a)' = 1 /\ lessons' = lessons /\ strays' = strays
      BY <1>7, <2>4, <3>1 DEF CountsDay
    <3>3. Len(days'[a]) = DayCount(a) + 1
      BY <1>10, <2>4, DayGrows
    <3>4. /\ lessons'[a] + l + 0 <= strays'[a] + Claim(a)'
          /\ Len(days'[a]) + d + 0 <= strays'[a] + Claim(a)'
      BY <1>1, <1>2, <3>1, <3>2, <3>3
    <3>5. QED
      BY <1>9, <3>1, <3>4
  <2>5. QED
    BY <1>10, <2>1, <2>2, <2>3, <2>4
<1>11. CASE Marks(w) /\ Current(w) = a
  <2>1. /\ w \in Taken(a) /\ w \notin LessonDue(a) /\ w \notin DayDue(a)
        /\ w \notin LessonDue(a)' /\ w \notin DayDue(a)'
    BY <1>3, <1>4, <1>11 DEF Marks, Advances, At
  <2>2. Marked(a)'
    <3>1. Known(a)
      BY <1>11 DEF Marks, At, StoredInv
    <3>2. applied'[a] = TRUE
      BY <1>11, <3>1 DEF Marks
    <3>3. QED
      BY <3>2 DEF Marked
  <2>3. /\ Claim(a) = 1 /\ Claim(a)' = 1
        /\ lessons' = lessons /\ days' = days /\ strays' = strays
    BY <1>7, <1>11, <2>1, <2>2 DEF Marks
  <2>4. /\ lessons'[a] + l + 0 <= strays'[a] + Claim(a)'
        /\ Len(days'[a]) + d + 0 <= strays'[a] + Claim(a)'
    BY <1>1, <1>2, <2>1, <2>3 DEF DayCount
  <2>5. QED
    BY <1>9, <2>1, <2>4
<1>12. CASE (Skips(w) \/ Dies(w)) /\ w \in Taken(a)
  <2>1. w \notin LessonDue(a)' /\ w \notin DayDue(a)'
    BY <1>4, <1>12, BlankIs DEF Skips, Dies, Advances
  <2>2. Claim(a) = 1 /\ lessons' = lessons /\ days' = days
    BY <1>7, <1>12 DEF Skips, Dies
  <2>3. CASE call[w].pc \notin {"day", "mark"} /\ strays' = strays
    <3>1. w \in LessonDue(a) /\ w \in DayDue(a)
      BY <1>3, <1>12, <2>3
    <3>2. /\ lessons'[a] + l + 0 <= strays'[a] + Claim(a)'
          /\ Len(days'[a]) + d + 0 <= strays'[a] + Claim(a)'
      BY SMTT(30), <1>1, <1>2, <1>6, <2>2, <2>3, <3>1 DEF DayCount
    <3>3. QED
      BY <1>9, <2>1, <3>2
  <2>4. CASE strays' = [strays EXCEPT ![Current(w)] = @ + 1]
    <3>1. strays'[a] = strays[a] + 1
      BY <1>3, <1>12, <2>4 DEF TypeInv, TypeOK, Rewards
    <3>2. PICK m \in {0, 1}, n \in {0, 1} :
            /\ m = (IF w \in LessonDue(a) THEN 1 ELSE 0)
            /\ n = (IF w \in DayDue(a) THEN 1 ELSE 0)
      OBVIOUS
    <3>3. lessons[a] + l + m <= strays[a] + 1 /\ DayCount(a) + d + n <= strays[a] + 1
      BY <1>1, <2>2, <3>2
    <3>4. /\ lessons'[a] + l + 0 <= strays'[a] + Claim(a)'
          /\ Len(days'[a]) + d + 0 <= strays'[a] + Claim(a)'
      <4>1. PICK x \in Nat, y \in Nat, s \in Nat, c \in {0, 1} :
              x = lessons[a] /\ y = DayCount(a) /\ s = strays[a] /\ c = Claim(a)'
        BY <1>2, <1>6
      <4>2. x + l + m <= s + 1 /\ y + d + n <= s + 1
        BY <3>3, <4>1
      <4>3. x + l + 0 <= (s + 1) + c /\ y + d + 0 <= (s + 1) + c
        BY <4>2
      <4>4. lessons'[a] = x /\ Len(days'[a]) = y /\ strays'[a] = s + 1
        BY <2>2, <3>1, <4>1 DEF DayCount
      <4>5. QED
        BY <4>1, <4>3, <4>4
    <3>5. QED
      BY <1>9, <2>1, <3>4
  <2>5. QED
    BY <1>12, <2>3, <2>4 DEF Skips, Dies
<1>13. CASE /\ Current(w) = a => ~(\/ TakesUp(w) \/ Puts(w) \/ CountsLesson(w)
                                   \/ CountsDay(w) \/ Marks(w))
            /\ Skips(w) \/ Dies(w) => w \notin Taken(a)
  <2>1. w \notin Taken(a) /\ w \notin Taken(a)'
    <3>1. CASE TakesUp(w) \/ Puts(w) \/ CountsLesson(w) \/ CountsDay(w) \/ Marks(w)
      BY <1>3, <1>4, <1>8, <1>13, <3>1 DEF Marks, Advances
    <3>2. CASE ~(\/ TakesUp(w) \/ Puts(w) \/ CountsLesson(w) \/ CountsDay(w)
                 \/ Marks(w))
      BY <1>3, <1>4, <1>13, <3>2, BlankIs
         DEF Serves, Sends, Starts, Skips, Repeats, Redrafts, Settles, Writes, Answers,
             Dies, Advances, At
    <3>3. QED
      BY <3>1, <3>2
  <2>2. Claim(a) <= Claim(a)'
    BY <1>2, <1>5, <1>6, <2>1 DEF Claim
  <2>3. lessons'[a] = lessons[a]
    <3>1. CASE CountsLesson(w)
      BY <1>13, <3>1 DEF CountsLesson, TypeInv, TypeOK, Rewards
    <3>2. QED
      BY <3>1
         DEF Serves, Sends, Starts, Skips, Repeats, Redrafts, TakesUp, Puts,
             CountsDay, Marks, Settles, Writes, Answers, Dies
  <2>4. Len(days'[a]) = DayCount(a)
    <3>1. CASE CountsDay(w)
      BY <1>2, <1>13, <3>1, DayGrows
    <3>2. QED
      BY <3>1
         DEF Serves, Sends, Starts, Skips, Repeats, Redrafts, TakesUp, Puts,
             CountsLesson, Marks, Settles, Writes, Answers, Dies, DayCount
  <2>5. strays'[a] >= strays[a]
    <3>1. PICK b : b = Current(w)
      OBVIOUS
    <3>2. CASE strays' = strays
      BY <1>2, <3>2
    <3>3. CASE strays' = [strays EXCEPT ![b] = @ + 1]
      <4>1. strays \in Rewards
        BY DEF TypeInv, TypeOK
      <4>2. strays'[a] \in {strays[a], strays[a] + 1}
        BY <3>3, <4>1 DEF Rewards
      <4>3. QED
        BY <1>2, <4>2
    <3>4. QED
      BY <3>1, <3>2, <3>3
         DEF Serves, Sends, Starts, Skips, Repeats, Redrafts, TakesUp, Puts,
             CountsLesson, CountsDay, Marks, Settles, Writes, Answers, Dies
  <2>6. /\ w \notin LessonDue(a) /\ w \notin DayDue(a)
        /\ w \notin LessonDue(a)' /\ w \notin DayDue(a)'
    BY <1>3, <1>4, <2>1
  <2>7. /\ lessons'[a] + l + 0 <= strays'[a] + Claim(a)'
        /\ Len(days'[a]) + d + 0 <= strays'[a] + Claim(a)'
    BY SMTT(30), <1>1, <1>2, <1>6, <2>2, <2>3, <2>4, <2>5, <2>6
  <2>8. QED
    BY <1>9, <2>6, <2>7
<1>14. QED
  BY <1>10, <1>11, <1>12, <1>13

LEMMA CountKeptElsewhere ==
    ASSUME CountInv, Elsewhere
    PROVE  CountInv'
<1>1. lessons' = lessons /\ days' = days /\ applied' = applied /\ call' = call
      /\ strays' = strays
  BY DEF Elsewhere, store
<1>2. QED
  BY <1>1 DEF CountInv, Counted, Claim, Marked, DayCount, Taken, LessonDue, DayDue,
              Holding, Current

\* A worker that has passed a rollup has left the attempt in it, and the mark comes
\* last.
LandedInv ==
    /\ \A a \in Attempt : Marked(a) => lessons[a] >= 1 /\ DayCount(a) >= 1
    /\ \A w \in Worker : call[w].pc \in {"day", "mark"} => lessons[Current(w)] >= 1
    /\ \A w \in Worker : call[w].pc = "mark" => DayCount(Current(w)) >= 1

\* Nor is anything taken out of the rollups.
LEMMA RollupsGrow ==
    ASSUME TypeInv, NEW w \in Worker, Serves(w), NEW a \in Attempt
    PROVE  /\ lessons[a] \in Nat /\ lessons'[a] \in Nat
           /\ lessons'[a] = lessons[a] + (IF CountsLesson(w) /\ a = Current(w) THEN 1 ELSE 0)
           /\ DayCount(a) \in Nat /\ Len(days'[a]) \in Nat
           /\ Len(days'[a]) = DayCount(a) + (IF CountsDay(w) /\ a = Current(w) THEN 1 ELSE 0)
<1> USE DEF Outside, Rows, store, client
<1>1. lessons \in Rewards /\ days \in [Attempt -> Seq(Day)]
  BY DEF TypeInv, TypeOK
<1>2. days[a] \in Seq(Day) /\ Len(days[a]) \in Nat /\ lessons[a] \in Nat
  BY <1>1, LenProperties DEF Rewards
<1>3. lessons'[a] = lessons[a] + (IF CountsLesson(w) /\ a = Current(w) THEN 1 ELSE 0)
  <2>1. CASE CountsLesson(w)
    <3>1. PICK b : b = Current(w)
      OBVIOUS
    <3>2. lessons' = [lessons EXCEPT ![b] = @ + 1]
      BY <2>1, <3>1 DEF CountsLesson
    <3>3. QED
      BY <1>1, <1>2, <2>1, <3>1, <3>2 DEF Rewards
  <2>2. CASE ~CountsLesson(w)
    <3>1. lessons' = lessons
      BY <2>2
         DEF Serves, Sends, Starts, Skips, Repeats, Redrafts, TakesUp, Puts,
             CountsDay, Marks, Settles, Writes, Answers, Dies
    <3>2. QED
      BY <1>2, <2>2, <3>1
  <2>3. QED
    BY <2>1, <2>2
<1>4. Len(days'[a]) = DayCount(a) + (IF CountsDay(w) /\ a = Current(w) THEN 1 ELSE 0)
  <2>1. CASE CountsDay(w)
    BY <2>1, DayGrows
  <2>2. CASE ~CountsDay(w)
    <3>1. days' = days
      BY <2>2
         DEF Serves, Sends, Starts, Skips, Repeats, Redrafts, TakesUp, Puts,
             CountsLesson, Marks, Settles, Writes, Answers, Dies
    <3>2. QED
      BY <1>2, <2>2, <3>1 DEF DayCount
  <2>3. QED
    BY <2>1, <2>2
<1>5. DayCount(a) \in Nat
  BY <1>2 DEF DayCount
<1>6. lessons'[a] \in Nat /\ Len(days'[a]) \in Nat
  <2>1. CASE CountsLesson(w) /\ a = Current(w)
    BY <1>2, <1>3, <1>4, <1>5, <2>1
  <2>2. CASE ~(CountsLesson(w) /\ a = Current(w))
    BY <1>2, <1>3, <1>4, <1>5, <2>2
  <2>3. QED
    BY <2>1, <2>2
<1>7. QED
  BY <1>2, <1>3, <1>4, <1>5, <1>6

LEMMA LandedStarts ==
    ASSUME Init
    PROVE  LandedInv
<1>1. \A w \in Worker : call[w].pc = "idle"
  BY BlankIs DEF Init
<1>2. ASSUME NEW a \in Attempt
      PROVE  ~Marked(a)
  <2>1. applied[a] = None /\ None # TRUE
    BY ProgressConstants DEF Init
  <2>2. QED
    BY <2>1 DEF Marked
<1>3. QED
  BY <1>1, <1>2 DEF LandedInv

LEMMA LandedKept ==
    ASSUME TypeInv, LandedInv, NEW w \in Worker, Serves(w)
    PROVE  LandedInv'
<1> USE DEF Outside, Rows, store, client
<1>1. Apart(w)
  BY DEF Serves, Sends, Starts, Skips, Repeats, Redrafts, TakesUp, Puts, CountsLesson,
         CountsDay, Marks, Settles, Writes, Answers, Dies, Advances, Stays
<1>2. \A a \in Attempt :
        /\ lessons[a] >= 1 => lessons'[a] >= 1
        /\ DayCount(a) >= 1 => Len(days'[a]) >= 1
        /\ CountsLesson(w) /\ a = Current(w) => lessons'[a] >= 1
        /\ CountsDay(w) /\ a = Current(w) => Len(days'[a]) >= 1
  BY RollupsGrow
<1>3. call[w].pc \in InLoop => Current(w) \in Attempt
  BY CurrentIs
<1>4. ASSUME NEW a \in Attempt, Marked(a)'
      PROVE  lessons'[a] >= 1 /\ Len(days'[a]) >= 1
  <2>1. CASE Marked(a)
    BY <1>2, <2>1 DEF LandedInv
  <2>2. CASE Marks(w) /\ a = Current(w)
    BY <1>2, <2>2 DEF Marks, At, LandedInv
  <2>3. CASE ~Marked(a) /\ ~(Marks(w) /\ a = Current(w))
    <3>1. CASE Marks(w)
      BY <1>4, <2>3, <3>1 DEF Marks, Marked
    <3>2. CASE Puts(w)
      BY <1>4, <2>3, <3>2 DEF Puts
    <3>3. CASE ~Marks(w) /\ ~Puts(w)
      <4>1. applied' = applied
        BY <3>3
           DEF Serves, Sends, Starts, Skips, Repeats, Redrafts, TakesUp, CountsLesson,
               CountsDay, Settles, Writes, Answers, Dies
      <4>2. QED
        BY <1>4, <2>3, <4>1 DEF Marked
    <3>4. QED
      BY <3>1, <3>2, <3>3
  <2>4. QED
    BY <2>1, <2>2, <2>3
<1>5. ASSUME NEW v \in Worker, call'[v].pc \in {"day", "mark"}
      PROVE  /\ Current(v)' \in Attempt
             /\ lessons'[Current(v)'] >= 1
             /\ call'[v].pc = "mark" => Len(days'[Current(v)']) >= 1
  <2>1. CASE v # w
    <3>1. call'[v] = call[v] /\ Current(v)' = Current(v) /\ Current(v) \in Attempt
      BY <1>1, <1>5, <2>1, CurrentIs DEF Apart, Current, InLoop
    <3>2. QED
      BY <1>2, <1>5, <3>1 DEF LandedInv
  <2>2. CASE v = w
    <3>1. CountsLesson(w) \/ CountsDay(w)
      BY <1>5, <2>2, BlankIs
         DEF Serves, Sends, Starts, Skips, Repeats, Redrafts, TakesUp, Puts, Marks,
             Settles, Writes, Answers, Dies, Advances
    <3>2. Current(w)' = Current(w) /\ Current(w) \in Attempt
      BY <1>3, <3>1 DEF CountsLesson, CountsDay, Stays, Current
    <3>3. CASE CountsLesson(w)
      BY <1>2, <2>2, <3>2, <3>3 DEF CountsLesson
    <3>4. CASE CountsDay(w)
      BY <1>2, <2>2, <3>2, <3>4 DEF CountsDay, At, LandedInv
    <3>5. QED
      BY <3>1, <3>3, <3>4
  <2>3. QED
    BY <2>1, <2>2
<1>6. \A a \in Attempt : DayCount(a)' = Len(days'[a])
  BY DEF DayCount
<1>7. ASSUME NEW v \in Worker
      PROVE  /\ call'[v].pc \in {"day", "mark"} => lessons'[Current(v)'] >= 1
             /\ call'[v].pc = "mark" => DayCount(Current(v))' >= 1
  BY <1>5 DEF DayCount
<1>8. QED
  BY <1>4, <1>6, <1>7 DEF LandedInv

LEMMA LandedKeptElsewhere ==
    ASSUME LandedInv, Elsewhere
    PROVE  LandedInv'
<1>1. lessons' = lessons /\ days' = days /\ applied' = applied /\ call' = call
  BY DEF Elsewhere, store
<1>2. QED
  BY <1>1 DEF LandedInv, Marked, DayCount, Current

\* The row in the table, and each row that a worker may still write, is behind the
\* day rollups: an attempt is added to them before it is paid for.
Owed(w) == call[w].earned \cup (IF At(w, "mark") THEN {Current(w)} ELSE {})

BehindInv ==
    \A a \in Attempt :
        /\ user.xp[a] <= DayCount(a)
        /\ \A w \in Worker :
              call[w].pc \in Working =>
                 call[w].base.xp[a] + (IF a \in Owed(w) THEN 1 ELSE 0) <= DayCount(a)

LEMMA BehindStarts ==
    ASSUME Init
    PROVE  BehindInv
<1>1. \A w \in Worker : call[w].pc = "idle"
  BY BlankIs DEF Init
<1>2. \A a \in Attempt : user.xp[a] = 0 /\ DayCount(a) = 0
  BY DEF Init, NewUser, Nothing, DayCount
<1>3. QED
  BY <1>1, <1>2 DEF BehindInv, Working, InLoop

LEMMA BehindKept ==
    ASSUME TypeInv, BehindInv, NEW w \in Worker, Serves(w), NEW a \in Attempt
    PROVE  /\ user'.xp[a] <= DayCount(a)'
           /\ \A v \in Worker :
                 call'[v].pc \in Working =>
                    call'[v].base.xp[a] + (IF a \in Owed(v)' THEN 1 ELSE 0)
                       <= DayCount(a)'
<1> USE DEF Outside, Rows, store, client
<1>1. Apart(w)
  BY DEF Serves, Sends, Starts, Skips, Repeats, Redrafts, TakesUp, Puts, CountsLesson,
         CountsDay, Marks, Settles, Writes, Answers, Dies, Advances, Stays
<1>2. /\ DayCount(a) \in Nat /\ DayCount(a)' \in Nat
      /\ DayCount(a)' = DayCount(a) + (IF CountsDay(w) /\ a = Current(w) THEN 1 ELSE 0)
  BY RollupsGrow DEF DayCount
<1>3. DayCount(a) <= DayCount(a)'
  <2>1. CASE CountsDay(w) /\ a = Current(w)
    BY <1>2, <2>1
  <2>2. CASE ~(CountsDay(w) /\ a = Current(w))
    BY <1>2, <2>2
  <2>3. QED
    BY <2>1, <2>2
<1>4. /\ user.xp[a] \in Nat /\ user'.xp[a] \in Nat
      /\ \A v \in Worker : call[v].base.xp[a] \in Nat
  <2>1. user \in UserRow /\ user' \in UserRow
    BY TypeKept DEF TypeInv, TypeOK
  <2>2. \A v \in Worker : call[v].base \in UserRow
    BY OneCall
  <2>3. QED
    BY <2>1, <2>2 DEF UserRow, Rewards
<1>5. user'.xp[a] <= DayCount(a)'
  <2>1. CASE Writes(w)
    <3>1. user'.xp[a] = call[w].base.xp[a] + (IF a \in call[w].earned THEN 1 ELSE 0)
      BY <2>1, CreditedIs DEF Writes
    <3>2. Owed(w) = call[w].earned /\ call[w].pc \in Working
      BY <2>1 DEF Writes, Owed, At, Working
    <3>3. QED
      BY <1>2, <1>3, <1>4, <3>1, <3>2 DEF BehindInv
  <2>2. CASE ~Writes(w)
    <3>1. user' = user
      BY <2>2
         DEF Serves, Sends, Starts, Skips, Repeats, Redrafts, TakesUp, Puts, CountsLesson,
             CountsDay, Marks, Settles, Answers, Dies
    <3>2. user.xp[a] <= DayCount(a)
      BY DEF BehindInv
    <3>3. QED
      BY <1>2, <1>3, <1>4, <3>1, <3>2
  <2>3. QED
    BY <2>1, <2>2
<1>6. ASSUME NEW v \in Worker, call'[v].pc \in Working,
             call[v].pc \in Working, call'[v].base.xp = call[v].base.xp,
             a \in Owed(v)' => a \in Owed(v)
      PROVE  call'[v].base.xp[a] + (IF a \in Owed(v)' THEN 1 ELSE 0) <= DayCount(a)'
  <2>1. PICK x \in Nat : x = call[v].base.xp[a]
    BY <1>4
  <2>2. x + (IF a \in Owed(v) THEN 1 ELSE 0) <= DayCount(a)
    BY <1>6, <2>1 DEF BehindInv
  <2>3. x + (IF a \in Owed(v)' THEN 1 ELSE 0) <= x + (IF a \in Owed(v) THEN 1 ELSE 0)
    BY <1>6, <2>1
  <2>4. x + (IF a \in Owed(v)' THEN 1 ELSE 0) <= DayCount(a)'
    <3>1. PICK m \in {0, 1}, n \in {0, 1} :
            /\ m = (IF a \in Owed(v) THEN 1 ELSE 0)
            /\ n = (IF a \in Owed(v)' THEN 1 ELSE 0)
      OBVIOUS
    <3>2. x + m <= DayCount(a) /\ x + n <= x + m
      BY <2>2, <2>3, <3>1
    <3>3. x + n <= DayCount(a)'
      BY <1>2, <1>3, <2>1, <3>2
    <3>4. QED
      BY <3>1, <3>3
  <2>5. QED
    BY <1>6, <2>1, <2>4
<1>7. ASSUME NEW v \in Worker \ {w}, call'[v].pc \in Working
      PROVE  call'[v].base.xp[a] + (IF a \in Owed(v)' THEN 1 ELSE 0) <= DayCount(a)'
  <2>1. call'[v] = call[v]
    BY <1>1 DEF Apart
  <2>2. Owed(v)' = Owed(v)
    BY <2>1 DEF Owed, At, Current
  <2>3. QED
    BY <1>6, <1>7, <2>1, <2>2
<1>8. ASSUME call'[w].pc \in Working
      PROVE  call'[w].base.xp[a] + (IF a \in Owed(w)' THEN 1 ELSE 0) <= DayCount(a)'
  <2>1. CASE Starts(w)
    <3>1. Owed(w)' = {} /\ call'[w].base = user
      BY <2>1 DEF Starts, Owed, At
    <3>2. user.xp[a] <= DayCount(a) /\ user.xp[a] + 0 = user.xp[a]
      BY <1>4 DEF BehindInv
    <3>3. QED
      BY <1>2, <1>3, <1>4, <3>1, <3>2
  <2>2. CASE CountsDay(w) /\ a = Current(w)
    <3>1. /\ call'[w].base.xp = call[w].base.xp /\ call[w].pc \in Working
          /\ DayCount(a)' = DayCount(a) + 1
      BY <1>2, <2>2 DEF CountsDay, Stays, Carries, Working
    <3>2. PICK x \in Nat : x = call[w].base.xp[a]
      BY <1>4
    <3>3. x + (IF a \in Owed(w) THEN 1 ELSE 0) <= DayCount(a)
      BY <3>1, <3>2 DEF BehindInv
    <3>4. x <= DayCount(a)
      BY <1>2, <3>2, <3>3
    <3>5. x + (IF a \in Owed(w)' THEN 1 ELSE 0) <= DayCount(a) + 1
      BY <1>2, <3>2, <3>4
    <3>6. QED
      BY <3>1, <3>2, <3>5
  <2>3. CASE ~Starts(w) /\ ~(CountsDay(w) /\ a = Current(w))
    <3>1. call[w].pc \in Working /\ call'[w].base.xp = call[w].base.xp
      BY <1>8, <2>3, BlankIs
         DEF Serves, Sends, Skips, Repeats, Redrafts, TakesUp, Puts, CountsLesson,
             CountsDay, Marks, Settles, Writes, Answers, Dies, Advances, Stays, Carries,
             Working, InLoop
    <3>2. a \in Owed(w)' => a \in Owed(w)
      <4>1. CASE CountsDay(w)
        <5>1. Current(w)' = Current(w) /\ a # Current(w)
          BY <2>3, <4>1 DEF CountsDay, Stays, Current
        <5>2. QED
          BY <4>1, <5>1 DEF CountsDay, Stays, Carries, Owed
      <4>2. CASE Marks(w)
        BY <4>2 DEF Marks, Carries, Advances, Owed, At
      <4>3. CASE ~CountsDay(w) /\ ~Marks(w)
        <5>1. call'[w].pc # "mark" /\ call'[w].earned = call[w].earned
          BY <1>8, <2>3, <4>3, BlankIs
             DEF Serves, Sends, Skips, Repeats, Redrafts, TakesUp, Puts, CountsLesson,
                 Settles, Writes, Answers, Dies, Advances, Stays, Carries, Working, InLoop
        <5>2. QED
          BY <5>1 DEF Owed, At
      <4>4. QED
        BY <4>1, <4>2, <4>3
    <3>3. QED
      BY <1>6, <1>8, <3>1, <3>2
  <2>4. QED
    BY <2>1, <2>2, <2>3
<1>9. QED
  BY <1>5, <1>7, <1>8

LEMMA BehindKeptElsewhere ==
    ASSUME BehindInv, Elsewhere
    PROVE  BehindInv'
<1>1. user' = user /\ days' = days /\ call' = call
  BY DEF Elsewhere, Rows, store
<1>2. QED
  BY <1>1 DEF BehindInv, DayCount, Owed, At, Current

\* An attempt is marked only when both rollups have it; they count it once, and once
\* more only for each request that broke off between them and the mark, or that took
\* up an attempt another one was at; and its XP is never more than the day rollups
\* count (_process_one_attempt, whatever overlaps, raises or dies).
THEOREM CountedOnceHolds ==
    ASSUME OwnKeys
    PROVE  Spec => []CountedOnce
<1> DEFINE Inv == StoredInv /\ CountInv /\ LandedInv /\ BehindInv
<1>1. Init => Inv
  BY StoredStarts, CountStarts, LandedStarts, BehindStarts
<1>2. TypeInv /\ Inv /\ [Next]_vars => Inv'
  <2>1. ASSUME TypeInv, Inv, NEW w \in Worker, Serves(w)
        PROVE  Inv'
    <3>1. CountInv'
      BY <2>1, CountKept DEF CountInv
    <3>2. BehindInv'
      BY <2>1, BehindKept DEF BehindInv
    <3>3. QED
      BY <2>1, <3>1, <3>2, StoredKept, LandedKept
  <2>2. ASSUME TypeInv, Inv, Elsewhere
        PROVE  Inv'
    BY <2>2, StoredKeptElsewhere, CountKeptElsewhere, LandedKeptElsewhere,
       BehindKeptElsewhere
  <2>3. QED
    BY <2>1, <2>2, StepCases
<1>3. TypeInv /\ Inv => CountedOnce
  <2> SUFFICES ASSUME TypeInv, Inv, NEW a \in Attempt
               PROVE  /\ Marked(a) => lessons[a] >= 1 /\ DayCount(a) >= 1
                      /\ lessons[a] <= 1 + strays[a] /\ DayCount(a) <= 1 + strays[a]
                      /\ user.xp[a] <= DayCount(a)
    BY DEF CountedOnce, Marked
  <2>1. /\ IsFiniteSet(Taken(a))
        /\ LessonDue(a) \subseteq Taken(a) /\ DayDue(a) \subseteq Taken(a)
    BY DEF CountInv, Counted, Taken, LessonDue, DayDue, Holding
  <2>2. /\ Cardinality(LessonDue(a)) \in Nat
        /\ Cardinality(DayDue(a)) \in Nat
    BY <2>1, FS_Subset, FS_CardinalityType
  <2>3. lessons[a] \in Nat /\ strays[a] \in Nat /\ DayCount(a) \in Nat
    <3>1. lessons \in Rewards /\ strays \in Rewards /\ days \in [Attempt -> Seq(Day)]
      BY DEF TypeInv, TypeOK
    <3>2. QED
      BY <3>1, LenProperties DEF Rewards, DayCount
  <2>4. Claim(a) \in {0, 1}
    BY DEF Claim
  <2>5. /\ lessons[a] + Cardinality(LessonDue(a)) <= strays[a] + Claim(a)
        /\ DayCount(a) + Cardinality(DayDue(a)) <= strays[a] + Claim(a)
    BY DEF CountInv, Counted
  <2>6. lessons[a] <= 1 + strays[a] /\ DayCount(a) <= 1 + strays[a]
    BY <2>2, <2>3, <2>4, <2>5
  <2>7. QED
    BY <2>6 DEF LandedInv, BehindInv
<1>4. QED
  BY <1>1, <1>2, <1>3, TypeInvHolds, PTL DEF Spec
=============================================================================
