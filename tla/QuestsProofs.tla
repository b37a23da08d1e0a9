---------------------------- MODULE QuestsProofs ----------------------------
(* Theorems about Quests, for every value of its constants. *)
EXTENDS Quests, TLAPS, FiniteSetTheorems

\* What a worker's local variables hold while it needs them.
Locals(c) ==
    /\ c.pc \in {"bumpWrite", "flip"} => c.quest \in QuestId
    /\ c.pc = "bumpWrite" => c.row \in Row /\ c.delta \in Delta
    /\ c.pc \in {"list", "query", "delete", "refetch", "restore", "refresh",
                 "wipe", "reseed", "pay", "zone"} => c.zone \in Zone
    /\ c.pc \in {"list", "query", "delete", "refetch", "restore"} => c.at \in 0..MaxTime

TypeInv == TypeOK /\ \A r \in Worker : Locals(call[r])

\* A day or week, counted from the epoch, is an integer, and the quests of a
\* catalogue computed at an hour of the run are quest ids.
LEMMA CatalogIds ==
    ASSUME NEW t \in 0..MaxTime, NEW z \in Zone
    PROVE  Catalog(t, z) \subseteq QuestId
  BY DEF QuestId

LEMMA QuestIdType ==
    ASSUME NEW q \in QuestId
    PROVE  KindOf(q) \in Kind /\ q[3] \in Int
  <1>1. PICK t \in 0..MaxTime, z \in Zone : q \in Catalog(t, z)
    BY DEF QuestId
  <1>2. PICK k \in Kind : q \in {k} \X Slot[k] \X {Bucket(k, t, z)}
    BY <1>1 DEF Catalog
  <1>3. Bucket(k, t, z) \in Int
    BY QuestConstants DEF Bucket
  <1> QED BY <1>2, <1>3 DEF KindOf

LEMMA MintedType ==
    ASSUME NEW q \in QuestId, NEW z \in Int
    PROVE  Minted(q, z) \in Row
  <1>1. KindOf(q) \in Kind /\ q[3] \in Int
    BY QuestIdType
  <1>2. Length[KindOf(q)] \in Nat
    BY <1>1, QuestConstants
  <1>3. (q[3] + 1) * Length[KindOf(q)] - z \in Int
    BY <1>1, <1>2
  <1>4. 0 \in 0..Target
    BY QuestConstants
  <1> QED BY <1>3, <1>4 DEF Minted, Row, Status

LEMMA ClampType ==
    ASSUME NEW n \in Int
    PROVE  Clamp(n) \in 0..Target
  BY QuestConstants DEF Clamp

LEMMA BumpedType ==
    ASSUME NEW row \in Row, NEW d \in Delta
    PROVE  /\ Bumped(row, d).progress \in 0..Target
           /\ Bumped(row, d).status \in Status
  <1>1. row.progress + d \in Int
    BY QuestConstants DEF Row
  <1>2. Clamp(row.progress + d) \in 0..Target
    BY <1>1, ClampType
  <1> QED BY <1>2 DEF Bumped, Row, Status

LEMMA NoneIsNoRow == None \notin Row
  BY QuestConstants DEF Row, Status

\* The rows a listing or a refresh decides to mint.
LEMMA MissingType ==
    ASSUME NEW t \in 0..MaxTime, NEW z \in Zone
    PROVE  Missing(t, z) \subseteq Written
  <1>1. z \in Int
    BY QuestConstants
  <1>2. \A q \in Catalog(t, z) : q \in QuestId /\ Minted(q, z) \in Row
    BY <1>1, CatalogIds, MintedType
  <1> QED BY <1>2 DEF Missing, Written

LEMMA InitTypeInv == Init => TypeInv
  <1> SUFFICES ASSUME Init PROVE TypeInv
    OBVIOUS
  <1>1. Blank \in Call /\ Locals(Blank)
    BY DEF Blank, Call, Locals, Phase, Written
  <1>2. call \in [Worker -> Call] /\ \A r \in Worker : call[r] = Blank
    BY <1>1 DEF Init
  <1>3. TypeOK
    BY <1>2, QuestConstants DEF Init, TypeOK
  <1> QED BY <1>1, <1>2, <1>3 DEF TypeInv

\* A step that gives one worker a well-typed record, and leaves the others,
\* keeps the type of call.
LEMMA CallType ==
    ASSUME TypeInv, NEW r \in Worker, NEW c \in Call, Locals(c),
           call' = [call EXCEPT ![r] = c]
    PROVE  call' \in [Worker -> Call] /\ \A s \in Worker : Locals(call'[s])
  BY DEF TypeInv, TypeOK

\* A row that is there is a row.
LEMMA PresentRow ==
    ASSUME TypeInv, NEW q \in Present
    PROVE  q \in QuestId /\ rows[q] \in Row
  BY DEF TypeInv, TypeOK, Present

\* Put and Delete keep the types of the table and of the history on it.
LEMMA PutType ==
    ASSUME TypeInv, NEW q \in QuestId, NEW row \in Row, Put(q, row)
    PROVE  rows' \in [QuestId -> Row \cup {None}] /\ disturbed' \subseteq QuestId
  BY DEF TypeInv, TypeOK, Put

LEMMA DeleteType ==
    ASSUME TypeInv, NEW q \in QuestId, Delete(q)
    PROVE  rows' \in [QuestId -> Row \cup {None}] /\ disturbed' \subseteq QuestId
  BY DEF TypeInv, TypeOK, Delete

\* A worker that has finished holds nothing.
LEMMA FinishType ==
    ASSUME TypeInv, NEW r \in Worker, Finish(r)
    PROVE  call' \in [Worker -> Call] /\ \A s \in Worker : Locals(call'[s])
  <1>1. Blank \in Call /\ Locals(Blank)
    BY DEF Blank, Call, Locals, Phase, Written
  <1> QED BY <1>1, CallType DEF Finish

LEMMA MintOrAnswerType ==
    ASSUME TypeInv, NEW r \in Worker, NEW c \in Call,
           NEW m \in SUBSET Written, MintOrAnswer(r, c, m)
    PROVE  call' \in [Worker -> Call] /\ \A s \in Worker : Locals(call'[s])
  <1> DEFINE d == [c EXCEPT !.mint = m, !.pc = "mint"]
  <1>1. d \in Call /\ Locals(d)
    BY ZenonT(60) DEF Call, Locals, Phase
  <1>2. CASE m = {}
    BY <1>2, FinishType DEF MintOrAnswer
  <1>3. CASE m # {}
    <2>1. call' = [call EXCEPT ![r] = d]
      BY <1>3 DEF MintOrAnswer
    <2> HIDE DEF d
    <2> QED BY <1>1, <2>1, CallType
  <1> QED BY <1>2, <1>3

\* The type invariant after a step is that of what the step may change.
LEMMA StepType ==
    ASSUME TypeInv, orderly' \in BOOLEAN,
           rows' \in [QuestId -> Row \cup {None}], disturbed' \subseteq QuestId,
           call' \in [Worker -> Call], \A s \in Worker : Locals(call'[s]),
           UNCHANGED <<user, clock>>, UNCHANGED history
    PROVE  TypeInv'
  BY DEF TypeInv, TypeOK, Locals, Call, Row, Written, user, clock, history

LEMMA Holds ==
    ASSUME TypeInv, NEW r \in Worker
    PROVE  call[r] \in Call /\ Locals(call[r])
  BY DEF TypeInv, TypeOK

LEMMA BumpReadType ==
    ASSUME TypeInv, NEW r \in Worker, NEW q \in QuestId, BumpRead(r, q)
    PROVE  TypeInv'
  <1>1. PICK d \in Delta :
          call' = [call EXCEPT ![r].pc = "bumpWrite", ![r].quest = q,
                               ![r].row = rows[q], ![r].delta = d]
    BY DEF BumpRead
  <1> DEFINE c == [call[r] EXCEPT !.pc = "bumpWrite", !.quest = q,
                                  !.row = rows[q], !.delta = d]
  <1>2. rows[q] \in Row
    BY PresentRow DEF BumpRead, Whole
  <1>3. c \in Call /\ Locals(c)
    BY ZenonT(60), <1>2, Holds DEF Call, Locals, Phase
  <1>4. call' = [call EXCEPT ![r] = c]
    BY <1>1
  <1>5. call' \in [Worker -> Call] /\ \A s \in Worker : Locals(call'[s])
    <2> HIDE DEF c
    <2> QED BY <1>3, <1>4, CallType
  <1> QED BY <1>5, StepType DEF BumpRead, table, Begin, TypeInv, TypeOK

\* The item that update_item creates under a missing key.
LEMMA HuskType ==
    ASSUME NEW m \in Row
    PROVE  [m EXCEPT !.expires = 0, !.whole = FALSE] \in Row
  <1> DEFINE n == [m EXCEPT !.expires = 0]
  <1>1. n \in Row
    BY DEF Row
  <1>2. [n EXCEPT !.whole = FALSE] \in Row
    <2> HIDE DEF n
    <2> QED BY <1>1 DEF Row
  <1> QED BY <1>2

\* What update_progress writes is a row.
LEMMA BumpWritesRow ==
    ASSUME TypeInv, NEW r \in Worker, BumpWrite(r)
    PROVE  \E q \in QuestId, row \in Row : Put(q, row)
  <1> DEFINE q == call[r].quest
             new == Bumped(call[r].row, call[r].delta)
             base == IF rows[q] = None
                       THEN [Minted(q, 0) EXCEPT !.expires = 0, !.whole = FALSE]
                       ELSE rows[q]
             row == [base EXCEPT !.progress = new.progress, !.status = new.status]
  <1>1. q \in QuestId /\ call[r].row \in Row /\ call[r].delta \in Delta
    BY Holds DEF BumpWrite, At, Locals
  <1>2. new.progress \in 0..Target /\ new.status \in Status
    BY <1>1, BumpedType
  <1>3. base \in Row
    <2>1. Minted(q, 0) \in Row
      BY <1>1, MintedType
    <2>2. rows[q] \in Row \cup {None}
      BY <1>1 DEF TypeInv, TypeOK
    <2>3. CASE rows[q] = None
      BY <2>1, <2>3, HuskType
    <2>4. CASE rows[q] # None
      BY <2>2, <2>4
    <2> QED BY <2>3, <2>4
  <1>4. row \in Row
    <2> HIDE DEF new, base
    <2> QED BY <1>2, <1>3 DEF Row
  <1>5. Put(q, row)
    BY DEF BumpWrite
  <1> HIDE DEF q, row
  <1> QED BY <1>1, <1>4, <1>5

LEMMA BumpWriteType ==
    ASSUME TypeInv, NEW r \in Worker, BumpWrite(r)
    PROVE  TypeInv'
  <1>1. PICK q \in QuestId, row \in Row : Put(q, row)
    BY BumpWritesRow
  <1>2. Finish(r)
    BY DEF BumpWrite
  <1> QED BY <1>1, <1>2, PutType, FinishType, StepType
          DEF BumpWrite, TypeInv, TypeOK

LEMMA ClaimReadType ==
    ASSUME TypeInv, NEW r \in Worker, NEW q \in QuestId, ClaimRead(r, q)
    PROVE  TypeInv'
  <1> DEFINE c == [call[r] EXCEPT !.pc = "flip", !.quest = q]
  <1>1. c \in Call /\ Locals(c)
    BY ZenonT(60), Holds DEF Call, Locals, Phase
  <1>2. call' = [call EXCEPT ![r] = c]
    BY DEF ClaimRead
  <1>3. call' \in [Worker -> Call] /\ \A s \in Worker : Locals(call'[s])
    <2> HIDE DEF c
    <2> QED BY <1>1, <1>2, CallType
  <1> QED BY <1>3, StepType DEF ClaimRead, table, Begin, TypeInv, TypeOK

LEMMA ClaimFlipType ==
    ASSUME TypeInv, NEW r \in Worker, ClaimFlip(r)
    PROVE  TypeInv'
  <1> DEFINE q == call[r].quest
             row == [rows[q] EXCEPT !.status = "completed", !.granted = TRUE]
             c == [call[r] EXCEPT !.pc = "purse", !.flip = Len(flips')]
  <1>1. q \in QuestId /\ rows[q] \in Row
    BY DEF ClaimFlip, Claimable, At, TypeInv, TypeOK, Locals
  <1>2. row \in Row /\ Put(q, row)
    BY <1>1 DEF Row, Status, ClaimFlip
  <1>3. flips' \in Seq(QuestId) /\ Len(flips') \in Nat
    BY <1>1 DEF ClaimFlip, TypeInv, TypeOK
  <1>4. c \in Call /\ Locals(c)
    BY ZenonT(60), <1>3, Holds DEF Call, Locals, Phase
  <1>5. call' \in [Worker -> Call] /\ \A s \in Worker : Locals(call'[s])
    <2>1. call' = [call EXCEPT ![r] = c] \/ Finish(r)
      BY DEF ClaimFlip
    <2> HIDE DEF c
    <2> QED BY <1>4, <2>1, CallType, FinishType
  <1>6. rows' \in [QuestId -> Row \cup {None}] /\ disturbed' \subseteq QuestId
    <2> HIDE DEF q, row
    <2> QED BY <1>1, <1>2, PutType
  <1> QED BY <1>3, <1>5, <1>6
          DEF ClaimFlip, TypeInv, TypeOK, user, clock

LEMMA ClaimLostType ==
    ASSUME TypeInv, NEW r \in Worker, ClaimLost(r)
    PROVE  TypeInv'
  BY FinishType, StepType DEF ClaimLost, table, TypeInv, TypeOK

LEMMA ReadPurseType ==
    ASSUME TypeInv, NEW r \in Worker, ReadPurse(r)
    PROVE  TypeInv'
  <1> DEFINE c == [call[r] EXCEPT !.pc = "row", !.purse = lingots]
  <1>0. lingots \in Nat
    BY DEF TypeInv, TypeOK
  <1>1. c \in Call /\ Locals(c)
    BY ZenonT(60), <1>0, Holds DEF Call, Locals, Phase
  <1>2. call' = [call EXCEPT ![r] = c]
    BY DEF ReadPurse
  <1>3. call' \in [Worker -> Call] /\ \A s \in Worker : Locals(call'[s])
    <2> HIDE DEF c
    <2> QED BY <1>1, <1>2, CallType
  <1> QED BY <1>3, StepType DEF ReadPurse, table, TypeInv, TypeOK

LEMMA ReadRowType ==
    ASSUME TypeInv, NEW r \in Worker, ReadRow(r)
    PROVE  TypeInv'
  <1> DEFINE c == [call[r] EXCEPT !.pc = "pay", !.zone = zone]
  <1>0. zone \in Zone
    BY DEF TypeInv, TypeOK
  <1>1. c \in Call /\ Locals(c)
    BY ZenonT(60), <1>0, Holds DEF Call, Locals, Phase
  <1>2. call' = [call EXCEPT ![r] = c]
    BY DEF ReadRow
  <1>3. call' \in [Worker -> Call] /\ \A s \in Worker : Locals(call'[s])
    <2> HIDE DEF c
    <2> QED BY <1>1, <1>2, CallType
  <1> QED BY <1>3, StepType DEF ReadRow, table, TypeInv, TypeOK

LEMMA PayRewardType ==
    ASSUME TypeInv, NEW r \in Worker, PayReward(r)
    PROVE  TypeInv'
  <1>1. call[r].purse \in Nat /\ call[r].flip \in Nat
    BY Holds DEF Call
  <1>2. call' \in [Worker -> Call] /\ \A s \in Worker : Locals(call'[s])
    BY FinishType DEF PayReward
  <1>3. lingots' \in Nat /\ paid' \subseteq Nat
    <2>1. lingots' = call[r].purse + 1 /\ paid' = paid \cup {call[r].flip}
      BY DEF PayReward
    <2>2. paid \subseteq Nat
      BY DEF TypeInv, TypeOK
    <2>3. lingots' \in Nat
      BY <1>1, <2>1
    <2>4. paid' \subseteq Nat
      BY <1>1, <2>1, <2>2
    <2> QED BY <2>3, <2>4
  <1>4. zone' \in Zone
    BY Holds DEF PayReward, At, Locals
  <1>5. UNCHANGED <<rows, disturbed, now, crashes, flips, orderly>>
    BY DEF PayReward, table, clock
  <1> QED BY <1>2, <1>3, <1>4, <1>5 DEF TypeInv, TypeOK

LEMMA BootReadType ==
    ASSUME TypeInv, NEW r \in Worker, NEW z \in Zone, BootRead(r, z)
    PROVE  TypeInv'
  <1> DEFINE c == [call[r] EXCEPT !.pc = "zone", !.purse = lingots, !.zone = z]
  <1>0. lingots \in Nat
    BY DEF TypeInv, TypeOK
  <1>1. c \in Call /\ Locals(c)
    BY ZenonT(60), <1>0, Holds DEF Call, Locals, Phase
  <1>2. call' = [call EXCEPT ![r] = c]
    BY DEF BootRead
  <1>3. call' \in [Worker -> Call] /\ \A s \in Worker : Locals(call'[s])
    <2> HIDE DEF c
    <2> QED BY <1>1, <1>2, CallType
  <1> QED BY <1>3, StepType DEF BootRead, table, Begin, TypeInv, TypeOK

LEMMA SyncTimezoneType ==
    ASSUME TypeInv, NEW r \in Worker, SyncTimezone(r)
    PROVE  TypeInv'
  <1>1. call' \in [Worker -> Call] /\ \A s \in Worker : Locals(call'[s])
    BY FinishType DEF SyncTimezone
  <1>2. lingots' \in Nat /\ zone' \in Zone
    BY Holds DEF SyncTimezone, At, Locals, Call
  <1>3. UNCHANGED <<rows, disturbed, now, crashes, flips, paid, orderly>>
    BY DEF SyncTimezone, table, clock, history
  <1> QED BY <1>1, <1>2, <1>3 DEF TypeInv, TypeOK

-----------------------------------------------------------------------------

LEMMA ListStartType ==
    ASSUME TypeInv, NEW r \in Worker, ListStart(r)
    PROVE  TypeInv'
  <1> DEFINE c == [call[r] EXCEPT !.pc = "list", !.zone = zone, !.at = now]
  <1>0. zone \in Zone /\ now \in 0..MaxTime /\ now \in Nat
    BY QuestConstants DEF TypeInv, TypeOK
  <1>1. c \in Call /\ Locals(c)
    BY ZenonT(60), <1>0, Holds DEF Call, Locals, Phase
  <1>2. call' = [call EXCEPT ![r] = c]
    BY DEF ListStart
  <1>3. call' \in [Worker -> Call] /\ \A s \in Worker : Locals(call'[s])
    <2> HIDE DEF c
    <2> QED BY <1>1, <1>2, CallType
  <1> QED BY <1>3, StepType DEF ListStart, table, Begin, TypeInv, TypeOK

LEMMA ListRowsType ==
    ASSUME TypeInv, NEW r \in Worker, ListRows(r)
    PROVE  TypeInv'
  <1> DEFINE here == call[r]
             keep == Protected(here.at, here.zone)
             kinds == {KindOf(q) : q \in Expired(here.at) \ keep}
             restore == {<<q, rows[q]>> : q \in {p \in keep : KindOf(p) \in kinds}}
             c == [here EXCEPT !.pc = "query", !.kinds = kinds, !.restore = restore]
  <1>1. here \in Call /\ here.zone \in Zone /\ here.at \in 0..MaxTime
    BY Holds DEF ListRows, At, Locals
  <1>2. \A q \in Expired(here.at) :
           q \in QuestId /\ rows[q] \in Row /\ KindOf(q) \in Kind
    BY PresentRow, QuestIdType DEF Expired, Whole
  <1>3. kinds \in SUBSET Kind /\ restore \in SUBSET Written
    BY <1>2 DEF Written, Protected
  <1>4. c \in Call /\ Locals(c)
    <2> HIDE DEF here, kinds, restore
    <2>1. c \in Call /\ c.pc = "query" /\ c.zone = here.zone /\ c.at = here.at
      BY <1>1, <1>3 DEF Call, Phase
    <2> HIDE DEF c
    <2> QED BY <1>1, <2>1 DEF Locals
  <1>5. Missing(here.at, here.zone) \in SUBSET Written
    BY <1>1, MissingType
  <1>6. \/ Finish(r)
        \/ MintOrAnswer(r, here, Missing(here.at, here.zone))
        \/ call' = [call EXCEPT ![r] = c]
    BY DEF ListRows
  <1>7. call' \in [Worker -> Call] /\ \A s \in Worker : Locals(call'[s])
    <2> HIDE DEF here, c
    <2> QED BY <1>1, <1>4, <1>5, <1>6, CallType, FinishType, MintOrAnswerType
  <1> QED BY <1>7, StepType DEF ListRows, table, TypeInv, TypeOK

LEMMA QueryKindType ==
    ASSUME TypeInv, NEW r \in Worker, NEW k \in Kind, QueryKind(r, k)
    PROVE  TypeInv'
  <1> DEFINE doomed == {q \in Whole : KindOf(q) = k}
             rest == call[r].kinds \ {k}
             pc == IF doomed # {} THEN "delete"
                   ELSE IF rest # {} THEN "query" ELSE "refetch"
             c == [call[r] EXCEPT !.kinds = rest, !.doomed = doomed, !.pc = pc]
  <1>1. doomed \in SUBSET QuestId
    BY DEF Whole, Present
  <1>2. call[r].kinds \in SUBSET Kind
    BY Holds DEF Call
  <1>3. rest \in SUBSET Kind
    BY <1>2
  <1>4. call[r].zone \in Zone /\ call[r].at \in 0..MaxTime
    BY Holds DEF QueryKind, At, Locals
  <1>5. pc \in {"query", "delete", "refetch"}
    OBVIOUS
  <1>6. c \in Call /\ Locals(c)
    <2> HIDE DEF doomed, rest, pc
    <2>1. c \in Call /\ c.pc = pc /\ c.zone = call[r].zone /\ c.at = call[r].at
      BY ZenonT(60), <1>1, <1>3, <1>5, Holds DEF Call, Phase
    <2> HIDE DEF c
    <2> QED BY <1>4, <1>5, <2>1 DEF Locals
  <1>7. call' = [call EXCEPT ![r] = c]
    BY DEF QueryKind
  <1>8. call' \in [Worker -> Call] /\ \A s \in Worker : Locals(call'[s])
    <2> HIDE DEF c
    <2> QED BY <1>6, <1>7, CallType
  <1> QED BY <1>8, StepType DEF QueryKind, table, TypeInv, TypeOK

LEMMA DeleteRowType ==
    ASSUME TypeInv, NEW r \in Worker, NEW q \in QuestId, DeleteRow(r, q)
    PROVE  TypeInv'
  <1> DEFINE rest == call[r].doomed \ {q}
             pc == IF rest # {} THEN "delete"
                   ELSE IF call[r].kinds # {} THEN "query" ELSE "refetch"
             c == [call[r] EXCEPT !.doomed = rest, !.pc = pc]
  <1>1. call[r].doomed \in SUBSET QuestId
    BY Holds DEF Call
  <1>2. rest \in SUBSET QuestId
    BY <1>1
  <1>3. call[r].zone \in Zone /\ call[r].at \in 0..MaxTime
    BY Holds DEF DeleteRow, At, Locals
  <1>4. pc \in {"query", "delete", "refetch"}
    OBVIOUS
  <1>5. c \in Call /\ Locals(c)
    <2> HIDE DEF rest, pc
    <2>1. c \in Call /\ c.pc = pc /\ c.zone = call[r].zone /\ c.at = call[r].at
      BY ZenonT(60), <1>2, <1>4, Holds DEF Call, Phase
    <2> HIDE DEF c
    <2> QED BY <1>3, <1>4, <2>1 DEF Locals
  <1>6. call' = [call EXCEPT ![r] = c]
    BY DEF DeleteRow
  <1>7. call' \in [Worker -> Call] /\ \A s \in Worker : Locals(call'[s])
    <2> HIDE DEF c
    <2> QED BY <1>5, <1>6, CallType
  <1> QED BY <1>7, DeleteType, StepType DEF DeleteRow, TypeInv, TypeOK

LEMMA RefetchType ==
    ASSUME TypeInv, NEW r \in Worker, Refetch(r)
    PROVE  TypeInv'
  <1> DEFINE c == [call[r] EXCEPT !.pc = "restore"]
             missing == Missing(call[r].at, call[r].zone)
  <1>1. call[r].zone \in Zone /\ call[r].at \in 0..MaxTime
    BY Holds DEF Refetch, At, Locals
  <1>2. c \in Call /\ Locals(c)
    <2>1. c \in Call /\ c.pc = "restore" /\ c.zone = call[r].zone
                     /\ c.at = call[r].at
      BY Holds DEF Call, Phase
    <2> HIDE DEF c
    <2> QED BY <1>1, <2>1 DEF Locals
  <1>3. missing \in SUBSET Written
    BY <1>1, MissingType
  <1>4. \/ Finish(r)
        \/ call' = [call EXCEPT ![r] = c]
        \/ MintOrAnswer(r, call[r], missing)
    BY DEF Refetch
  <1>5. call' \in [Worker -> Call] /\ \A s \in Worker : Locals(call'[s])
    <2> HIDE DEF c, missing
    <2> QED BY <1>2, <1>3, <1>4, Holds, CallType, FinishType, MintOrAnswerType
  <1> QED BY <1>5, StepType DEF Refetch, table, TypeInv, TypeOK

LEMMA RestoreRowType ==
    ASSUME TypeInv, NEW r \in Worker, NEW w \in call[r].restore, RestoreRow(r, w)
    PROVE  TypeInv'
  <1> DEFINE rest == call[r].restore \ {w}
             pc == IF rest # {} THEN "restore" ELSE "refetch"
             c == [call[r] EXCEPT !.restore = rest, !.pc = pc]
  <1>1. call[r].restore \in SUBSET Written
    BY Holds DEF Call
  <1>2. rest \in SUBSET Written /\ w[1] \in QuestId /\ w[2] \in Row
    BY <1>1 DEF Written
  <1>3. call[r].zone \in Zone /\ call[r].at \in 0..MaxTime
    BY Holds DEF RestoreRow, At, Locals
  <1>4. pc \in {"restore", "refetch"}
    OBVIOUS
  <1>5. c \in Call /\ Locals(c)
    <2>1. rest \in SUBSET Written
      BY <1>2
    <2> HIDE DEF rest, pc
    <2>2. c \in Call /\ c.pc = pc /\ c.zone = call[r].zone /\ c.at = call[r].at
      BY ZenonT(60), <2>1, <1>4, Holds DEF Call, Phase
    <2> HIDE DEF c
    <2> QED BY <1>3, <1>4, <2>2 DEF Locals
  <1>6. call' = [call EXCEPT ![r] = c]
    BY DEF RestoreRow
  <1>7. call' \in [Worker -> Call] /\ \A s \in Worker : Locals(call'[s])
    <2> HIDE DEF c
    <2> QED BY <1>5, <1>6, CallType
  <1> QED BY <1>2, <1>7, PutType, StepType DEF RestoreRow, TypeInv, TypeOK

LEMMA MintRowType ==
    ASSUME TypeInv, NEW r \in Worker, NEW w \in call[r].mint, MintRow(r, w)
    PROVE  TypeInv'
  <1> DEFINE rest == call[r].mint \ {w}
             c == [call[r] EXCEPT !.mint = rest]
  <1>1. call[r].mint \in SUBSET Written
    BY Holds DEF Call
  <1>2. rest \in SUBSET Written /\ w[1] \in QuestId /\ w[2] \in Row
    BY <1>1 DEF Written
  <1>3. c \in Call /\ Locals(c)
    <2>1. rest \in SUBSET Written
      BY <1>2
    <2> HIDE DEF rest
    <2>2. c \in Call /\ c.pc = "mint"
      BY <2>1, Holds DEF Call, MintRow, At
    <2> HIDE DEF c
    <2> QED BY <2>2 DEF Locals
  <1>4. Finish(r) \/ call' = [call EXCEPT ![r] = c]
    BY DEF MintRow
  <1>5. call' \in [Worker -> Call] /\ \A s \in Worker : Locals(call'[s])
    <2> HIDE DEF c
    <2> QED BY <1>3, <1>4, CallType, FinishType
  <1> QED BY <1>2, <1>5, PutType, StepType DEF MintRow, TypeInv, TypeOK

LEMMA RefreshStartType ==
    ASSUME TypeInv, NEW r \in Worker, RefreshStart(r)
    PROVE  TypeInv'
  <1> DEFINE c == [call[r] EXCEPT !.pc = "refresh", !.zone = zone]
  <1>0. zone \in Zone
    BY DEF TypeInv, TypeOK
  <1>1. c \in Call /\ Locals(c)
    BY ZenonT(60), <1>0, Holds DEF Call, Locals, Phase
  <1>2. call' = [call EXCEPT ![r] = c]
    BY DEF RefreshStart
  <1>3. call' \in [Worker -> Call] /\ \A s \in Worker : Locals(call'[s])
    <2> HIDE DEF c
    <2> QED BY <1>1, <1>2, CallType
  <1> QED BY <1>3, StepType DEF RefreshStart, table, Begin, TypeInv, TypeOK

LEMMA QueryAllType ==
    ASSUME TypeInv, NEW r \in Worker, QueryAll(r)
    PROVE  TypeInv'
  <1> DEFINE pc == IF Present = {} THEN "reseed" ELSE "wipe"
             c == [call[r] EXCEPT !.doomed = Present, !.pc = pc]
  <1>1. call[r].zone \in Zone
    BY Holds DEF QueryAll, At, Locals
  <1>2. pc \in {"reseed", "wipe"} /\ Present \in SUBSET QuestId
    BY DEF Present
  <1>3. c \in Call /\ Locals(c)
    <2> HIDE DEF pc
    <2>1. c \in Call /\ c.pc = pc /\ c.zone = call[r].zone
      BY ZenonT(60), <1>2, Holds DEF Call, Phase
    <2> HIDE DEF c
    <2> QED BY <1>1, <1>2, <2>1 DEF Locals
  <1>4. call' = [call EXCEPT ![r] = c]
    BY DEF QueryAll
  <1>5. call' \in [Worker -> Call] /\ \A s \in Worker : Locals(call'[s])
    <2> HIDE DEF c
    <2> QED BY <1>3, <1>4, CallType
  <1> QED BY <1>5, StepType DEF QueryAll, table, TypeInv, TypeOK

LEMMA WipeRowType ==
    ASSUME TypeInv, NEW r \in Worker, NEW q \in QuestId, WipeRow(r, q)
    PROVE  TypeInv'
  <1> DEFINE rest == call[r].doomed \ {q}
             pc == IF rest # {} THEN "wipe" ELSE "reseed"
             c == [call[r] EXCEPT !.doomed = rest, !.pc = pc]
  <1>1. call[r].doomed \in SUBSET QuestId
    BY Holds DEF Call
  <1>2. call[r].zone \in Zone
    BY Holds DEF WipeRow, At, Locals
  <1>3. pc \in {"wipe", "reseed"}
    OBVIOUS
  <1>4. c \in Call /\ Locals(c)
    <2>1. rest \in SUBSET QuestId
      BY <1>1
    <2> HIDE DEF rest, pc
    <2>2. c \in Call /\ c.pc = pc /\ c.zone = call[r].zone
      BY ZenonT(60), <2>1, <1>3, Holds DEF Call, Phase
    <2> HIDE DEF c
    <2> QED BY <1>2, <1>3, <2>2 DEF Locals
  <1>5. call' = [call EXCEPT ![r] = c]
    BY DEF WipeRow
  <1>6. call' \in [Worker -> Call] /\ \A s \in Worker : Locals(call'[s])
    <2> HIDE DEF c
    <2> QED BY <1>4, <1>5, CallType
  <1> QED BY <1>6, DeleteType, StepType DEF WipeRow, TypeInv, TypeOK

LEMMA ReseedType ==
    ASSUME TypeInv, NEW r \in Worker, Reseed(r)
    PROVE  TypeInv'
  <1> DEFINE mint == {<<q, Minted(q, call[r].zone)>> : q \in Catalog(now, call[r].zone)}
  <1>1. call[r].zone \in Zone /\ call[r].zone \in Int /\ now \in 0..MaxTime
    BY Holds, QuestConstants DEF Reseed, At, Locals, TypeInv, TypeOK
  <1>2. \A q \in Catalog(now, call[r].zone) :
            q \in QuestId /\ Minted(q, call[r].zone) \in Row
    BY <1>1, CatalogIds, MintedType
  <1>3. mint \in SUBSET Written
    BY <1>2 DEF Written
  <1>4. MintOrAnswer(r, call[r], mint)
    BY DEF Reseed
  <1>5. call' \in [Worker -> Call] /\ \A s \in Worker : Locals(call'[s])
    <2> HIDE DEF mint
    <2> QED BY <1>3, <1>4, Holds, MintOrAnswerType
  <1> QED BY <1>5, StepType DEF Reseed, table, TypeInv, TypeOK

LEMMA CrashType ==
    ASSUME TypeInv, NEW r \in Worker, Crash(r)
    PROVE  TypeInv'
  <1>1. call' \in [Worker -> Call] /\ \A s \in Worker : Locals(call'[s])
    BY FinishType DEF Crash
  <1>2. crashes' \in 0..MaxCrash /\ orderly' \in BOOLEAN
    <2>1. crashes \in 0..MaxCrash /\ crashes < MaxCrash /\ crashes' = crashes + 1
      BY DEF Crash, TypeInv, TypeOK
    <2>2. crashes' \in 0..MaxCrash
      BY <2>1, QuestConstants
    <2>3. orderly' = FALSE
      BY DEF Crash
    <2> QED BY <2>2, <2>3
  <1>3. UNCHANGED <<rows, disturbed, zone, lingots, now, flips, paid>>
    BY DEF Crash, table, user, history
  <1> QED BY <1>1, <1>2, <1>3 DEF TypeInv, TypeOK

LEMMA EnvironmentType ==
    ASSUME TypeInv, Tick \/ UNCHANGED vars
    PROVE  TypeInv'
  <1>1. call' = call /\ \A r \in Worker : Locals(call[r])
    BY DEF Tick, vars, TypeInv
  <1>2. CASE Tick
    <2>1. now' \in 0..MaxTime
      BY <1>2, QuestConstants DEF Tick, TypeInv, TypeOK
    <2>2. UNCHANGED <<rows, disturbed, zone, lingots, crashes, flips, paid, orderly>>
      BY <1>2 DEF Tick, table, user, history
    <2> QED BY <1>1, <2>1, <2>2 DEF TypeInv, TypeOK
  <1>3. CASE UNCHANGED vars
    BY <1>1, <1>3 DEF vars, TypeInv, TypeOK
  <1> QED BY <1>2, <1>3

LEMMA StepTypeInv ==
    ASSUME TypeInv, [Next]_vars
    PROVE  TypeInv'
  <1>1. ASSUME NEW r \in Worker, Bump(r) PROVE TypeInv'
    BY <1>1, BumpReadType, BumpWriteType DEF Bump
  <1>2. ASSUME NEW r \in Worker, Claim(r) PROVE TypeInv'
    BY <1>2, ClaimReadType, ClaimFlipType, ClaimLostType, ReadPurseType,
       ReadRowType, PayRewardType DEF Claim
  <1>3. ASSUME NEW r \in Worker, List(r) PROVE TypeInv'
    BY <1>3, ListStartType, ListRowsType, RefetchType, QueryKindType,
       DeleteRowType, RestoreRowType, MintRowType DEF List
  <1>4. ASSUME NEW r \in Worker, Refresh(r) PROVE TypeInv'
    BY <1>4, RefreshStartType, QueryAllType, ReseedType, WipeRowType DEF Refresh
  <1>5. ASSUME NEW r \in Worker, Boot(r) PROVE TypeInv'
    BY <1>5, BootReadType, SyncTimezoneType DEF Boot
  <1> QED BY <1>1, <1>2, <1>3, <1>4, <1>5, CrashType, EnvironmentType
          DEF Next, Handle

\* Every reachable state is one the code's types allow: rows, balances and the
\* local variables of every worker.
THEOREM TypeCorrect == Spec => []TypeOK
  <1>1. TypeInv => TypeOK
    BY DEF TypeInv
  <1> QED BY <1>1, InitTypeInv, StepTypeInv, PTL DEF Spec

-----------------------------------------------------------------------------
(* A quest that was taken to completed stays completed, or is marked         *)
(* disturbed: that is what makes a second flip of it impossible.             *)

Settled(q) == q \in disturbed \/ Completed(q)

SettledInv == SettledOnce /\ \A i \in DOMAIN flips : Settled(flips[i])

\* A write of the table keeps what is settled so.
LEMMA PutSettles ==
    ASSUME TypeInv, NEW p \in QuestId, NEW q, NEW row \in Row, Put(q, row),
           Settled(p)
    PROVE  Settled(p)'
  BY NoneIsNoRow DEF Put, Settled, Completed, TypeInv, TypeOK

LEMMA DeleteSettles ==
    ASSUME TypeInv, NEW p \in QuestId, NEW q, Delete(q), Settled(p)
    PROVE  Settled(p)'
  BY DEF Delete, Settled, Completed, TypeInv, TypeOK

\* A step that flips nothing keeps the invariant, if what was settled is.
LEMMA KeepSettled ==
    ASSUME SettledInv, flips' = flips, disturbed \subseteq disturbed',
           \A i \in DOMAIN flips : Settled(flips[i])'
    PROVE  SettledInv'
  BY DEF SettledInv, SettledOnce

\* An action leaves the table and the flips alone, or writes one row, or
\* deletes one, or is the flip.
LEMMA StepCases ==
    ASSUME TypeInv, [Next]_vars
    PROVE  \/ UNCHANGED <<rows, disturbed, flips>>
           \/ \E q \in QuestId, row \in Row : Put(q, row) /\ flips' = flips
           \/ \E q \in QuestId : Delete(q) /\ flips' = flips
           \/ \E r \in Worker : ClaimFlip(r)
  <1> DEFINE Cases == \/ UNCHANGED <<rows, disturbed, flips>>
                      \/ \E q \in QuestId, row \in Row : Put(q, row) /\ flips' = flips
                      \/ \E q \in QuestId : Delete(q) /\ flips' = flips
                      \/ \E r \in Worker : ClaimFlip(r)
  <1>1. ASSUME NEW r \in Worker, Bump(r) PROVE Cases
    <2>1. CASE \E q \in QuestId : BumpRead(r, q)
      BY <2>1 DEF BumpRead, table, history
    <2>2. CASE BumpWrite(r)
      <3>1. flips' = flips
        BY <2>2 DEF BumpWrite, history
      <3> QED BY <2>2, <3>1, BumpWritesRow
    <2> QED BY <1>1, <2>1, <2>2 DEF Bump
  <1>2. ASSUME NEW r \in Worker, Claim(r) PROVE Cases
    BY <1>2 DEF Claim, ClaimRead, ClaimLost, ReadPurse, ReadRow, PayReward, table,
                history
  <1>3. ASSUME NEW r \in Worker, List(r) PROVE Cases
    <2>1. CASE \E q \in QuestId : DeleteRow(r, q)
      BY <2>1 DEF DeleteRow, history
    <2>2. ASSUME NEW w \in call[r].restore, RestoreRow(r, w) PROVE Cases
      <3>1. w \in Written
        BY Holds DEF Call
      <3>2. w[1] \in QuestId /\ w[2] \in Row
        BY <3>1 DEF Written
      <3> QED BY <2>2, <3>2 DEF RestoreRow, history
    <2>3. ASSUME NEW w \in call[r].mint, MintRow(r, w) PROVE Cases
      <3>1. w \in Written
        BY Holds DEF Call
      <3>2. w[1] \in QuestId /\ w[2] \in Row
        BY <3>1 DEF Written
      <3> QED BY <2>3, <3>2 DEF MintRow, history
    <2>4. CASE \/ ListStart(r) \/ ListRows(r) \/ Refetch(r)
               \/ \E k \in Kind : QueryKind(r, k)
      BY <2>4 DEF ListStart, ListRows, Refetch, QueryKind, table, history
    <2> QED BY <1>3, <2>1, <2>2, <2>3, <2>4 DEF List
  <1>4. ASSUME NEW r \in Worker, Refresh(r) PROVE Cases
    BY <1>4 DEF Refresh, RefreshStart, QueryAll, Reseed, WipeRow, table, history
  <1>5. ASSUME NEW r \in Worker, Crash(r) PROVE Cases
    BY <1>5 DEF Crash, table, history
  <1>6. ASSUME NEW r \in Worker, Boot(r) PROVE Cases
    BY <1>6 DEF Boot, BootRead, SyncTimezone, table, history
  <1>7. ASSUME Tick \/ UNCHANGED vars PROVE Cases
    BY <1>7 DEF Tick, vars, table, history
  <1> HIDE DEF Cases
  <1>8. Cases
    BY <1>1, <1>2, <1>3, <1>4, <1>5, <1>6, <1>7 DEF Next, Handle
  <1> QED BY <1>8 DEF Cases

\* Only a claimable row is flipped, and a settled quest is not claimable.
LEMMA FlipSettles ==
    ASSUME TypeInv, SettledInv, NEW r \in Worker, ClaimFlip(r)
    PROVE  SettledInv'
  <1>1. call[r].quest \in QuestId /\ Claimable(call[r].quest)
    BY Holds DEF ClaimFlip, At, Locals
  <1>2. PICK q \in QuestId :
          /\ Claimable(q) /\ rows[q] \in Row
          /\ Put(q, [rows[q] EXCEPT !.status = "completed", !.granted = TRUE])
          /\ flips' = Append(flips, q)
    BY <1>1 DEF ClaimFlip, Claimable, TypeInv, TypeOK
  <1>3. PICK row \in Row : Put(q, row) /\ row.status = "completed"
    <2> DEFINE done == [rows[q] EXCEPT !.status = "completed", !.granted = TRUE]
    <2>1. done \in Row /\ done.status = "completed"
      BY <1>2 DEF Row, Status
    <2>2. Put(q, done)
      BY <1>2
    <2> HIDE DEF done
    <2> QED BY <2>1, <2>2
  <1>4. disturbed' = disturbed /\ Completed(q)'
    BY <1>3, NoneIsNoRow DEF Put, Completed, TypeInv, TypeOK
  <1>5. flips \in Seq(QuestId) /\ Len(flips) \in Nat
    BY DEF TypeInv, TypeOK
  <1>6. DOMAIN flips = 1..Len(flips) /\ DOMAIN flips' = 1..(Len(flips) + 1)
    BY <1>2, <1>5
  <1>7. flips'[Len(flips) + 1] = q /\ \A i \in DOMAIN flips : flips'[i] = flips[i]
    BY <1>2, <1>5
  <1>8. \A i \in DOMAIN flips : flips[i] \in QuestId /\ Settled(flips[i])
    BY <1>5 DEF SettledInv
  <1>9. \A p \in QuestId : Settled(p) => Settled(p)'
    BY <1>3, PutSettles
  <1>10. \A i \in DOMAIN flips', p \in QuestId : p = flips'[i] => Settled(p)'
    <2> SUFFICES ASSUME NEW i \in DOMAIN flips', NEW p \in QuestId, p = flips'[i]
                 PROVE  Settled(p)'
      OBVIOUS
    <2>1. CASE i \in DOMAIN flips
      BY <2>1, <1>7, <1>8, <1>9
    <2>2. CASE i = Len(flips) + 1
      BY <2>2, <1>4, <1>7 DEF Settled, Completed
    <2> QED BY <1>5, <1>6, <2>1, <2>2
  <1>11. \A i \in DOMAIN flips' : flips'[i] \in QuestId
    BY <1>5, <1>6, <1>7, <1>8
  <1>12. \A i \in DOMAIN flips : flips[i] = q => q \in disturbed
    BY <1>2, <1>8 DEF Settled, Completed, Claimable
  <1>13. SettledOnce'
    <2> SUFFICES ASSUME NEW i \in DOMAIN flips', NEW j \in DOMAIN flips',
                        flips'[i] = flips'[j], flips'[i] \notin disturbed'
                 PROVE  i = j
      BY DEF SettledOnce
    <2>1. CASE i \in DOMAIN flips /\ j \in DOMAIN flips
      BY <2>1, <1>4, <1>7 DEF SettledInv, SettledOnce
    <2>2. CASE i = Len(flips) + 1 /\ j \in DOMAIN flips
      BY <2>2, <1>4, <1>7, <1>12
    <2>3. CASE i \in DOMAIN flips /\ j = Len(flips) + 1
      BY <2>3, <1>4, <1>7, <1>12
    <2> QED BY <1>5, <1>6, <2>1, <2>2, <2>3
  <1> QED BY <1>10, <1>11, <1>13 DEF SettledInv, Settled, Completed

LEMMA StepSettledInv ==
    ASSUME TypeInv, SettledInv, [Next]_vars
    PROVE  SettledInv'
  <1>0. \A i \in DOMAIN flips : flips[i] \in QuestId /\ Settled(flips[i])
    BY DEF SettledInv, TypeInv, TypeOK
  <1>1. CASE UNCHANGED <<rows, disturbed, flips>>
    BY <1>1 DEF SettledInv, SettledOnce, Settled, Completed
  <1>2. ASSUME NEW q \in QuestId, NEW row \in Row, Put(q, row), flips' = flips
        PROVE  SettledInv'
    <2>1. \A p \in QuestId : Settled(p) => Settled(p)'
      BY <1>2, PutSettles
    <2>2. disturbed \subseteq disturbed'
      BY <1>2 DEF Put
    <2> QED BY <1>0, <1>2, <2>1, <2>2, KeepSettled DEF Settled, Completed
  <1>3. ASSUME NEW q \in QuestId, Delete(q), flips' = flips
        PROVE  SettledInv'
    <2>1. \A p \in QuestId : Settled(p) => Settled(p)'
      BY <1>3, DeleteSettles
    <2>2. disturbed \subseteq disturbed'
      BY <1>3 DEF Delete
    <2> QED BY <1>0, <1>3, <2>1, <2>2, KeepSettled DEF Settled, Completed
  <1> QED BY <1>1, <1>2, <1>3, StepCases, FlipSettles

\* However claims overlap and workers die, a quest is taken to completed once,
\* unless its completed row was written over or deleted in between.
THEOREM SettledOnceHolds == Spec => []SettledOnce
  <1>1. Init => SettledInv
    BY DEF Init, SettledInv, SettledOnce
  <1>2. SettledInv => SettledOnce
    BY DEF SettledInv
  <1> QED BY <1>1, <1>2, InitTypeInv, StepTypeInv, StepSettledInv, PTL DEF Spec

-----------------------------------------------------------------------------
(* The balance is backed by the flips: each worker that owes a reward holds a *)
(* flip of its own that is not paid yet, so the flips paid grow by one with   *)
(* every reward written, and the balance written is at most one more than a   *)
(* balance that the flips paid by then accounted for.  A boot writes such a   *)
(* balance as it read it.                                                     *)

Owing(r) == call[r].pc \in {"purse", "row", "pay"}
Holding(r) == call[r].pc \in {"row", "pay", "zone"}

BackedInv ==
    /\ paid \subseteq 1..Len(flips)
    /\ lingots <= Cardinality(paid)
    /\ \A r \in Worker : Owing(r) => call[r].flip \in (1..Len(flips)) \ paid
    /\ \A r, s \in Worker :
          Owing(r) /\ Owing(s) /\ call[r].flip = call[s].flip => r = s
    /\ \A r \in Worker : Holding(r) => call[r].purse <= Cardinality(paid)

\* A step in which nobody begins to owe, or to be paid.
Uninvolved ==
    /\ UNCHANGED <<flips, paid, lingots>>
    /\ \A s \in Worker : call'[s] = call[s] \/ call'[s].pc \notin {"purse", "row", "pay", "zone"}

LEMMA UninvolvedBacked ==
    ASSUME BackedInv, Uninvolved
    PROVE  BackedInv'
  BY DEF BackedInv, Uninvolved, Owing, Holding

\* A worker whose record is replaced by one that owes nothing.
LEMMA ReplaceUninvolved ==
    ASSUME TypeInv, NEW r \in Worker, NEW c, c.pc \notin {"purse", "row", "pay", "zone"},
           call' = [call EXCEPT ![r] = c], UNCHANGED <<flips, paid, lingots>>
    PROVE  Uninvolved
  BY DEF Uninvolved, TypeInv, TypeOK

LEMMA FinishUninvolved ==
    ASSUME TypeInv, NEW r \in Worker, Finish(r), UNCHANGED <<flips, paid, lingots>>
    PROVE  Uninvolved
  BY ReplaceUninvolved DEF Finish, Blank

LEMMA MintOrAnswerUninvolved ==
    ASSUME TypeInv, NEW r \in Worker, NEW c \in Call, NEW m,
           MintOrAnswer(r, c, m), UNCHANGED <<flips, paid, lingots>>
    PROVE  Uninvolved
  <1> DEFINE d == [c EXCEPT !.mint = m, !.pc = "mint"]
  <1>1. d.pc = "mint"
    BY DEF Call
  <1>2. Finish(r) \/ call' = [call EXCEPT ![r] = d]
    BY DEF MintOrAnswer
  <1> HIDE DEF d
  <1> QED BY <1>1, <1>2, ReplaceUninvolved, FinishUninvolved

LEMMA BumpUninvolved ==
    ASSUME TypeInv, NEW r \in Worker, Bump(r)
    PROVE  Uninvolved
  <1>1. CASE \E q \in QuestId : BumpRead(r, q)
    <2>1. PICK q \in QuestId, d \in Delta :
            call' = [call EXCEPT ![r].pc = "bumpWrite", ![r].quest = q,
                                 ![r].row = rows[q], ![r].delta = d]
      BY <1>1 DEF BumpRead
    <2> DEFINE c == [call[r] EXCEPT !.pc = "bumpWrite", !.quest = q,
                                    !.row = rows[q], !.delta = d]
    <2>2. c.pc = "bumpWrite"
      BY Holds DEF Call
    <2>3. call' = [call EXCEPT ![r] = c]
      BY <2>1
    <2>4. UNCHANGED <<flips, paid, lingots>>
      BY <1>1 DEF BumpRead, history, user
    <2> HIDE DEF c
    <2> QED BY <2>2, <2>3, <2>4, ReplaceUninvolved
  <1>2. CASE BumpWrite(r)
    BY <1>2, FinishUninvolved DEF BumpWrite, history, user
  <1> QED BY <1>1, <1>2 DEF Bump

LEMMA ListUninvolved ==
    ASSUME TypeInv, NEW r \in Worker, List(r)
    PROVE  Uninvolved
  <1>0. UNCHANGED <<flips, paid, lingots>>
    BY DEF List, ListStart, ListRows, Refetch, QueryKind, DeleteRow, RestoreRow,
           MintRow, history, user
  <1>1. call \in [Worker -> Call] /\ call[r] \in Call
    BY DEF TypeInv, TypeOK
  <1>2. CASE ListStart(r)
    BY <1>0, <1>1, <1>2 DEF ListStart, Uninvolved, Call
  <1>3. CASE ListRows(r)
    <2> DEFINE here == call[r]
               keep == Protected(here.at, here.zone)
               kinds == {KindOf(q) : q \in Expired(here.at) \ keep}
               c == [here EXCEPT !.pc = "query", !.kinds = kinds,
                       !.restore = {<<q, rows[q]>> :
                                      q \in {p \in keep : KindOf(p) \in kinds}}]
    <2>1. c.pc = "query"
      <3> HIDE DEF kinds, keep
      <3> QED BY <1>1 DEF Call
    <2>2. \/ Finish(r)
          \/ MintOrAnswer(r, here, Missing(here.at, here.zone))
          \/ call' = [call EXCEPT ![r] = c]
      BY <1>3 DEF ListRows
    <2> HIDE DEF c
    <2> QED BY <1>0, <1>1, <2>1, <2>2, FinishUninvolved, MintOrAnswerUninvolved,
               ReplaceUninvolved
  <1>4. CASE \E k \in Kind : QueryKind(r, k)
    <2>1. PICK k \in Kind : QueryKind(r, k)
      BY <1>4
    <2> DEFINE doomed == {q \in Whole : KindOf(q) = k}
               rest == call[r].kinds \ {k}
               c == [call[r] EXCEPT !.kinds = rest, !.doomed = doomed,
                       !.pc = IF doomed # {} THEN "delete"
                              ELSE IF rest # {} THEN "query" ELSE "refetch"]
    <2>2. c.pc \in {"delete", "query", "refetch"}
      BY <1>1 DEF Call
    <2>3. call' = [call EXCEPT ![r] = c]
      BY <2>1 DEF QueryKind
    <2> HIDE DEF c
    <2> QED BY <1>0, <2>2, <2>3, ReplaceUninvolved
  <1>5. CASE \E q \in QuestId : DeleteRow(r, q)
    BY <1>0, <1>1, <1>5 DEF DeleteRow, Uninvolved, Call
  <1>6. CASE Refetch(r)
    <2> DEFINE c == [call[r] EXCEPT !.pc = "restore"]
    <2>1. c.pc = "restore"
      BY <1>1 DEF Call
    <2>2. \/ Finish(r)
          \/ call' = [call EXCEPT ![r] = c]
          \/ MintOrAnswer(r, call[r], Missing(call[r].at, call[r].zone))
      BY <1>6 DEF Refetch
    <2> HIDE DEF c
    <2> QED BY <1>0, <1>1, <2>1, <2>2, FinishUninvolved, MintOrAnswerUninvolved,
               ReplaceUninvolved
  <1>7. CASE \E w \in call[r].restore : RestoreRow(r, w)
    BY <1>0, <1>1, <1>7 DEF RestoreRow, Uninvolved, Call
  <1>8. CASE \E w \in call[r].mint : MintRow(r, w)
    <2>1. PICK w \in call[r].mint : MintRow(r, w)
      BY <1>8
    <2> DEFINE c == [call[r] EXCEPT !.mint = call[r].mint \ {w}]
    <2>2. c.pc = "mint"
      BY <1>1, <2>1 DEF Call, MintRow, At
    <2>3. Finish(r) \/ call' = [call EXCEPT ![r] = c]
      BY <2>1 DEF MintRow
    <2> HIDE DEF c
    <2> QED BY <1>0, <2>2, <2>3, FinishUninvolved, ReplaceUninvolved
  <1> QED BY <1>2, <1>3, <1>4, <1>5, <1>6, <1>7, <1>8 DEF List

LEMMA RefreshUninvolved ==
    ASSUME TypeInv, NEW r \in Worker, Refresh(r)
    PROVE  Uninvolved
  <1>0. UNCHANGED <<flips, paid, lingots>>
    BY DEF Refresh, RefreshStart, QueryAll, WipeRow, Reseed, history, user
  <1>1. call \in [Worker -> Call] /\ call[r] \in Call
    BY DEF TypeInv, TypeOK
  <1>2. CASE RefreshStart(r)
    BY <1>0, <1>1, <1>2 DEF RefreshStart, Uninvolved, Call
  <1>3. CASE QueryAll(r)
    BY <1>0, <1>1, <1>3 DEF QueryAll, Uninvolved, Call
  <1>4. CASE \E q \in QuestId : WipeRow(r, q)
    <2>1. PICK q \in QuestId : WipeRow(r, q)
      BY <1>4
    <2> DEFINE rest == call[r].doomed \ {q}
               c == [call[r] EXCEPT !.doomed = rest,
                                    !.pc = IF rest # {} THEN "wipe" ELSE "reseed"]
    <2>2. c.pc \in {"wipe", "reseed"}
      BY <1>1 DEF Call
    <2>3. call' = [call EXCEPT ![r] = c]
      BY <2>1 DEF WipeRow
    <2> HIDE DEF c
    <2> QED BY <1>0, <2>2, <2>3, ReplaceUninvolved
  <1>5. CASE Reseed(r)
    BY <1>0, <1>1, <1>5, MintOrAnswerUninvolved DEF Reseed
  <1> QED BY <1>2, <1>3, <1>4, <1>5 DEF Refresh

LEMMA EnvironmentUninvolved ==
    ASSUME TypeInv, \/ Tick \/ UNCHANGED vars
                    \/ \E r \in Worker : Crash(r)
    PROVE  Uninvolved
  <1>1. CASE Tick \/ UNCHANGED vars
    BY <1>1 DEF Tick, vars, Uninvolved, history, user
  <1>2. CASE \E r \in Worker : Crash(r)
    BY <1>2, FinishUninvolved DEF Crash, history, user
  <1> QED BY <1>1, <1>2

-----------------------------------------------------------------------------

\* The paid flips are finitely many, and one more when a new one is paid.
LEMMA PaidIsFinite ==
    ASSUME TypeInv, BackedInv
    PROVE  /\ IsFiniteSet(paid)
           /\ Cardinality(paid) \in Nat
           /\ Cardinality(paid) <= Len(flips)
  <1>1. PICK n \in Nat : n = Len(flips)
    BY DEF TypeInv, TypeOK
  <1>2. IsFiniteSet(1..n) /\ Cardinality(1..n) = n
    <2>1. /\ IsFiniteSet(1..n)
          /\ Cardinality(1..n) = IF 1 > n THEN 0 ELSE n - 1 + 1
      BY FS_Interval
    <2> QED BY <2>1
  <1>3. paid \in SUBSET (1..n)
    BY <1>1 DEF BackedInv
  <1>4. IsFiniteSet(paid) /\ Cardinality(paid) <= Cardinality(1..n)
    BY <1>2, <1>3, FS_Subset
  <1>5. Cardinality(paid) \in Nat
    BY <1>4, FS_CardinalityType
  <1> QED BY <1>1, <1>2, <1>4, <1>5

\* Claims: a flip makes its worker owe a reward nobody else holds; reading the
\* balance keeps the debt; paying adds the flip to those paid.
LEMMA ClaimFlipBacked ==
    ASSUME TypeInv, BackedInv, NEW r \in Worker, ClaimFlip(r)
    PROVE  BackedInv'
  <1>1. PICK q \in QuestId : flips' = Append(flips, q)
    BY Holds DEF ClaimFlip, At, Locals
  <1>2. flips \in Seq(QuestId) /\ Len(flips) \in Nat /\ Len(flips') = Len(flips) + 1
    BY <1>1 DEF TypeInv, TypeOK
  <1>3. paid' = paid /\ lingots' = lingots
    BY DEF ClaimFlip, user
  <1>4. /\ \A s \in Worker \ {r} : call'[s] = call[s]
        /\ \/ call'[r].pc = "purse" /\ call'[r].flip = Len(flips) + 1
           \/ call'[r].pc = "idle"
    <2>1. call \in [Worker -> Call] /\ call[r] \in Call
      BY DEF TypeInv, TypeOK
    <2>2. CASE call' = [call EXCEPT ![r].pc = "purse", ![r].flip = Len(flips')]
      BY <1>2, <2>1, <2>2 DEF Call
    <2>3. CASE Finish(r)
      BY <2>1, <2>3 DEF Finish, Blank
    <2> QED BY <2>2, <2>3 DEF ClaimFlip
  <1>5. paid \subseteq 1..Len(flips)
    BY DEF BackedInv
  <1>6. paid' \subseteq 1..Len(flips')
    BY <1>2, <1>3, <1>5
  <1>7. \A s \in Worker : Owing(s)' => call'[s].flip \in (1..Len(flips')) \ paid'
    <2> SUFFICES ASSUME NEW s \in Worker, call'[s].pc \in {"purse", "row", "pay"}
                 PROVE  call'[s].flip \in (1..Len(flips')) \ paid'
      BY DEF Owing
    <2>1. CASE s = r
      BY <1>2, <1>3, <1>4, <1>5, <2>1
    <2>2. CASE s # r
      BY <1>2, <1>3, <1>4, <2>2 DEF BackedInv, Owing
    <2> QED BY <2>1, <2>2
  <1>8. \A s, t \in Worker :
          Owing(s)' /\ Owing(t)' /\ call'[s].flip = call'[t].flip => s = t
    BY <1>2, <1>4 DEF BackedInv, Owing
  <1>9. \A s \in Worker : Holding(s)' => call'[s].purse <= Cardinality(paid)
    BY <1>4 DEF BackedInv, Holding
  <1> QED BY <1>3, <1>6, <1>7, <1>8, <1>9 DEF BackedInv

LEMMA ReadPurseBacked ==
    ASSUME TypeInv, BackedInv, NEW r \in Worker, ReadPurse(r)
    PROVE  BackedInv'
  <1>1. UNCHANGED <<flips, paid, lingots>> /\ call[r].pc = "purse"
    BY DEF ReadPurse, At, history, user
  <1>2. /\ \A s \in Worker \ {r} : call'[s] = call[s]
        /\ call'[r].pc = "row" /\ call'[r].purse = lingots
        /\ call'[r].flip = call[r].flip
    BY DEF ReadPurse, TypeInv, TypeOK, Call
  <1> QED BY <1>1, <1>2 DEF BackedInv, Owing, Holding

LEMMA ReadRowBacked ==
    ASSUME TypeInv, BackedInv, NEW r \in Worker, ReadRow(r)
    PROVE  BackedInv'
  <1>1. UNCHANGED <<flips, paid, lingots>> /\ call[r].pc = "row"
    BY DEF ReadRow, At, history, user
  <1>2. /\ \A s \in Worker \ {r} : call'[s] = call[s]
        /\ call'[r].pc = "pay" /\ call'[r].purse = call[r].purse
        /\ call'[r].flip = call[r].flip
    BY DEF ReadRow, TypeInv, TypeOK, Call
  <1> QED BY <1>1, <1>2 DEF BackedInv, Owing, Holding

LEMMA PayRewardBacked ==
    ASSUME TypeInv, BackedInv, NEW r \in Worker, PayReward(r)
    PROVE  BackedInv'
  <1> DEFINE f == call[r].flip
  <1>1. PICK n \in Nat : n = call[r].purse
    BY Holds DEF Call
  <1>2. f \in (1..Len(flips)) \ paid /\ n <= Cardinality(paid)
    BY <1>1 DEF PayReward, BackedInv, Owing, Holding, At
  <1>3. /\ lingots' = n + 1 /\ paid' = paid \cup {f} /\ flips' = flips
        /\ call' = [call EXCEPT ![r] = Blank]
    BY <1>1 DEF PayReward, Finish
  <1>4. Cardinality(paid') = Cardinality(paid) + 1 /\ Cardinality(paid) \in Nat
    BY <1>2, <1>3, PaidIsFinite, FS_AddElement
  <1>5. paid' \subseteq 1..Len(flips') /\ lingots' <= Cardinality(paid')
    <2>1. paid \subseteq 1..Len(flips)
      BY DEF BackedInv
    <2>2. paid' \subseteq 1..Len(flips')
      BY <1>2, <1>3, <2>1
    <2>3. lingots' <= Cardinality(paid')
      BY <1>1, <1>2, <1>3, <1>4
    <2> QED BY <2>2, <2>3
  <1>6. \A s \in Worker : \/ s # r /\ call'[s] = call[s]
                          \/ call'[s].pc = "idle"
    BY <1>3 DEF TypeInv, TypeOK, Blank
  <1>7. \A s \in Worker : Owing(s)' => s # r /\ Owing(s) /\ call'[s] = call[s]
    BY <1>6 DEF Owing
  <1>8. Owing(r)
    BY DEF PayReward, At, Owing
  <1>9. \A s \in Worker : Owing(s)' => call'[s].flip \in (1..Len(flips')) \ paid'
    BY <1>3, <1>7, <1>8 DEF BackedInv
  <1>10. \A s, t \in Worker :
          Owing(s)' /\ Owing(t)' /\ call'[s].flip = call'[t].flip => s = t
    BY <1>7 DEF BackedInv
  <1>11. \A s \in Worker : Holding(s)' => call'[s].purse <= Cardinality(paid')
    <2> SUFFICES ASSUME NEW s \in Worker, call'[s].pc \in {"row", "pay", "zone"}
                 PROVE  call'[s].purse <= Cardinality(paid')
      BY DEF Holding
    <2>1. call'[s] = call[s] /\ call[s].purse <= Cardinality(paid)
      BY <1>6 DEF BackedInv, Holding
    <2>2. call[s].purse \in Nat
      BY Holds DEF Call
    <2> QED BY <1>4, <2>1, <2>2
  <1> QED BY <1>5, <1>9, <1>10, <1>11 DEF BackedInv

LEMMA BootBacked ==
    ASSUME TypeInv, BackedInv, NEW r \in Worker, Boot(r)
    PROVE  BackedInv'
  <1>1. CASE \E z \in Zone : BootRead(r, z)
    <2>1. UNCHANGED <<flips, paid, lingots>>
      BY <1>1 DEF BootRead, history, user
    <2>2. /\ \A s \in Worker \ {r} : call'[s] = call[s]
          /\ call'[r].pc = "zone" /\ call'[r].purse = lingots
      BY <1>1 DEF BootRead, TypeInv, TypeOK, Call
    <2> QED BY <2>1, <2>2 DEF BackedInv, Owing, Holding
  <1>2. CASE SyncTimezone(r)
    <2>1. UNCHANGED <<flips, paid>> /\ lingots' = call[r].purse
      BY <1>2 DEF SyncTimezone, history
    <2>2. /\ \A s \in Worker \ {r} : call'[s] = call[s]
          /\ call'[r].pc = "idle"
      BY <1>2 DEF SyncTimezone, Finish, Blank, TypeInv, TypeOK
    <2>3. lingots' <= Cardinality(paid)
      BY <1>2, <2>1 DEF SyncTimezone, BackedInv, Holding, At
    <2> QED BY <2>1, <2>2, <2>3 DEF BackedInv, Owing, Holding
  <1> QED BY <1>1, <1>2 DEF Boot

LEMMA StepBackedInv ==
    ASSUME TypeInv, BackedInv, [Next]_vars
    PROVE  BackedInv'
  <1>1. ASSUME NEW r \in Worker, Claim(r) PROVE BackedInv'
    <2>1. CASE \E q \in QuestId : ClaimRead(r, q)
      <3>1. Uninvolved
        BY <2>1 DEF ClaimRead, Uninvolved, history, user, TypeInv, TypeOK, Call
      <3> QED BY <3>1, UninvolvedBacked
    <2>2. CASE ClaimLost(r)
      <3>1. Uninvolved
        BY <2>2, FinishUninvolved DEF ClaimLost, history, user
      <3> QED BY <3>1, UninvolvedBacked
    <2> QED BY <1>1, <2>1, <2>2, ClaimFlipBacked, ReadPurseBacked, ReadRowBacked,
            PayRewardBacked DEF Claim
  <1>2. ASSUME NEW r \in Worker, Bump(r) \/ List(r) \/ Refresh(r)
        PROVE  BackedInv'
    BY <1>2, BumpUninvolved, ListUninvolved, RefreshUninvolved, UninvolvedBacked
  <1>3. ASSUME \/ Tick \/ UNCHANGED vars
               \/ \E r \in Worker : Crash(r)
        PROVE  BackedInv'
    BY <1>3, EnvironmentUninvolved, UninvolvedBacked
  <1> QED BY <1>1, <1>2, <1>3, BootBacked DEF Next, Handle

\* However claims overlap and workers die, no lingot is in the balance that no
\* flip of a quest accounts for.
THEOREM LingotsBackedHolds == Spec => []LingotsBacked
  <1>1. Init => BackedInv
    BY FS_EmptySet DEF Init, BackedInv, Owing, Holding, Blank
  <1>2. TypeInv /\ BackedInv => LingotsBacked
    <2> SUFFICES ASSUME TypeInv, BackedInv PROVE LingotsBacked
      OBVIOUS
    <2>1. lingots \in Nat /\ Len(flips) \in Nat /\ lingots <= Cardinality(paid)
      BY DEF TypeInv, TypeOK, BackedInv
    <2> QED BY <2>1, PaidIsFinite DEF LingotsBacked
  <1> QED BY <1>1, <1>2, InitTypeInv, StepTypeInv, StepBackedInv, PTL DEF Spec

-----------------------------------------------------------------------------
(* One request after another.                                              *)
(*                                                                         *)
(* At rest, the rows of a kind were minted for one bucket in one zone; of  *)
(* the quests that were claimed, those of this bucket are still there,     *)
(* completed, and the others are of earlier ones.  A listing takes this    *)
(* apart, kind by kind, and puts it together again for its own bucket.     *)

Flipped == {flips[i] : i \in DOMAIN flips}
FlippedOf(k) == {q \in Flipped : KindOf(q) = k}
OfKind(k) == {q \in Present : KindOf(q) = k}

\* The row was minted in the zone.
MintedIn(q, row, z) == row.whole /\ row.expires = (q[3] + 1) * Length[KindOf(q)] - z

OneEdition(k) ==
    \E z \in Zone : \A p, q \in OfKind(k) : p[3] = q[3] /\ MintedIn(q, rows[q], z)

ClaimsKept(k) ==
    \A q \in FlippedOf(k) :
        /\ OfKind(k) # {}
        /\ \A p \in OfKind(k) : q[3] < p[3] \/ (q[3] = p[3] /\ Completed(q))

\* All quests of the bucket, or claimed ones alone.
Full(k) ==
    \/ \A q \in OfKind(k) : Completed(q)
    \/ \E q \in OfKind(k) : OfKind(k) = {k} \X Slot[k] \X {q[3]}

AtRest(k) == OneEdition(k) /\ ClaimsKept(k) /\ Full(k)
Calm == \A k \in Kind : AtRest(k)

\* The bucket a listing computes, and the rows of a kind it is to put back.
Today(k, c) == Bucket(k, c.at, c.zone)
PutsBack(k, c) == {w \in c.restore : KindOf(w[1]) = k}
Returns(q, c) == \E w \in c.restore : w[1] = q

Returning(k, c, z) ==
    \A w \in PutsBack(k, c) :
        w[1][3] = Today(k, c) /\ w[2].status = "completed" /\ MintedIn(w[1], w[2], z)

\* A listing may show the row: it has not expired, or is a claimed quest of the bucket.
Current(q, c) ==
    rows[q].expires >= c.at \/ (Completed(q) /\ q \in Catalog(c.at, c.zone))

\* The kind is not swept by this listing.
Shown(k, c) == AtRest(k) /\ \A q \in OfKind(k) : Current(q, c)
Untouched(k, c) == Shown(k, c) /\ PutsBack(k, c) = {}

\* The rows of the kind are being deleted, or will be, or are gone.
Swept(k, c) ==
    /\ \E z \in Zone : Returning(k, c, z)
    /\ \A q \in FlippedOf(k) : q[3] < Today(k, c) \/ (q[3] = Today(k, c) /\ Returns(q, c))
    /\ \/ k \in c.kinds
       \/ OfKind(k) = {}
       \/ c.pc = "delete" /\ OfKind(k) \subseteq c.doomed

Sweeping(c) ==
    \A k \in Kind :
        \/ /\ Untouched(k, c) /\ k \notin c.kinds
           /\ c.pc = "delete" => \A q \in c.doomed : KindOf(q) # k
        \/ Swept(k, c)

\* They are gone, and what was claimed of the bucket is being put back.
Restored(k, c) ==
    /\ \E z \in Zone :
          /\ Returning(k, c, z)
          /\ \A q \in OfKind(k) : q[3] = Today(k, c) /\ Completed(q) /\ MintedIn(q, rows[q], z)
    /\ \A q \in FlippedOf(k) :
          q[3] < Today(k, c) \/ (q[3] = Today(k, c) /\ (Completed(q) \/ Returns(q, c)))

Restoring(c) == \A k \in Kind : Untouched(k, c) \/ Restored(k, c)

\* A listing may answer: the kind is not missing.
Answered(k, c) == Shown(k, c) /\ (OfKind(k) # {} \/ Slot[k] = {})

\* Nothing was left of the kind, and the bucket is being minted.
Mints(k, c) == {w \in c.mint : KindOf(w[1]) = k}

Renewed(k, c) ==
    /\ OfKind(k) # {} \/ Mints(k, c) # {}
    /\ OfKind(k) \cup {w[1] : w \in Mints(k, c)} = {k} \X Slot[k] \X {Today(k, c)}
    /\ \A q \in OfKind(k) : q[3] = Today(k, c) /\ MintedIn(q, rows[q], c.zone)
    /\ \A w \in Mints(k, c) : w[1][3] = Today(k, c) /\ MintedIn(w[1], w[2], c.zone)
    /\ \A q \in FlippedOf(k) : q[3] < Today(k, c)

Minting(c) ==
    c.zone \in Zone /\ \A k \in Kind : (Answered(k, c) /\ Mints(k, c) = {}) \/ Renewed(k, c)

\* What holds while a request is under way.
Stage(c) ==
    /\ c.pc \in {"bumpWrite", "flip", "purse", "row", "pay", "zone", "list", "query",
                 "delete", "refetch", "restore", "mint"}
    /\ c.pc \in {"bumpWrite", "flip", "purse", "row", "pay", "zone", "list"} => Calm
    /\ c.pc = "bumpWrite" =>
          c.quest \in Present /\ c.row = rows[c.quest] /\ ~Completed(c.quest)
    /\ c.pc \in {"query", "delete"} => Sweeping(c)
    /\ c.pc \in {"refetch", "restore"} => Restoring(c)
    /\ c.pc = "mint" => Minting(c)

AllWhole == \A q \in Present : rows[q].whole
FlippedOnce == \A i, j \in DOMAIN flips : flips[i] = flips[j] => i = j

OrderInv ==
    orderly =>
        /\ AllWhole /\ FlippedOnce
        /\ \A r, s \in Worker : r = s \/ At(r, "idle") \/ At(s, "idle")
        /\ \A r \in Worker : At(r, "idle") \/ Stage(call[r])
        /\ (\A r \in Worker : At(r, "idle")) => Calm

\* A traveller's clock is never set back by more than a bucket.
ZonesAreClose == \A k \in Kind, y, z \in Zone : y - z <= Length[k]

-----------------------------------------------------------------------------

LEMMA QuestShape ==
    ASSUME NEW q \in QuestId
    PROVE  /\ KindOf(q) \in Kind /\ q[3] \in Int
           /\ q \in {KindOf(q)} \X Slot[KindOf(q)] \X {q[3]}
  <1>1. PICK t \in 0..MaxTime, z \in Zone : q \in Catalog(t, z)
    BY DEF QuestId
  <1>2. PICK k \in Kind : q \in {k} \X Slot[k] \X {Bucket(k, t, z)}
    BY <1>1 DEF Catalog
  <1>3. KindOf(q) = k /\ q[3] = Bucket(k, t, z)
    BY <1>2 DEF KindOf
  <1> QED BY <1>2, <1>3, QuestIdType

LEMMA OfCatalog ==
    ASSUME NEW t, NEW z, NEW q \in Catalog(t, z)
    PROVE  /\ KindOf(q) \in Kind /\ q[3] = Bucket(KindOf(q), t, z)
           /\ q \in {KindOf(q)} \X Slot[KindOf(q)] \X {Bucket(KindOf(q), t, z)}
  <1>1. PICK k \in Kind : q \in {k} \X Slot[k] \X {Bucket(k, t, z)}
    BY DEF Catalog
  <1>2. KindOf(q) = k /\ q[3] = Bucket(k, t, z)
    BY <1>1 DEF KindOf
  <1> QED BY <1>1, <1>2

LEMMA InCatalog ==
    ASSUME NEW t, NEW z, NEW q \in QuestId, q[3] = Bucket(KindOf(q), t, z)
    PROVE  q \in Catalog(t, z)
  BY QuestShape DEF Catalog

\* A bucket begins when the hour of its id has come, and has not ended.
LEMMA BucketBounds ==
    ASSUME NEW k \in Kind, NEW t \in Int, NEW z \in Int
    PROVE  /\ Bucket(k, t, z) \in Int
           /\ Bucket(k, t, z) * Length[k] <= t + z
           /\ t + z < (Bucket(k, t, z) + 1) * Length[k]
  <1> DEFINE n == Length[k]
             x == t + z
             b == x \div n
  <1>1. n \in Nat \ {0} /\ x \in Int
    BY QuestConstants
  <1> HIDE DEF n, x
  <1>2. b \in Int /\ x = n * b + (x % n) /\ x % n \in 0..(n - 1)
    BY <1>1
  <1>3. b * n <= x /\ x < (b + 1) * n
    BY <1>1, <1>2
  <1> QED BY <1>2, <1>3 DEF n, x, Bucket

\* By the time the rows of a bucket have expired, every zone has begun its next one,
\* or is still in the same.
LEMMA NoneEarlier ==
    ASSUME ZonesAreClose, NEW k \in Kind, NEW t \in Int, NEW y \in Zone, NEW z \in Zone,
           NEW b \in Int, (b + 1) * Length[k] - y < t
    PROVE  b <= Bucket(k, t, z)
  <1> DEFINE n == Length[k]
             d == Bucket(k, t, z)
  <1>1. n \in Nat \ {0} /\ y \in Int /\ z \in Int /\ y - z <= n
    BY QuestConstants DEF ZonesAreClose
  <1>2. d \in Int /\ t + z < (d + 1) * n
    BY <1>1, BucketBounds
  <1> HIDE DEF n, d
  <1>3. b * n < (d + 1) * n
    <2>1. (b + 1) * n = b * n + n
      BY <1>1
    <2>2. b * n \in Int /\ (d + 1) * n \in Int
      BY <1>1, <1>2
    <2> QED BY <1>1, <1>2, <2>1, <2>2 DEF n
  <1>4. ASSUME d + 1 <= b PROVE FALSE
    <2>1. (d + 1) * n <= b * n
      BY <1>1, <1>2, <1>4
    <2> QED BY <1>1, <1>2, <1>3, <2>1
  <1> QED BY <1>2, <1>4 DEF d

\* What is minted has not expired.
LEMMA MintedIsCurrent ==
    ASSUME NEW k \in Kind, NEW t \in Int, NEW z \in Int
    PROVE  (Bucket(k, t, z) + 1) * Length[k] - z >= t
  <1> DEFINE e == (Bucket(k, t, z) + 1) * Length[k]
  <1>1. Bucket(k, t, z) \in Int /\ Length[k] \in Int /\ t + z < e
    BY BucketBounds, QuestConstants
  <1>2. e \in Int
    BY <1>1
  <1> HIDE DEF e
  <1> QED BY <1>1, <1>2 DEF e

LEMMA FlippedQuests ==
    ASSUME TypeInv
    PROVE  \A k : FlippedOf(k) \subseteq QuestId /\ \A q \in FlippedOf(k) : KindOf(q) = k
  BY DEF FlippedOf, Flipped, TypeInv, TypeOK

LEMMA KindRows ==
    ASSUME TypeInv, NEW k, NEW q \in OfKind(k)
    PROVE  /\ q \in QuestId /\ KindOf(q) = k /\ q[3] \in Int
           /\ rows[q] # None /\ rows[q] \in Row /\ rows[q].expires \in Int
           /\ q \in {k} \X Slot[k] \X {q[3]}
  <1>1. q \in Present /\ KindOf(q) = k
    BY DEF OfKind
  <1>2. q \in QuestId /\ rows[q] \in Row /\ rows[q] # None
    BY <1>1, PresentRow DEF Present
  <1>3. rows[q].expires \in Int
    BY <1>2 DEF Row
  <1> QED BY <1>1, <1>2, <1>3, QuestShape

\* A completed quest is there.
LEMMA CompletedIsThere ==
    ASSUME NEW q \in QuestId, Completed(q)
    PROVE  q \in OfKind(KindOf(q))
  BY DEF Completed, OfKind, Present

-----------------------------------------------------------------------------
(* Steps that leave a kind, or the whole table, as it is.                  *)

LEMMA SameKind ==
    ASSUME TypeInv, flips' = flips, NEW k, \A q \in QuestId : KindOf(q) = k => rows'[q] = rows[q]
    PROVE  /\ OfKind(k)' = OfKind(k) /\ FlippedOf(k)' = FlippedOf(k)
           /\ AtRest(k) => AtRest(k)'
           /\ \A c : Shown(k, c) => Shown(k, c)'
           /\ \A c : Restored(k, c) => Restored(k, c)'
           /\ \A c : Renewed(k, c) => Renewed(k, c)'
  <1>1. OfKind(k)' = OfKind(k)
    BY DEF OfKind, Present
  <1>2. FlippedOf(k)' = FlippedOf(k)
    BY DEF FlippedOf, Flipped
  <1>3. \A q \in OfKind(k) : rows'[q] = rows[q]
    BY KindRows
  <1>4. \A q \in OfKind(k) \cup FlippedOf(k) : Completed(q)' <=> Completed(q)
    BY FlippedQuests, KindRows DEF Completed
  <1>5. OneEdition(k) => OneEdition(k)'
    BY <1>1, <1>3 DEF OneEdition, MintedIn
  <1>6. ClaimsKept(k) => ClaimsKept(k)'
    BY <1>1, <1>2, <1>4 DEF ClaimsKept
  <1>7. Full(k) => Full(k)'
    BY <1>1, <1>4 DEF Full
  <1>8. AtRest(k) => AtRest(k)'
    BY <1>5, <1>6, <1>7 DEF AtRest
  <1>9. \A c : Shown(k, c) => Shown(k, c)'
    <2>1. ASSUME NEW c, NEW q \in OfKind(k), Current(q, c) PROVE Current(q, c)'
      BY <1>3, <1>4, <2>1 DEF Current
    <2> QED BY <1>1, <1>8, <2>1 DEF Shown
  <1>10. \A c : Restored(k, c) => Restored(k, c)'
    BY <1>1, <1>2, <1>3, <1>4 DEF Restored, MintedIn, Returning
  <1>11. \A c : Renewed(k, c) => Renewed(k, c)'
    BY <1>1, <1>2, <1>3 DEF Renewed, MintedIn
  <1> QED BY <1>1, <1>2, <1>8, <1>9, <1>10, <1>11

LEMMA SameTable ==
    ASSUME TypeInv, UNCHANGED <<rows, flips>>
    PROVE  /\ Calm => Calm'
           /\ AllWhole => AllWhole'
           /\ FlippedOnce => FlippedOnce'
           /\ \A c : Stage(c) => Stage(c)'
           /\ \A k, c : Answered(k, c) => Answered(k, c)'
  <1>1. \A k : OfKind(k)' = OfKind(k) /\ FlippedOf(k)' = FlippedOf(k)
               /\ (AtRest(k) => AtRest(k)')
    BY SameKind
  <1>2. \A k, c : Shown(k, c) => Shown(k, c)'
    BY SameKind
  <1>3. \A k, c : Restored(k, c) => Restored(k, c)'
    BY SameKind
  <1>4. \A k, c : Renewed(k, c) => Renewed(k, c)'
    BY SameKind
  <1>5. Calm => Calm'
    BY <1>1 DEF Calm
  <1>6. (AllWhole => AllWhole') /\ (FlippedOnce => FlippedOnce')
    BY DEF AllWhole, FlippedOnce, Present
  <1>7. \A k, c : Untouched(k, c) => Untouched(k, c)'
    BY <1>2 DEF Untouched, PutsBack
  <1>8. \A k, c : Swept(k, c) => Swept(k, c)'
    BY <1>1 DEF Swept, Returning, Returns
  <1>9. \A k, c : Answered(k, c) => Answered(k, c)'
    BY <1>1, <1>2 DEF Answered
  <1>10. ASSUME NEW c, Stage(c) PROVE Stage(c)'
    <2>1. Sweeping(c) => Sweeping(c)'
      BY <1>7, <1>8 DEF Sweeping
    <2>2. Restoring(c) => Restoring(c)'
      BY <1>3, <1>7 DEF Restoring
    <2>3. Minting(c) => Minting(c)'
      BY <1>4, <1>9 DEF Minting, Mints
    <2>4. c.quest \in Present /\ c.row = rows[c.quest] /\ ~Completed(c.quest) =>
          (c.quest \in Present /\ c.row = rows[c.quest] /\ ~Completed(c.quest))'
      BY DEF Present, Completed
    <2> QED BY <1>5, <1>10, <2>1, <2>2, <2>3, <2>4 DEF Stage
  <1> QED BY <1>5, <1>6, <1>9, <1>10

-----------------------------------------------------------------------------
(* The request that is under way goes on, or ends; one begins.             *)

LEMMA UnderWay ==
    ASSUME OrderInv, orderly, NEW r \in Worker, ~At(r, "idle")
    PROVE  /\ \A s \in Worker \ {r} : At(s, "idle")
           /\ Stage(call[r]) /\ AllWhole /\ FlippedOnce
  BY DEF OrderInv

LEMMA GoesOn ==
    ASSUME TypeInv, NEW r \in Worker, \A s \in Worker \ {r} : At(s, "idle"), NEW d,
           call' = [call EXCEPT ![r] = d], AllWhole', FlippedOnce', Stage(d)'
    PROVE  OrderInv'
  <1>1. call \in [Worker -> Call] /\ call'[r] = d /\ \A s \in Worker \ {r} : call'[s] = call[s]
    BY DEF TypeInv, TypeOK
  <1>2. \A s \in Worker \ {r} : At(s, "idle")'
    BY <1>1 DEF At
  <1>3. Stage(call[r])'
    BY <1>1 DEF Stage
  <1>4. ~At(r, "idle")'
    BY <1>1 DEF At, Stage
  <1> QED BY <1>2, <1>3, <1>4 DEF OrderInv

LEMMA Ends ==
    ASSUME TypeInv, NEW r \in Worker, \A s \in Worker \ {r} : At(s, "idle"),
           Finish(r), AllWhole', FlippedOnce', Calm'
    PROVE  OrderInv'
  <1>1. \A s \in Worker : At(s, "idle")'
    BY DEF TypeInv, TypeOK, Finish, Blank, At
  <1> QED BY <1>1 DEF OrderInv

LEMMA Begins ==
    ASSUME OrderInv, NEW r \in Worker, NEW e, Begin(r, e), orderly'
    PROVE  /\ orderly /\ e # "refresh" /\ \A s \in Worker : At(s, "idle")
           /\ Calm /\ AllWhole /\ FlippedOnce
  BY DEF Begin, OrderInv

-----------------------------------------------------------------------------
(* A listing decides what to mint.                                         *)

\* Nothing of the kind is left, and the bucket was never given.
Vacant(k, c) == OfKind(k) = {} /\ \A q \in FlippedOf(k) : q[3] < Today(k, c)

Ready(c) == \A k \in Kind : Shown(k, c) \/ Vacant(k, c)

LEMMA MissingKinds ==
    ASSUME TypeInv, AllWhole, NEW t, NEW z, NEW w
    PROVE  w \in Missing(t, z) <=>
             \E q \in Catalog(t, z) : OfKind(KindOf(q)) = {} /\ w = <<q, Minted(q, z)>>
  <1>1. \A k : OfKind(k) = {} <=> \A p \in Whole : KindOf(p) # k
    BY DEF OfKind, AllWhole, Whole
  <1> QED BY <1>1 DEF Missing

LEMMA NothingMissing ==
    ASSUME TypeInv, AllWhole, NEW c, Ready(c), Missing(c.at, c.zone) = {}
    PROVE  \A k \in Kind : Answered(k, c)
  <1> SUFFICES ASSUME NEW k \in Kind, OfKind(k) = {} PROVE Answered(k, c)
    BY DEF Ready, Vacant, Answered
  <1>1. OfKind(k) = {}
    OBVIOUS
  <1>2. Slot[k] = {}
    <2> SUFFICES ASSUME NEW s \in Slot[k] PROVE FALSE
      OBVIOUS
    <2> DEFINE q == <<k, s, Bucket(k, c.at, c.zone)>>
    <2>1. q \in Catalog(c.at, c.zone) /\ KindOf(q) = k
      BY DEF Catalog, KindOf
    <2> HIDE DEF q
    <2>2. <<q, Minted(q, c.zone)>> \in Missing(c.at, c.zone)
      BY <1>1, <2>1, MissingKinds
    <2> QED BY <2>2
  <1>3. FlippedOf(k) = {}
    BY <1>2, FlippedQuests, QuestShape
  <1>4. Zone # {}
    BY QuestConstants
  <1> QED BY <1>1, <1>2, <1>3, <1>4 DEF Answered, Shown, AtRest, OneEdition, ClaimsKept, Full

LEMMA SomethingMissing ==
    ASSUME TypeInv, AllWhole, NEW c, c.zone \in Zone, Ready(c),
           NEW d, d.pc = "mint", d.at = c.at, d.zone = c.zone, d.mint = Missing(c.at, c.zone)
    PROVE  Stage(d)
  <1> SUFFICES ASSUME NEW k \in Kind
               PROVE  (Answered(k, d) /\ Mints(k, d) = {}) \/ Renewed(k, d)
    BY DEF Stage, Minting
  <1>0. Today(k, d) = Bucket(k, c.at, c.zone) /\ Today(k, c) = Bucket(k, c.at, c.zone)
    BY DEF Today
  <1>1. Shown(k, c) => Shown(k, d)
    BY DEF Shown, Current
  <1>2. \A w \in Mints(k, d) :
          /\ OfKind(k) = {}
          /\ \E q \in Catalog(c.at, c.zone) : KindOf(q) = k /\ w = <<q, Minted(q, c.zone)>>
    <2> SUFFICES ASSUME NEW w \in Mints(k, d)
                 PROVE  /\ OfKind(k) = {}
                        /\ \E q \in Catalog(c.at, c.zone) :
                              KindOf(q) = k /\ w = <<q, Minted(q, c.zone)>>
      OBVIOUS
    <2>1. w \in Missing(c.at, c.zone) /\ KindOf(w[1]) = k
      BY DEF Mints
    <2>2. PICK q \in Catalog(c.at, c.zone) : OfKind(KindOf(q)) = {} /\ w = <<q, Minted(q, c.zone)>>
      BY <2>1, MissingKinds
    <2>3. KindOf(q) = k
      BY <2>1, <2>2
    <2> QED BY <2>2, <2>3
  <1>3. CASE OfKind(k) # {}
    <2>1. Mints(k, d) = {}
      BY <1>2, <1>3
    <2> QED BY <1>1, <1>3, <2>1 DEF Ready, Vacant, Answered
  <1>4. CASE OfKind(k) = {} /\ Slot[k] = {}
    <2>1. FlippedOf(k) = {}
      BY <1>4, FlippedQuests, QuestShape
    <2>2. Mints(k, d) = {}
      BY <1>2, <1>4, OfCatalog
    <2>3. Zone # {}
      BY QuestConstants
    <2> QED BY <1>4, <2>1, <2>2, <2>3 DEF Answered, Shown, AtRest, OneEdition, ClaimsKept, Full
  <1>5. CASE OfKind(k) = {} /\ Slot[k] # {}
    <2> DEFINE b == Bucket(k, c.at, c.zone)
    <2>1. \A q \in {k} \X Slot[k] \X {b} :
             q \in Catalog(c.at, c.zone) /\ KindOf(q) = k /\ <<q, Minted(q, c.zone)>> \in Mints(k, d)
      <3> SUFFICES ASSUME NEW q \in {k} \X Slot[k] \X {b}
                   PROVE  q \in Catalog(c.at, c.zone) /\ KindOf(q) = k
                          /\ <<q, Minted(q, c.zone)>> \in Mints(k, d)
        OBVIOUS
      <3>1. q \in Catalog(c.at, c.zone) /\ KindOf(q) = k
        BY DEF Catalog, KindOf
      <3>2. <<q, Minted(q, c.zone)>> \in Missing(c.at, c.zone)
        BY <1>5, <3>1, MissingKinds
      <3> QED BY <3>1, <3>2 DEF Mints
    <2>2. \A w \in Mints(k, d) :
             /\ w[1] \in {k} \X Slot[k] \X {b}
             /\ w[1][3] = b /\ MintedIn(w[1], w[2], c.zone)
      <3> SUFFICES ASSUME NEW w \in Mints(k, d)
                   PROVE  /\ w[1] \in {k} \X Slot[k] \X {b}
                          /\ w[1][3] = b /\ MintedIn(w[1], w[2], c.zone)
        OBVIOUS
      <3>1. PICK q \in Catalog(c.at, c.zone) : KindOf(q) = k /\ w = <<q, Minted(q, c.zone)>>
        BY <1>2
      <3>2. w[1] = q /\ w[2] = Minted(q, c.zone)
        BY <3>1
      <3>3. MintedIn(q, Minted(q, c.zone), c.zone)
        BY DEF MintedIn, Minted
      <3> QED BY <3>1, <3>2, <3>3, OfCatalog
    <2> HIDE DEF b
    <2>3. {w[1] : w \in Mints(k, d)} = {k} \X Slot[k] \X {b}
      <3>1. \A q \in {k} \X Slot[k] \X {b} : \E w \in Mints(k, d) : w[1] = q
        BY <2>1
      <3> QED BY <2>2, <3>1
    <2>4. Mints(k, d) # {}
      <3>1. PICK s \in Slot[k] : TRUE
        BY <1>5
      <3>2. <<k, s, b>> \in {k} \X Slot[k] \X {b}
        BY <3>1
      <3> QED BY <2>1, <3>2
    <2>5. \A q \in FlippedOf(k) : q[3] < b
      BY <1>0, <1>5 DEF Ready, Vacant, Shown, AtRest, ClaimsKept, b
    <2>6. Today(k, d) = b
      BY <1>0 DEF b
    <2> QED BY <1>5, <2>2, <2>3, <2>4, <2>5, <2>6 DEF Renewed
  <1> QED BY <1>3, <1>4, <1>5

\* Ready, it answers or goes on to mint.
LEMMA AnswersOrMints ==
    ASSUME TypeInv, OrderInv, orderly, NEW r \in Worker, ~At(r, "idle"), UNCHANGED <<rows, flips>>,
           NEW c, c = call[r], c.zone \in Zone, Ready(c),
           MintOrAnswer(r, c, Missing(c.at, c.zone))
    PROVE  OrderInv' /\ (call'[r].pc = "idle" => \A k \in Kind : Answered(k, c)')
  <1> DEFINE m == Missing(c.at, c.zone)
  <1>1. (\A s \in Worker \ {r} : At(s, "idle")) /\ AllWhole /\ AllWhole' /\ FlippedOnce'
    BY UnderWay, SameTable
  <1>2. CASE m = {}
    <2>1. Finish(r) /\ \A k \in Kind : Answered(k, c)
      BY <1>1, <1>2, NothingMissing DEF MintOrAnswer
    <2>2. Calm' /\ \A k \in Kind : Answered(k, c)'
      BY <2>1, SameTable DEF Calm, Answered, Shown
    <2> QED BY <1>1, <2>1, <2>2, Ends
  <1>3. CASE m # {}
    <2>1. PICK d : d = [c EXCEPT !.mint = m, !.pc = "mint"]
      OBVIOUS
    <2>2. c \in Call
      BY Holds
    <2>3. d.pc = "mint" /\ d.at = c.at /\ d.zone = c.zone /\ d.mint = m
      BY <2>1, <2>2 DEF Call
    <2>4. Stage(d)
      BY <1>1, <2>3, SomethingMissing
    <2>5. Stage(d)'
      BY <2>4, SameTable
    <2>6. call' = [call EXCEPT ![r] = d]
      BY <1>3, <2>1 DEF MintOrAnswer
    <2>7. OrderInv'
      BY <1>1, <2>5, <2>6, GoesOn
    <2>8. call'[r].pc = "mint"
      BY <2>3, <2>6 DEF TypeInv, TypeOK
    <2> QED BY <2>7, <2>8
  <1> QED BY <1>2, <1>3

-----------------------------------------------------------------------------
(* A listing decides what to sweep.                                        *)

LEMMA NothingExpired ==
    ASSUME TypeInv, AllWhole, Calm, NEW c, c.at \in Int,
           Expired(c.at) \ Protected(c.at, c.zone) = {}
    PROVE  Ready(c)
  <1> SUFFICES ASSUME NEW k \in Kind, NEW q \in OfKind(k) PROVE Current(q, c)
    BY DEF Ready, Shown, Calm
  <1>1. q \in Whole /\ rows[q].expires \in Int
    BY KindRows DEF AllWhole, Whole, OfKind
  <1>2. CASE rows[q].expires < c.at
    BY <1>1, <1>2 DEF Expired, Protected, Current
  <1>3. CASE ~(rows[q].expires < c.at)
    BY <1>1, <1>3 DEF Current
  <1> QED BY <1>2, <1>3

LEMMA SweepBegins ==
    ASSUME ZonesAreClose, TypeInv, AllWhole, Calm,
           NEW c, c.at \in Int, c.zone \in Zone, NEW keep, keep = Protected(c.at, c.zone),
           NEW d, d.pc = "query", d.at = c.at, d.zone = c.zone,
           d.kinds = {KindOf(q) : q \in Expired(c.at) \ keep},
           d.restore = {<<q, rows[q]>> : q \in {p \in keep : KindOf(p) \in d.kinds}}
    PROVE  Stage(d)
  <1> SUFFICES ASSUME NEW k \in Kind
               PROVE  (Untouched(k, d) /\ k \notin d.kinds) \/ Swept(k, d)
    BY DEF Stage, Sweeping
  <1>0. AtRest(k)
    BY DEF Calm
  <1>1. \A q \in OfKind(k) : q \in Whole
    BY DEF AllWhole, Whole, OfKind
  <1>2. Today(k, d) = Bucket(k, c.at, c.zone) /\ Today(k, d) \in Int
    BY BucketBounds, QuestConstants DEF Today
  <1>3. \A w \in PutsBack(k, d) : \E q \in keep : w = <<q, rows[q]>> /\ KindOf(q) = k /\ k \in d.kinds
    BY DEF PutsBack
  <1>4. CASE k \notin d.kinds
    <2>1. PutsBack(k, d) = {}
      BY <1>3, <1>4
    <2>2. ASSUME NEW q \in OfKind(k) PROVE Current(q, d)
      <3>1. rows[q].expires \in Int /\ KindOf(q) = k
        BY KindRows
      <3>2. q \in Expired(c.at) => q \in keep
        BY <1>4, <3>1
      <3>3. CASE q \in keep
        BY <3>3 DEF Protected, Current
      <3>4. CASE q \notin Expired(c.at)
        BY <1>1, <3>1, <3>4 DEF Expired, Current
      <3> QED BY <3>2, <3>3, <3>4
    <2> QED BY <1>0, <1>4, <2>1, <2>2 DEF Untouched, Shown
  <1>5. CASE k \in d.kinds
    <2>1. PICK p \in Expired(c.at) \ keep : KindOf(p) = k
      BY <1>5
    <2>2. p \in OfKind(k) /\ rows[p].expires < c.at
      BY <2>1 DEF Expired, Whole, OfKind
    <2>3. PICK y \in Zone : \A u, q \in OfKind(k) : u[3] = q[3] /\ MintedIn(q, rows[q], y)
      BY <1>0 DEF AtRest, OneEdition
    <2>4. PICK b \in Int : b = p[3]
      BY <2>2, KindRows
    <2>5. \A q \in OfKind(k) : q[3] = b /\ rows[q].expires = (b + 1) * Length[k] - y
      BY <2>2, <2>3, <2>4, KindRows DEF MintedIn
    <2>6. \A q \in OfKind(k) : q \in Expired(c.at)
      BY <1>1, <2>2, <2>5 DEF Expired
    <2>7. b <= Today(k, d)
      BY <1>2, <2>2, <2>5, NoneEarlier
    <2>8. \A q \in OfKind(k) : q[3] = Today(k, d) /\ Completed(q) => Returns(q, d)
      <3> SUFFICES ASSUME NEW q \in OfKind(k), q[3] = Today(k, d), Completed(q)
                   PROVE  Returns(q, d)
        OBVIOUS
      <3>1. q \in QuestId /\ KindOf(q) = k
        BY KindRows
      <3>2. q \in keep
        BY <1>2, <2>6, <3>1, InCatalog DEF Protected
      <3>3. <<q, rows[q]>> \in d.restore
        BY <1>5, <3>1, <3>2
      <3> QED BY <3>3 DEF Returns
    <2>9. Returning(k, d, y)
      <3> SUFFICES ASSUME NEW w \in PutsBack(k, d)
                   PROVE  /\ w[1][3] = Today(k, d) /\ w[2].status = "completed"
                          /\ MintedIn(w[1], w[2], y)
        BY DEF Returning
      <3>1. PICK q \in keep : w = <<q, rows[q]>> /\ KindOf(q) = k
        BY <1>3
      <3>2. q \in Expired(c.at) /\ Completed(q) /\ q \in Catalog(c.at, c.zone)
        BY <3>1 DEF Protected
      <3>3. q \in OfKind(k)
        BY <3>1, <3>2 DEF Expired, Whole, OfKind
      <3>4. q[3] = Today(k, d)
        BY <1>2, <3>1, <3>2, OfCatalog
      <3>5. MintedIn(q, rows[q], y)
        BY <2>3, <3>3
      <3> QED BY <3>1, <3>2, <3>4, <3>5 DEF Completed
    <2>10. ASSUME NEW q \in FlippedOf(k)
           PROVE  q[3] < Today(k, d) \/ (q[3] = Today(k, d) /\ Returns(q, d))
      <3>1. q \in QuestId /\ KindOf(q) = k /\ q[3] \in Int
        BY FlippedQuests, QuestShape
      <3>2. q[3] < b \/ (q[3] = b /\ Completed(q))
        BY <1>0, <2>2, <2>4 DEF AtRest, ClaimsKept
      <3>3. Completed(q) => q \in OfKind(k)
        BY <3>1, CompletedIsThere
      <3> QED BY <1>2, <2>7, <2>8, <3>1, <3>2, <3>3
    <2> QED BY <1>5, <2>9, <2>10 DEF Swept
  <1> QED BY <1>4, <1>5

LEMMA ListRowsInOrder ==
    ASSUME ZonesAreClose, TypeInv, OrderInv, orderly, NEW r \in Worker, ListRows(r),
           NEW c, c = call[r]
    PROVE  OrderInv' /\ (call'[r].pc = "idle" => \A k \in Kind : Answered(k, c)')
  <1>1. c = call[r]
    OBVIOUS
  <1>2. UNCHANGED <<rows, flips>> /\ c.pc = "list" /\ ~At(r, "idle")
    BY <1>1 DEF ListRows, At, table, history
  <1>3. c \in Call /\ c.zone \in Zone /\ c.at \in Int
    BY <1>1, <1>2, Holds, QuestConstants DEF Locals
  <1>4. /\ \A s \in Worker \ {r} : At(s, "idle")
        /\ Calm /\ AllWhole /\ AllWhole' /\ FlippedOnce'
    BY <1>1, <1>2, UnderWay, SameTable DEF Stage
  <1>5. PICK keep : keep = Protected(c.at, c.zone)
    OBVIOUS
  <1>6. PICK kinds : kinds = {KindOf(q) : q \in Expired(c.at) \ keep}
    OBVIOUS
  <1>7. Readable
    BY <1>4 DEF Readable, AllWhole, Whole
  <1>8. CASE kinds = {}
    <2>1. Ready(c)
      BY <1>3, <1>4, <1>5, <1>6, <1>8, NothingExpired
    <2>2. MintOrAnswer(r, c, Missing(c.at, c.zone))
      BY <1>1, <1>5, <1>6, <1>7, <1>8 DEF ListRows
    <2> QED BY <1>1, <1>2, <1>3, <2>1, <2>2, AnswersOrMints
  <1>9. CASE kinds # {}
    <2>1. PICK d : d = [c EXCEPT !.pc = "query", !.kinds = kinds,
                           !.restore = {<<q, rows[q]>> : q \in {p \in keep : KindOf(p) \in kinds}}]
      OBVIOUS
    <2>2. call' = [call EXCEPT ![r] = d]
      BY <1>1, <1>5, <1>6, <1>7, <1>9, <2>1 DEF ListRows
    <2>3. /\ d.pc = "query" /\ d.at = c.at /\ d.zone = c.zone /\ d.kinds = kinds
          /\ d.restore = {<<q, rows[q]>> : q \in {p \in keep : KindOf(p) \in d.kinds}}
      BY <1>3, <2>1 DEF Call
    <2>4. Stage(d)
      BY <1>3, <1>4, <1>5, <1>6, <2>3, SweepBegins
    <2>5. Stage(d)'
      BY <1>2, <2>4, SameTable
    <2>6. OrderInv'
      BY <1>4, <2>2, <2>5, GoesOn
    <2>7. call'[r].pc = "query"
      BY <2>2, <2>3 DEF TypeInv, TypeOK
    <2> QED BY <2>6, <2>7
  <1> QED BY <1>8, <1>9

-----------------------------------------------------------------------------
(* A listing deletes, ...                                                  *)

\* Nothing is left to delete.
LEMMA SweepEnds ==
    ASSUME NEW d, d.pc = "refetch", d.kinds = {},
           \A k \in Kind : Untouched(k, d) \/ (Swept(k, d) /\ OfKind(k) = {})
    PROVE  Stage(d)
  <1> SUFFICES ASSUME NEW k \in Kind, Swept(k, d), OfKind(k) = {} PROVE Restored(k, d)
    BY DEF Stage, Restoring
  <1> QED BY DEF Swept, Restored

LEMMA QueryKindInOrder ==
    ASSUME TypeInv, OrderInv, orderly, NEW r \in Worker, NEW n \in Kind, QueryKind(r, n)
    PROVE  OrderInv' /\ call'[r].pc # "idle"
  <1>1. PICK c : c = call[r]
    OBVIOUS
  <1>2. UNCHANGED <<rows, flips>> /\ c.pc = "query" /\ ~At(r, "idle") /\ n \in c.kinds
    BY <1>1 DEF QueryKind, At, table, history
  <1>3. c \in Call
    BY <1>1, Holds
  <1>4. (\A s \in Worker \ {r} : At(s, "idle")) /\ Sweeping(c) /\ AllWhole /\ AllWhole' /\ FlippedOnce'
    BY <1>1, <1>2, UnderWay, SameTable DEF Stage
  <1>5. PICK doomed : doomed = OfKind(n)
    OBVIOUS
  <1>6. doomed = {q \in Whole : KindOf(q) = n}
    BY <1>4, <1>5 DEF AllWhole, Whole, OfKind
  <1>7. PICK pc : pc = IF doomed # {} THEN "delete"
                       ELSE IF c.kinds \ {n} # {} THEN "query" ELSE "refetch"
    OBVIOUS
  <1>8. PICK d : d = [c EXCEPT !.kinds = c.kinds \ {n}, !.doomed = doomed, !.pc = pc]
    OBVIOUS
  <1>9. call' = [call EXCEPT ![r] = d]
    BY <1>1, <1>6, <1>7, <1>8 DEF QueryKind
  <1>10. /\ d.pc = pc /\ d.at = c.at /\ d.zone = c.zone /\ d.restore = c.restore
         /\ d.doomed = doomed /\ d.kinds = c.kinds \ {n}
    BY <1>3, <1>8 DEF Call
  <1>11. ASSUME NEW k \in Kind
         PROVE  \/ Untouched(k, d) /\ k \notin d.kinds /\ \A q \in doomed : KindOf(q) # k
                \/ Swept(k, d) /\ (k \in d.kinds \/ OfKind(k) = {} \/ (k = n /\ doomed # {}))
    <2>1. CASE Untouched(k, c) /\ k \notin c.kinds
      <3>1. k # n
        BY <1>2, <2>1
      <3>2. \A q \in doomed : KindOf(q) # k
        BY <1>6, <3>1
      <3>3. Untouched(k, d)
        BY <1>10, <2>1 DEF Untouched, Shown, Current, PutsBack
      <3> QED BY <1>10, <2>1, <3>2, <3>3
    <2>2. CASE Swept(k, c)
      <3>1. \/ k \in d.kinds \/ OfKind(k) = {}
            \/ k = n /\ doomed # {} /\ d.pc = "delete" /\ OfKind(k) \subseteq d.doomed
        <4>1. k \in c.kinds \/ OfKind(k) = {}
          BY <1>2, <2>2 DEF Swept
        <4>2. CASE k = n /\ doomed # {}
          BY <1>5, <1>7, <1>10, <4>2
        <4>3. CASE k = n /\ doomed = {}
          BY <1>5, <4>3
        <4>4. CASE k # n
          BY <1>10, <4>1, <4>4
        <4> QED BY <4>2, <4>3, <4>4
      <3>2. Swept(k, d)
        BY <1>10, <2>2, <3>1 DEF Swept, Returning, Returns, PutsBack, Today
      <3> QED BY <3>1, <3>2
    <2> QED BY <1>4, <2>1, <2>2 DEF Sweeping
  <1>12. Stage(d)
    <2>1. CASE pc \in {"query", "delete"}
      BY <1>10, <1>11, <2>1 DEF Stage, Sweeping
    <2>2. CASE pc = "refetch"
      <3>1. d.kinds = {} /\ doomed = {}
        BY <1>7, <1>10, <2>2
      <3>2. \A k \in Kind : Untouched(k, d) \/ (Swept(k, d) /\ OfKind(k) = {})
        BY <1>11, <3>1
      <3> QED BY <1>10, <2>2, <3>1, <3>2, SweepEnds
    <2> QED BY <1>7, <2>1, <2>2
  <1>13. Stage(d)'
    BY <1>2, <1>12, SameTable
  <1>14. OrderInv'
    BY <1>4, <1>9, <1>13, GoesOn
  <1>15. call'[r].pc # "idle"
    BY <1>7, <1>9, <1>10 DEF TypeInv, TypeOK
  <1> QED BY <1>14, <1>15

LEMMA DeleteTable ==
    ASSUME TypeInv, NEW q \in QuestId, Delete(q)
    PROVE  /\ \A p \in QuestId \ {q} : rows'[p] = rows[p]
           /\ \A k : OfKind(k)' = OfKind(k) \ {q}
           /\ AllWhole => AllWhole'
  <1>1. rows'[q] = None /\ \A p \in QuestId \ {q} : rows'[p] = rows[p]
    BY DEF Delete, TypeInv, TypeOK
  <1>2. \A k : OfKind(k)' = OfKind(k) \ {q}
    BY <1>1 DEF OfKind, Present
  <1>3. AllWhole => AllWhole'
    BY <1>1 DEF AllWhole, Present
  <1> QED BY <1>1, <1>2, <1>3

LEMMA DeleteRowInOrder ==
    ASSUME TypeInv, OrderInv, orderly, NEW r \in Worker, NEW q \in QuestId, DeleteRow(r, q)
    PROVE  OrderInv' /\ call'[r].pc # "idle"
  <1>1. PICK c : c = call[r]
    OBVIOUS
  <1>2. flips' = flips /\ c.pc = "delete" /\ ~At(r, "idle") /\ q \in c.doomed /\ Delete(q)
    BY <1>1 DEF DeleteRow, At, history
  <1>3. c \in Call
    BY <1>1, Holds
  <1>4. (\A s \in Worker \ {r} : At(s, "idle")) /\ Sweeping(c) /\ AllWhole /\ FlippedOnce
    BY <1>1, <1>2, UnderWay DEF Stage
  <1>5. PICK pc : pc = IF c.doomed \ {q} # {} THEN "delete"
                       ELSE IF c.kinds # {} THEN "query" ELSE "refetch"
    OBVIOUS
  <1>6. PICK d : d = [c EXCEPT !.doomed = c.doomed \ {q}, !.pc = pc]
    OBVIOUS
  <1>7. call' = [call EXCEPT ![r] = d]
    BY <1>1, <1>5, <1>6 DEF DeleteRow
  <1>8. /\ d.pc = pc /\ d.at = c.at /\ d.zone = c.zone /\ d.restore = c.restore
        /\ d.doomed = c.doomed \ {q} /\ d.kinds = c.kinds
    BY <1>3, <1>6 DEF Call
  <1>9. /\ \A p \in QuestId \ {q} : rows'[p] = rows[p]
        /\ \A k : OfKind(k)' = OfKind(k) \ {q}
        /\ AllWhole' /\ FlippedOnce'
    BY <1>2, <1>4, DeleteTable DEF FlippedOnce
  <1>10. ASSUME NEW k \in Kind
         PROVE  \/ /\ Untouched(k, d)' /\ k \notin d.kinds
                   /\ \A p \in d.doomed : KindOf(p) # k
                \/ Swept(k, d)' /\ (k \in d.kinds \/ OfKind(k)' \subseteq d.doomed)
    <2>1. CASE Untouched(k, c) /\ k \notin c.kinds /\ \A p \in c.doomed : KindOf(p) # k
      <3>1. \A p \in QuestId : KindOf(p) = k => rows'[p] = rows[p]
        BY <1>2, <1>9, <2>1
      <3>2. Shown(k, c)'
        BY <1>2, <2>1, <3>1, SameKind DEF Untouched
      <3>3. Shown(k, d)'
        BY <1>8, <3>2 DEF Shown, Current
      <3>4. PutsBack(k, d) = {}
        BY <1>8, <2>1 DEF Untouched, PutsBack
      <3> QED BY <1>8, <2>1, <3>3, <3>4 DEF Untouched, PutsBack
    <2>2. CASE Swept(k, c)
      <3>1. k \in d.kinds \/ OfKind(k)' \subseteq d.doomed
        BY <1>8, <1>9, <2>2 DEF Swept
      <3>2. k \in d.kinds \/ OfKind(k)' = {} \/ (d.pc = "delete" /\ OfKind(k)' \subseteq d.doomed)
        BY <1>5, <1>8, <3>1
      <3>3. FlippedOf(k)' = FlippedOf(k)
        BY <1>2 DEF FlippedOf, Flipped
      <3>4. Swept(k, d)'
        BY <1>8, <2>2, <3>2, <3>3 DEF Swept, Returning, Returns, PutsBack, Today
      <3> QED BY <3>1, <3>4
    <2> QED BY <1>2, <1>4, <2>1, <2>2 DEF Sweeping
  <1>11. Stage(d)'
    <2>1. CASE pc \in {"query", "delete"}
      BY <1>8, <1>10, <2>1 DEF Stage, Sweeping
    <2>2. CASE pc = "refetch"
      <3>1. d.kinds = {} /\ d.doomed = {}
        BY <1>5, <1>8, <2>2
      <3>2. ASSUME NEW k \in Kind PROVE Untouched(k, d)' \/ Restored(k, d)'
        <4>1. CASE Swept(k, d)' /\ OfKind(k)' = {}
          BY <4>1 DEF Swept, Restored
        <4> QED BY <1>10, <3>1, <4>1
      <3> QED BY <1>8, <2>2, <3>2 DEF Stage, Restoring
    <2> QED BY <1>5, <2>1, <2>2
  <1>12. OrderInv'
    BY <1>4, <1>7, <1>9, <1>11, GoesOn
  <1>13. call'[r].pc # "idle"
    BY <1>5, <1>7, <1>8 DEF TypeInv, TypeOK
  <1> QED BY <1>12, <1>13

-----------------------------------------------------------------------------
(* ... looks again, puts back, ...                                         *)

LEMMA PutTable ==
    ASSUME TypeInv, NEW q \in QuestId, NEW row \in Row, Put(q, row)
    PROVE  /\ rows'[q] = row /\ row # None
           /\ \A p \in QuestId \ {q} : rows'[p] = rows[p]
           /\ \A k : KindOf(q) # k => OfKind(k)' = OfKind(k)
           /\ OfKind(KindOf(q))' = OfKind(KindOf(q)) \cup {q}
           /\ AllWhole /\ row.whole => AllWhole'
  <1>1. rows'[q] = row /\ \A p \in QuestId \ {q} : rows'[p] = rows[p]
    BY DEF Put, TypeInv, TypeOK
  <1>2. row # None
    BY NoneIsNoRow
  <1>3. Present' = Present \cup {q}
    BY <1>1, <1>2 DEF Present
  <1>4. AllWhole /\ row.whole => AllWhole'
    BY <1>1, <1>3 DEF AllWhole, Present
  <1> QED BY <1>1, <1>2, <1>3, <1>4 DEF OfKind

LEMMA WrittenRow ==
    ASSUME NEW w \in Written
    PROVE  w[1] \in QuestId /\ w[2] \in Row
  BY DEF Written

LEMMA RestoredIsReady ==
    ASSUME TypeInv, NEW c, c.at \in Int, c.zone \in Zone, Restoring(c), c.restore = {}
    PROVE  Ready(c)
  <1> SUFFICES ASSUME NEW k \in Kind, Restored(k, c) PROVE Shown(k, c) \/ Vacant(k, c)
    BY DEF Restoring, Ready, Untouched
  <1>1. \A q : ~Returns(q, c)
    BY DEF Returns
  <1>2. \A q \in FlippedOf(k) : q[3] < Today(k, c) \/ (q[3] = Today(k, c) /\ Completed(q))
    BY <1>1 DEF Restored
  <1>3. \A q \in FlippedOf(k) : Completed(q) => q \in OfKind(k)
    BY FlippedQuests, CompletedIsThere
  <1>4. CASE OfKind(k) = {}
    BY <1>2, <1>3, <1>4 DEF Vacant
  <1>5. CASE OfKind(k) # {}
    <2>1. PICK z \in Zone : \A q \in OfKind(k) :
                               q[3] = Today(k, c) /\ Completed(q) /\ MintedIn(q, rows[q], z)
      BY DEF Restored
    <2>2. OneEdition(k)
      BY <2>1 DEF OneEdition
    <2>3. ClaimsKept(k)
      BY <1>2, <1>5, <2>1 DEF ClaimsKept
    <2>4. Full(k)
      BY <2>1 DEF Full
    <2>5. ASSUME NEW q \in OfKind(k) PROVE q \in Catalog(c.at, c.zone)
      BY <2>1, KindRows, InCatalog DEF Today
    <2> QED BY <2>1, <2>2, <2>3, <2>4, <2>5 DEF Shown, AtRest, Current
  <1> QED BY <1>4, <1>5

LEMMA RefetchInOrder ==
    ASSUME TypeInv, OrderInv, orderly, NEW r \in Worker, Refetch(r), NEW c, c = call[r]
    PROVE  OrderInv' /\ (call'[r].pc = "idle" => \A k \in Kind : Answered(k, c)')
  <1>2. UNCHANGED <<rows, flips>> /\ c.pc = "refetch" /\ ~At(r, "idle")
    BY DEF Refetch, At, table, history
  <1>3. c \in Call /\ c.zone \in Zone /\ c.at \in Int
    BY <1>2, Holds, QuestConstants DEF Locals
  <1>4. (\A s \in Worker \ {r} : At(s, "idle")) /\ Restoring(c) /\ AllWhole /\ AllWhole' /\ FlippedOnce'
    BY <1>2, UnderWay, SameTable DEF Stage
  <1>5. Readable
    BY <1>4 DEF Readable, AllWhole, Whole
  <1>6. CASE c.restore = {}
    <2>1. Ready(c)
      BY <1>3, <1>4, <1>6, RestoredIsReady
    <2>2. MintOrAnswer(r, c, Missing(c.at, c.zone))
      BY <1>5, <1>6 DEF Refetch
    <2> QED BY <1>2, <1>3, <2>1, <2>2, AnswersOrMints
  <1>7. CASE c.restore # {}
    <2>1. PICK d : d = [c EXCEPT !.pc = "restore"]
      OBVIOUS
    <2>2. call' = [call EXCEPT ![r] = d]
      BY <1>5, <1>7, <2>1 DEF Refetch
    <2>3. d.pc = "restore" /\ d.at = c.at /\ d.zone = c.zone /\ d.restore = c.restore
      BY <1>3, <2>1 DEF Call
    <2>4. \A k \in Kind : Untouched(k, c) => Untouched(k, d)
      BY <2>3 DEF Untouched, Shown, Current, PutsBack
    <2>5. \A k \in Kind : Restored(k, c) => Restored(k, d)
      BY <2>3 DEF Restored, Returning, Returns, PutsBack, Today
    <2>6. Stage(d)
      BY <1>4, <2>3, <2>4, <2>5 DEF Stage, Restoring
    <2>7. Stage(d)'
      BY <1>2, <2>6, SameTable
    <2>8. OrderInv'
      BY <1>4, <2>2, <2>7, GoesOn
    <2>9. call'[r].pc # "idle"
      BY <2>2, <2>3 DEF TypeInv, TypeOK
    <2> QED BY <2>8, <2>9
  <1> QED BY <1>6, <1>7

LEMMA RestoreRowInOrder ==
    ASSUME TypeInv, OrderInv, orderly, NEW r \in Worker, NEW w \in call[r].restore, RestoreRow(r, w)
    PROVE  OrderInv' /\ call'[r].pc # "idle"
  <1>1. PICK c : c = call[r]
    OBVIOUS
  <1>2. flips' = flips /\ c.pc = "restore" /\ ~At(r, "idle") /\ w \in c.restore /\ Put(w[1], w[2])
    BY <1>1 DEF RestoreRow, At, history
  <1>3. c \in Call
    BY <1>1, Holds
  <1>4. (\A s \in Worker \ {r} : At(s, "idle")) /\ Restoring(c) /\ AllWhole /\ FlippedOnce
    BY <1>1, <1>2, UnderWay DEF Stage
  <1>5. PICK pc : pc = IF c.restore \ {w} # {} THEN "restore" ELSE "refetch"
    OBVIOUS
  <1>6. PICK d : d = [c EXCEPT !.restore = c.restore \ {w}, !.pc = pc]
    OBVIOUS
  <1>7. call' = [call EXCEPT ![r] = d]
    BY <1>1, <1>5, <1>6 DEF RestoreRow
  <1>8. d.pc = pc /\ d.at = c.at /\ d.zone = c.zone /\ d.restore = c.restore \ {w}
    BY <1>3, <1>6 DEF Call
  <1>9. PICK q, row : q = w[1] /\ row = w[2]
    OBVIOUS
  <1>10. q \in QuestId /\ row \in Row
    BY <1>2, <1>3, <1>9, WrittenRow DEF Call
  <1>11. /\ rows'[q] = row /\ row # None
         /\ \A p \in QuestId \ {q} : rows'[p] = rows[p]
         /\ OfKind(KindOf(q))' = OfKind(KindOf(q)) \cup {q}
    BY <1>2, <1>9, <1>10, PutTable
  <1>12. PICK n \in Kind : n = KindOf(q)
    BY <1>10, QuestShape
  <1>13. Restored(n, c) /\ w \in PutsBack(n, c)
    BY <1>2, <1>4, <1>9, <1>12 DEF Restoring, Untouched, PutsBack
  <1>14. PICK z \in Zone :
           /\ Returning(n, c, z)
           /\ \A p \in OfKind(n) : p[3] = Today(n, c) /\ Completed(p) /\ MintedIn(p, rows[p], z)
    BY <1>13 DEF Restored
  <1>15. q[3] = Today(n, c) /\ row.status = "completed" /\ MintedIn(q, row, z)
    BY <1>9, <1>13, <1>14 DEF Returning
  <1>16. AllWhole' /\ FlippedOnce'
    BY <1>2, <1>4, <1>9, <1>10, <1>15, PutTable DEF MintedIn, FlippedOnce
  <1>17. ASSUME NEW k \in Kind, k # n PROVE Untouched(k, d)' \/ Restored(k, d)'
    <2>1. \A p \in QuestId : KindOf(p) = k => rows'[p] = rows[p]
      BY <1>11, <1>12, <1>17
    <2>2. PutsBack(k, d) = PutsBack(k, c)
      BY <1>8, <1>9, <1>12, <1>17 DEF PutsBack
    <2>3. ASSUME Untouched(k, c) PROVE Untouched(k, d)'
      <3>1. Shown(k, c)'
        BY <1>2, <2>1, <2>3, SameKind DEF Untouched
      <3>2. Shown(k, d)'
        BY <1>8, <3>1 DEF Shown, Current
      <3> QED BY <2>2, <2>3, <3>2 DEF Untouched, PutsBack
    <2>4. ASSUME Restored(k, c) PROVE Restored(k, d)'
      <3>1. Restored(k, c)'
        BY <1>2, <2>1, <2>4, SameKind
      <3>2. \A p \in FlippedOf(k)' : Returns(p, c) => Returns(p, d)
        <4>1. \A p \in FlippedOf(k) : KindOf(p) = k
          BY FlippedQuests
        <4>2. FlippedOf(k)' = FlippedOf(k)
          BY <1>2 DEF FlippedOf, Flipped
        <4> QED BY <1>8, <1>9, <1>12, <1>17, <4>1, <4>2 DEF Returns
      <3> QED BY <1>8, <2>2, <3>1, <3>2 DEF Restored, Returning, Returns, PutsBack, Today
    <2> QED BY <1>4, <2>3, <2>4 DEF Restoring
  <1>18. Restored(n, d)'
    <2>1. Returning(n, d, z)
      BY <1>8, <1>14 DEF Returning, PutsBack, Today
    <2>2. ASSUME NEW p \in OfKind(n)'
          PROVE  p[3] = Today(n, d) /\ Completed(p)' /\ MintedIn(p, rows'[p], z)
      <3>1. CASE p = q
        BY <1>8, <1>11, <1>15, <3>1 DEF Completed, Today
      <3>2. CASE p # q
        <4>1. p \in OfKind(n) /\ rows'[p] = rows[p]
          BY <1>11, <1>12, <2>2, <3>2, KindRows
        <4> QED BY <1>8, <1>14, <4>1 DEF Completed, Today
      <3> QED BY <3>1, <3>2
    <2>3. ASSUME NEW p \in FlippedOf(n)
          PROVE  \/ p[3] < Today(n, d)
                 \/ p[3] = Today(n, d) /\ (Completed(p)' \/ Returns(p, d))
      <3>1. p \in QuestId
        BY FlippedQuests
      <3>2. CASE p = q
        BY <1>8, <1>11, <1>15, <3>2 DEF Completed, Today
      <3>3. CASE p # q
        <4>1. Returns(p, c) => Returns(p, d)
          BY <1>8, <1>9, <3>3 DEF Returns
        <4>2. Completed(p) => Completed(p)'
          BY <1>11, <3>1, <3>3 DEF Completed
        <4>3. p[3] < Today(n, c) \/ (p[3] = Today(n, c) /\ (Completed(p) \/ Returns(p, c)))
          BY <1>13 DEF Restored
        <4> QED BY <1>8, <4>1, <4>2, <4>3 DEF Today
      <3> QED BY <3>2, <3>3
    <2>4. FlippedOf(n)' = FlippedOf(n)
      BY <1>2 DEF FlippedOf, Flipped
    <2> QED BY <2>1, <2>2, <2>3, <2>4 DEF Restored, Returning, Returns, PutsBack, Today
  <1>19. Stage(d)'
    BY <1>5, <1>8, <1>12, <1>17, <1>18 DEF Stage, Restoring
  <1>20. OrderInv'
    BY <1>4, <1>7, <1>16, <1>19, GoesOn
  <1>21. call'[r].pc # "idle"
    BY <1>5, <1>7, <1>8 DEF TypeInv, TypeOK
  <1> QED BY <1>20, <1>21

-----------------------------------------------------------------------------
(* ... and mints.                                                          *)

\* A row of the bucket is minted.
LEMMA MintsOne ==
    ASSUME TypeInv, flips' = flips, NEW c, NEW n, Renewed(n, c),
           NEW w \in Mints(n, c), w \in Written, Put(w[1], w[2]),
           NEW d, d.at = c.at, d.zone = c.zone, d.mint = c.mint \ {w}
    PROVE  /\ Renewed(n, d)' /\ OfKind(n)' # {} /\ w[2].whole
  <1>1. PICK q, row : q = w[1] /\ row = w[2]
    OBVIOUS
  <1>2. q \in QuestId /\ row \in Row /\ KindOf(q) = n
    BY <1>1, WrittenRow DEF Mints
  <1>3. /\ rows'[q] = row /\ OfKind(n)' = OfKind(n) \cup {q}
        /\ \A p \in QuestId \ {q} : rows'[p] = rows[p]
    BY <1>1, <1>2, PutTable
  <1>4. Today(n, d) = Today(n, c) /\ Mints(n, d) = Mints(n, c) \ {w}
    BY DEF Today, Mints
  <1>5. q[3] = Today(n, c) /\ MintedIn(q, row, c.zone)
    BY <1>1 DEF Renewed
  <1>6. OfKind(n)' \cup {v[1] : v \in Mints(n, d)} = OfKind(n) \cup {v[1] : v \in Mints(n, c)}
    <2>1. {v[1] : v \in Mints(n, c)} = {v[1] : v \in Mints(n, d)} \cup {q}
      BY <1>1, <1>4
    <2> QED BY <1>3, <2>1
  <1>7. ASSUME NEW p \in OfKind(n)' PROVE p[3] = Today(n, c) /\ MintedIn(p, rows'[p], c.zone)
    <2>1. CASE p = q
      BY <1>3, <1>5, <2>1
    <2>2. CASE p # q
      <3>1. p \in OfKind(n) /\ rows'[p] = rows[p]
        BY <1>3, <1>7, <2>2, KindRows
      <3> QED BY <3>1 DEF Renewed
    <2> QED BY <2>1, <2>2
  <1>8. FlippedOf(n)' = FlippedOf(n)
    BY DEF FlippedOf, Flipped
  <1>9. OfKind(n)' # {}
    BY <1>3
  <1>10. \A v \in Mints(n, d) : v[1][3] = Today(n, d) /\ MintedIn(v[1], v[2], d.zone)
    BY <1>4 DEF Renewed
  <1>11. OfKind(n)' \cup {v[1] : v \in Mints(n, d)} = {n} \X Slot[n] \X {Today(n, d)}
    BY <1>4, <1>6 DEF Renewed
  <1>12. \A p \in FlippedOf(n)' : p[3] < Today(n, d)
    BY <1>4, <1>8 DEF Renewed
  <1>13. Renewed(n, d)'
    BY <1>4, <1>7, <1>9, <1>10, <1>11, <1>12 DEF Renewed, Mints, Today
  <1> QED BY <1>1, <1>5, <1>9, <1>13 DEF MintedIn

LEMMA MintRowInOrder ==
    ASSUME TypeInv, OrderInv, orderly, NEW r \in Worker, NEW w \in call[r].mint, MintRow(r, w),
           NEW c, c = call[r], c.at \in Int
    PROVE  OrderInv' /\ (call'[r].pc = "idle" => \A k \in Kind : Answered(k, c)')
  <1>2. flips' = flips /\ c.pc = "mint" /\ ~At(r, "idle") /\ w \in c.mint /\ Put(w[1], w[2])
    BY DEF MintRow, At, history
  <1>3. c \in Call
    BY Holds
  <1>4. (\A s \in Worker \ {r} : At(s, "idle")) /\ Minting(c) /\ AllWhole /\ FlippedOnce
    BY <1>2, UnderWay DEF Stage
  <1>5. w \in Written /\ w[1] \in QuestId /\ w[2] \in Row
    BY <1>2, <1>3, WrittenRow DEF Call
  <1>6. PICK n \in Kind : n = KindOf(w[1])
    BY <1>5, QuestShape
  <1>7. w \in Mints(n, c) /\ Renewed(n, c)
    BY <1>2, <1>4, <1>6 DEF Mints, Minting
  <1>8. PICK d : d = [c EXCEPT !.mint = c.mint \ {w}]
    OBVIOUS
  <1>9. d.pc = "mint" /\ d.at = c.at /\ d.zone = c.zone /\ d.mint = c.mint \ {w}
    BY <1>2, <1>3, <1>8 DEF Call
  <1>10. Renewed(n, d)' /\ OfKind(n)' # {} /\ w[2].whole
    BY <1>2, <1>5, <1>7, <1>9, MintsOne
  <1>11. AllWhole' /\ FlippedOnce'
    BY <1>2, <1>4, <1>5, <1>10, PutTable DEF FlippedOnce
  <1>12. ASSUME NEW k \in Kind, k # n
         PROVE  /\ Mints(k, d) = Mints(k, c)
                /\ \/ Answered(k, c)' /\ Answered(k, d)' /\ Mints(k, d) = {}
                   \/ Renewed(k, d)' /\ (OfKind(k)' # {} \/ Mints(k, d) # {})
    <2>1. \A p \in QuestId : KindOf(p) = k => rows'[p] = rows[p]
      BY <1>2, <1>5, <1>6, <1>12, PutTable
    <2>2. Mints(k, d) = Mints(k, c)
      BY <1>6, <1>9, <1>12 DEF Mints
    <2>3. ASSUME Answered(k, c), Mints(k, c) = {} PROVE Answered(k, c)' /\ Answered(k, d)'
      <3>1. Shown(k, c)' /\ OfKind(k)' = OfKind(k)
        BY <1>2, <2>1, <2>3, SameKind DEF Answered
      <3> QED BY <1>9, <2>3, <3>1 DEF Answered, Shown, Current
    <2>4. ASSUME Renewed(k, c) PROVE Renewed(k, d)'
      <3>1. Renewed(k, c)'
        BY <1>2, <2>1, <2>4, SameKind
      <3> QED BY <1>9, <2>2, <3>1 DEF Renewed, Mints, Today
    <2>5. Renewed(k, d)' => OfKind(k)' # {} \/ Mints(k, d) # {}
      BY DEF Renewed, Mints
    <2> QED BY <1>4, <2>2, <2>3, <2>4, <2>5 DEF Minting
  <1>13. CASE c.mint \ {w} # {}
    <2>1. call' = [call EXCEPT ![r] = d]
      BY <1>8, <1>13 DEF MintRow
    <2>2. Stage(d)'
      BY <1>4, <1>9, <1>10, <1>12 DEF Stage, Minting, Mints
    <2>3. call'[r].pc = "mint"
      BY <1>9, <2>1 DEF TypeInv, TypeOK
    <2> QED BY <1>4, <1>11, <2>1, <2>2, <2>3, GoesOn
  <1>14. CASE c.mint \ {w} = {}
    <2>1. Finish(r)
      BY <1>14 DEF MintRow
    <2>2. \A k : Mints(k, d) = {}
      BY <1>9, <1>14 DEF Mints
    <2>3. ASSUME NEW k \in Kind, Renewed(k, d)' PROVE Answered(k, c)'
      <3>1. /\ OfKind(k)' # {} /\ OfKind(k)' = {k} \X Slot[k] \X {Today(k, c)}
            /\ \A q \in OfKind(k)' : q[3] = Today(k, c) /\ MintedIn(q, rows'[q], c.zone)
            /\ \A q \in FlippedOf(k)' : q[3] < Today(k, c)
        <4>1. Mints(k, d)' = {} /\ Today(k, d)' = Today(k, c) /\ d.zone = c.zone
          BY <1>9, <2>2 DEF Mints, Today
        <4>2. {v[1] : v \in Mints(k, d)'} = {}
          BY <4>1
        <4>3. OfKind(k)' # {} /\ OfKind(k)' = {k} \X Slot[k] \X {Today(k, c)}
          BY <2>3, <4>1, <4>2 DEF Renewed
        <4> QED BY <2>3, <4>1, <4>3 DEF Renewed, MintedIn
      <3>2. OneEdition(k)'
        BY <1>4, <3>1 DEF OneEdition, Minting
      <3>3. ClaimsKept(k)'
        BY <3>1 DEF ClaimsKept
      <3>4. Full(k)'
        BY <3>1 DEF Full
      <3>5. ASSUME NEW q \in OfKind(k)' PROVE Current(q, c)'
        <4>1. KindOf(q) = k /\ c.zone \in Int
          BY <1>4, <3>5, QuestConstants DEF OfKind, Minting
        <4>2. rows'[q].expires = (Today(k, c) + 1) * Length[k] - c.zone
          BY <3>1, <3>5, <4>1 DEF MintedIn
        <4>3. rows'[q].expires >= c.at
          BY <4>1, <4>2, MintedIsCurrent DEF Today
        <4> QED BY <4>3 DEF Current
      <3> QED BY <3>1, <3>2, <3>3, <3>4, <3>5 DEF Answered, Shown, AtRest
    <2>4. \A k \in Kind : Answered(k, c)'
      BY <1>10, <1>12, <2>3
    <2>5. Calm'
      BY <2>4 DEF Calm, Answered, Shown
    <2> QED BY <1>4, <1>11, <2>1, <2>4, <2>5, Ends
  <1> QED BY <1>13, <1>14

-----------------------------------------------------------------------------
(* The requests that sweep nothing.                                        *)

\* A request that only reads, or writes the user row.
Quiet == {"flip", "purse", "row", "pay", "zone", "list"}

LEMMA QuietStep ==
    ASSUME TypeInv, NEW r \in Worker, \A s \in Worker \ {r} : At(s, "idle"),
           UNCHANGED <<rows, flips>>, Calm, AllWhole, FlippedOnce,
           NEW d, call' = [call EXCEPT ![r] = d], d.pc \in Quiet \cup {"idle"}
    PROVE  OrderInv'
  <1>1. Calm' /\ AllWhole' /\ FlippedOnce'
    BY SameTable
  <1>2. CASE d.pc \in Quiet
    <2>1. Stage(d)'
      BY <1>1, <1>2 DEF Stage, Quiet
    <2> QED BY <1>1, <2>1, GoesOn
  <1>3. CASE d.pc = "idle"
    <2>1. \A s \in Worker : At(s, "idle")'
      BY <1>3 DEF TypeInv, TypeOK, At
    <2> QED BY <1>1, <2>1 DEF OrderInv
  <1> QED BY <1>2, <1>3

\* Progress is written over the row it was read from: nothing came between.
LEMMA BumpReadInOrder ==
    ASSUME TypeInv, OrderInv, orderly', NEW r \in Worker, NEW q \in QuestId, BumpRead(r, q)
    PROVE  OrderInv'
  <1>1. (\A s \in Worker : At(s, "idle")) /\ Calm /\ AllWhole /\ FlippedOnce
    BY Begins DEF BumpRead
  <1>2. PICK e \in Delta : call' = [call EXCEPT ![r].pc = "bumpWrite", ![r].quest = q,
                                               ![r].row = rows[q], ![r].delta = e]
    BY DEF BumpRead
  <1>3. PICK d : d = [call[r] EXCEPT !.pc = "bumpWrite", !.quest = q, !.row = rows[q], !.delta = e]
    OBVIOUS
  <1>4. call' = [call EXCEPT ![r] = d]
    BY <1>2, <1>3
  <1>5. d.pc = "bumpWrite" /\ d.quest = q /\ d.row = rows[q]
    BY <1>3, Holds DEF Call
  <1>6. q \in Present /\ ~Completed(q) /\ UNCHANGED <<rows, flips>>
    BY DEF BumpRead, Whole, table, history
  <1>7. Stage(d)
    BY <1>1, <1>5, <1>6 DEF Stage
  <1> QED BY <1>1, <1>4, <1>6, <1>7, SameTable, GoesOn

\* The rows of one table are those of another as far as a bump may change them.
LEMMA SameClaims ==
    ASSUME TypeInv, flips' = flips, Present' = Present,
           \A q \in Present : /\ rows'[q].whole = rows[q].whole
                              /\ rows'[q].expires = rows[q].expires
                              /\ Completed(q)' <=> Completed(q)
    PROVE  (Calm => Calm') /\ (AllWhole => AllWhole') /\ (FlippedOnce => FlippedOnce')
  <1>1. \A k : OfKind(k)' = OfKind(k) /\ FlippedOf(k)' = FlippedOf(k)
    BY DEF OfKind, FlippedOf, Flipped
  <1>2. \A k : \A q \in OfKind(k) : q \in Present
    BY DEF OfKind
  <1>3. ASSUME NEW k PROVE \A q \in FlippedOf(k) : Completed(q) => Completed(q)'
    <2> SUFFICES ASSUME NEW q \in FlippedOf(k), Completed(q) PROVE Completed(q)'
      OBVIOUS
    <2>1. q \in Present
      BY FlippedQuests DEF Completed, Present
    <2> QED BY <2>1
  <1>4. ASSUME NEW k, AtRest(k) PROVE AtRest(k)'
    <2>1. OneEdition(k)'
      BY <1>1, <1>2, <1>4 DEF AtRest, OneEdition, MintedIn
    <2>2. ClaimsKept(k)'
      BY <1>1, <1>3, <1>4 DEF AtRest, ClaimsKept
    <2>3. Full(k)'
      BY <1>1, <1>2, <1>4 DEF AtRest, Full
    <2> QED BY <2>1, <2>2, <2>3 DEF AtRest
  <1> QED BY <1>4 DEF Calm, AllWhole, FlippedOnce

LEMMA BumpWriteInOrder ==
    ASSUME TypeInv, OrderInv, orderly, NEW r \in Worker, BumpWrite(r)
    PROVE  OrderInv'
  <1>1. PICK c : c = call[r]
    OBVIOUS
  <1>2. PICK q : q = c.quest
    OBVIOUS
  <1>3. c.pc = "bumpWrite" /\ ~At(r, "idle") /\ Finish(r) /\ flips' = flips
    BY <1>1 DEF BumpWrite, At, history
  <1>4. /\ \A s \in Worker \ {r} : At(s, "idle")
        /\ Calm /\ AllWhole /\ FlippedOnce
        /\ q \in Present /\ c.row = rows[q] /\ ~Completed(q)
    BY <1>1, <1>2, <1>3, UnderWay DEF Stage
  <1>5. PICK new : new = Bumped(c.row, c.delta)
    OBVIOUS
  <1>6. q \in QuestId /\ rows[q] # None /\ rows[q] \in Row
    BY <1>4, PresentRow DEF Present
  <1>7. PICK row : row = [rows[q] EXCEPT !.progress = new.progress, !.status = new.status]
    OBVIOUS
  <1>8. Put(q, row)
    BY <1>1, <1>2, <1>5, <1>6, <1>7 DEF BumpWrite
  <1>9. c.delta \in Delta
    BY <1>1, <1>3, Holds DEF Locals
  <1>10. new.progress \in 0..Target /\ new.status \in Status
    BY <1>4, <1>5, <1>6, <1>9, BumpedType
  <1>11. new.status # "completed"
    BY <1>4, <1>5, <1>6 DEF Bumped, Completed
  <1>12. /\ row \in Row /\ row.whole = rows[q].whole /\ row.expires = rows[q].expires
         /\ row.status # "completed"
    BY <1>6, <1>7, <1>10, <1>11 DEF Row
  <1>13. rows'[q] = row /\ row # None /\ \A p \in QuestId \ {q} : rows'[p] = rows[p]
    BY <1>6, <1>8, <1>12, PutTable
  <1>14. Present' = Present
    BY <1>4, <1>6, <1>13 DEF Present
  <1>15. \A p \in Present : /\ rows'[p].whole = rows[p].whole
                            /\ rows'[p].expires = rows[p].expires
                            /\ Completed(p)' <=> Completed(p)
    <2> SUFFICES ASSUME NEW p \in Present
                 PROVE  /\ rows'[p].whole = rows[p].whole
                        /\ rows'[p].expires = rows[p].expires
                        /\ Completed(p)' <=> Completed(p)
      OBVIOUS
    <2>1. CASE p = q
      BY <1>4, <1>12, <1>13, <2>1 DEF Completed
    <2>2. CASE p # q
      BY <1>13, <2>2 DEF Completed, Present
    <2> QED BY <2>1, <2>2
  <1>16. Calm' /\ AllWhole' /\ FlippedOnce'
    BY <1>3, <1>4, <1>14, <1>15, SameClaims
  <1> QED BY <1>3, <1>4, <1>16, Ends

\* A quest that can be claimed was never claimed before.
LEMMA ClaimFlipInOrder ==
    ASSUME TypeInv, OrderInv, orderly, NEW r \in Worker, ClaimFlip(r)
    PROVE  OrderInv'
  <1>1. PICK c : c = call[r]
    OBVIOUS
  <1>2. PICK q : q = c.quest
    OBVIOUS
  <1>3. c.pc = "flip" /\ ~At(r, "idle") /\ Claimable(q) /\ flips' = Append(flips, q)
    BY <1>1, <1>2 DEF ClaimFlip, At
  <1>4. (\A s \in Worker \ {r} : At(s, "idle")) /\ Calm /\ AllWhole /\ FlippedOnce
    BY <1>1, <1>3, UnderWay DEF Stage
  <1>5. q \in QuestId /\ rows[q] # None /\ rows[q].status = "claimable" /\ q \in Present
    BY <1>1, <1>2, <1>3, Holds DEF Locals, Claimable, Present
  <1>6. rows[q] \in Row
    BY <1>5, PresentRow
  <1>7. PICK row : row = [rows[q] EXCEPT !.status = "completed", !.granted = TRUE]
    OBVIOUS
  <1>8. Put(q, row)
    BY <1>1, <1>2, <1>7 DEF ClaimFlip
  <1>9. /\ row \in Row /\ row.whole = rows[q].whole /\ row.expires = rows[q].expires
        /\ row.status = "completed"
    BY <1>6, <1>7 DEF Row, Status
  <1>10. rows'[q] = row /\ row # None /\ \A p \in QuestId \ {q} : rows'[p] = rows[p]
    BY <1>5, <1>8, <1>9, PutTable
  <1>11. PICK n \in Kind : n = KindOf(q)
    BY <1>5, QuestShape
  <1>12. q \in OfKind(n) /\ q[3] \in Int
    BY <1>5, <1>11, QuestShape DEF OfKind
  <1>13. q \notin Flipped
    <2> SUFFICES ASSUME q \in FlippedOf(n) PROVE FALSE
      BY <1>11 DEF FlippedOf
    <2>1. q[3] < q[3] \/ Completed(q)
      BY <1>4, <1>12 DEF Calm, AtRest, ClaimsKept
    <2> QED BY <1>5, <1>12, <2>1 DEF Completed
  <1>14. flips \in Seq(QuestId) /\ Len(flips) \in Nat
    BY DEF TypeInv, TypeOK
  <1>15. /\ DOMAIN flips = 1..Len(flips) /\ DOMAIN flips' = 1..(Len(flips) + 1)
         /\ \A i \in 1..Len(flips) : flips'[i] = flips[i]
         /\ flips'[Len(flips) + 1] = q
    BY <1>3, <1>5, <1>14
  <1>16. FlippedOnce'
    <2> SUFFICES ASSUME NEW i \in DOMAIN flips', NEW j \in DOMAIN flips', flips'[i] = flips'[j]
                 PROVE  i = j
      BY DEF FlippedOnce
    <2>1. CASE i \in 1..Len(flips) /\ j \in 1..Len(flips)
      BY <1>4, <1>15, <2>1 DEF FlippedOnce
    <2>2. CASE i = Len(flips) + 1 /\ j \in 1..Len(flips)
      BY <1>13, <1>15, <2>2 DEF Flipped
    <2>3. CASE j = Len(flips) + 1 /\ i \in 1..Len(flips)
      BY <1>13, <1>15, <2>3 DEF Flipped
    <2> QED BY <1>14, <1>15, <2>1, <2>2, <2>3
  <1>17. Flipped' = Flipped \cup {q}
    <2>1. \A i \in DOMAIN flips : i \in DOMAIN flips' /\ flips'[i] = flips[i]
      BY <1>14, <1>15
    <2>2. \A i \in DOMAIN flips' : i \in DOMAIN flips \/ i = Len(flips) + 1
      BY <1>14, <1>15
    <2>3. Len(flips) + 1 \in DOMAIN flips'
      BY <1>14, <1>15
    <2> QED BY <1>15, <2>1, <2>2, <2>3 DEF Flipped
  <1>18. Present' = Present
    BY <1>5, <1>10 DEF Present
  <1>19. \A p \in QuestId : Completed(p)' <=> Completed(p) \/ p = q
    BY <1>9, <1>10 DEF Completed
  <1>20. \A p \in Present : rows'[p].whole = rows[p].whole /\ rows'[p].expires = rows[p].expires
    BY <1>9, <1>10 DEF Present
  <1>21. AllWhole'
    BY <1>4, <1>18, <1>20 DEF AllWhole
  <1>22. ASSUME NEW k \in Kind PROVE AtRest(k)'
    <2>1. AtRest(k)
      BY <1>4 DEF Calm
    <2>2. OfKind(k)' = OfKind(k) /\ \A p \in OfKind(k) : p \in Present /\ p \in QuestId
      BY <1>18 DEF OfKind, Present
    <2>3. OneEdition(k)'
      BY <1>20, <2>1, <2>2 DEF AtRest, OneEdition, MintedIn
    <2>4. \A p \in OfKind(k) : Completed(p) => Completed(p)'
      BY <1>19, <2>2
    <2>5. Full(k)'
      BY <2>1, <2>2, <2>4 DEF AtRest, Full
    <2>6. ASSUME NEW p \in FlippedOf(k)'
          PROVE  /\ OfKind(k)' # {}
                 /\ \A s \in OfKind(k)' : p[3] < s[3] \/ (p[3] = s[3] /\ Completed(p)')
      <3>1. CASE p \in Flipped
        <4>1. p \in FlippedOf(k) /\ p \in QuestId
          BY <2>6, <3>1, FlippedQuests DEF FlippedOf
        <4>2. Completed(p) => Completed(p)'
          BY <1>19, <4>1
        <4> QED BY <2>1, <2>2, <4>1, <4>2 DEF AtRest, ClaimsKept
      <3>2. CASE p = q
        <4>1. k = n
          BY <1>11, <2>6, <3>2 DEF FlippedOf
        <4>2. \A s \in OfKind(k) : s[3] = q[3]
          BY <1>12, <2>1, <4>1 DEF AtRest, OneEdition
        <4> QED BY <1>5, <1>12, <1>19, <2>2, <3>2, <4>1, <4>2
      <3> QED BY <1>17, <2>6, <3>1, <3>2 DEF FlippedOf
    <2>7. ClaimsKept(k)'
      BY <2>6 DEF ClaimsKept
    <2> QED BY <2>3, <2>5, <2>7 DEF AtRest
  <1>23. Calm'
    BY <1>22 DEF Calm
  <1>24. CASE Finish(r)
    BY <1>4, <1>16, <1>21, <1>23, <1>24, Ends
  <1>25. CASE call' = [call EXCEPT ![r].pc = "purse", ![r].flip = Len(flips')]
    <2>1. PICK d : d = [c EXCEPT !.pc = "purse", !.flip = Len(flips')]
      OBVIOUS
    <2>2. call' = [call EXCEPT ![r] = d]
      BY <1>1, <1>25, <2>1
    <2>3. d.pc = "purse"
      BY <1>1, <2>1, Holds DEF Call
    <2>4. Stage(d)'
      BY <1>23, <2>3 DEF Stage
    <2> QED BY <1>4, <1>16, <1>21, <2>2, <2>4, GoesOn
  <1> QED BY <1>1, <1>24, <1>25 DEF ClaimFlip

\* The other calls of a claim, and the change of the zone.
LEMMA QuietSteps ==
    ASSUME TypeInv, OrderInv, orderly', NEW r \in Worker,
           \/ \E q \in QuestId : ClaimRead(r, q)
           \/ ClaimLost(r) \/ ReadPurse(r) \/ ReadRow(r) \/ PayReward(r)
           \/ ListStart(r)
           \/ \E z \in Zone : BootRead(r, z)
           \/ SyncTimezone(r)
    PROVE  OrderInv'
  <1>0. call[r] \in Call
    BY Holds
  <1>1. UNCHANGED <<rows, flips>>
    BY DEF ClaimRead, ClaimLost, ReadPurse, ReadRow, PayReward, ListStart, BootRead,
           SyncTimezone, table, history
  <1>2. CASE \E q \in QuestId : ClaimRead(r, q)
    <2>1. PICK q \in QuestId : ClaimRead(r, q)
      BY <1>2
    <2>2. PICK d : d = [call[r] EXCEPT !.pc = "flip", !.quest = q]
      OBVIOUS
    <2>3. call' = [call EXCEPT ![r] = d] /\ d.pc = "flip"
      BY <1>0, <2>1, <2>2 DEF ClaimRead, Call
    <2>4. (\A s \in Worker : At(s, "idle")) /\ Calm /\ AllWhole /\ FlippedOnce
      BY <2>1, Begins DEF ClaimRead
    <2> QED BY <1>1, <2>3, <2>4, QuietStep DEF Quiet
  <1>3. CASE ListStart(r)
    <2>1. PICK d : d = [call[r] EXCEPT !.pc = "list", !.zone = zone, !.at = now]
      OBVIOUS
    <2>2. call' = [call EXCEPT ![r] = d] /\ d.pc = "list"
      BY <1>0, <1>3, <2>1 DEF ListStart, Call
    <2>3. (\A s \in Worker : At(s, "idle")) /\ Calm /\ AllWhole /\ FlippedOnce
      BY <1>3, Begins DEF ListStart
    <2> QED BY <1>1, <2>2, <2>3, QuietStep DEF Quiet
  <1>4. CASE \E z \in Zone : BootRead(r, z)
    <2>1. PICK z \in Zone : BootRead(r, z)
      BY <1>4
    <2>2. PICK d : d = [call[r] EXCEPT !.pc = "zone", !.purse = lingots, !.zone = z]
      OBVIOUS
    <2>3. call' = [call EXCEPT ![r] = d] /\ d.pc = "zone"
      BY <1>0, <2>1, <2>2 DEF BootRead, Call
    <2>4. (\A s \in Worker : At(s, "idle")) /\ Calm /\ AllWhole /\ FlippedOnce
      BY <2>1, Begins DEF BootRead
    <2> QED BY <1>1, <2>3, <2>4, QuietStep DEF Quiet
  <1>5. ASSUME orderly' = orderly, ~At(r, "idle"), call[r].pc \in Quiet
        PROVE  (\A s \in Worker \ {r} : At(s, "idle")) /\ Calm /\ AllWhole /\ FlippedOnce
    BY <1>5, UnderWay DEF Stage, Quiet
  <1>6. CASE ClaimLost(r) \/ PayReward(r) \/ SyncTimezone(r)
    <2>1. orderly' = orderly /\ ~At(r, "idle") /\ call[r].pc \in Quiet /\ Finish(r)
      BY <1>6 DEF ClaimLost, PayReward, SyncTimezone, At, Quiet
    <2>2. Calm' /\ AllWhole' /\ FlippedOnce'
      BY <1>1, <1>5, <2>1, SameTable
    <2> QED BY <1>5, <2>1, <2>2, Ends
  <1>7. CASE ReadPurse(r)
    <2>1. PICK d : d = [call[r] EXCEPT !.pc = "row", !.purse = lingots]
      OBVIOUS
    <2>2. call' = [call EXCEPT ![r] = d] /\ d.pc = "row"
      BY <1>0, <1>7, <2>1 DEF ReadPurse, Call
    <2>3. orderly' = orderly /\ ~At(r, "idle") /\ call[r].pc \in Quiet
      BY <1>7 DEF ReadPurse, At, Quiet
    <2> QED BY <1>1, <1>5, <2>2, <2>3, QuietStep DEF Quiet
  <1>8. CASE ReadRow(r)
    <2>1. PICK d : d = [call[r] EXCEPT !.pc = "pay", !.zone = zone]
      OBVIOUS
    <2>2. call' = [call EXCEPT ![r] = d] /\ d.pc = "pay"
      BY <1>0, <1>8, <2>1 DEF ReadRow, Call
    <2>3. orderly' = orderly /\ ~At(r, "idle") /\ call[r].pc \in Quiet
      BY <1>8 DEF ReadRow, At, Quiet
    <2> QED BY <1>1, <1>5, <2>2, <2>3, QuietStep DEF Quiet
  <1> QED BY <1>2, <1>3, <1>4, <1>6, <1>7, <1>8

\* A refresh, once begun, is not in order.
LEMMA NoRefresh ==
    ASSUME OrderInv, NEW r \in Worker, Refresh(r)
    PROVE  ~orderly'
  <1>1. CASE RefreshStart(r)
    BY <1>1 DEF RefreshStart, Begin
  <1>2. CASE QueryAll(r) \/ Reseed(r) \/ \E q \in QuestId : WipeRow(r, q)
    <2>1. orderly' = orderly /\ call[r].pc \in {"refresh", "reseed", "wipe"}
      BY <1>2 DEF QueryAll, Reseed, WipeRow, At
    <2>2. ~At(r, "idle") /\ ~Stage(call[r])
      BY <2>1 DEF At, Stage
    <2> QED BY <2>1, <2>2, UnderWay
  <1> QED BY <1>1, <1>2 DEF Refresh

\* A listing, and what is true when it answers.
LEMMA ListInOrder ==
    ASSUME ZonesAreClose, TypeInv, OrderInv, orderly, orderly', NEW r \in Worker, List(r),
           NEW c, c = call[r]
    PROVE  /\ OrderInv'
           /\ call'[r].pc = "idle" => \A k \in Kind : Answered(k, c)'
  <1>1. CASE ListStart(r)
    <2>1. OrderInv'
      BY <1>1, QuietSteps
    <2>2. call'[r].pc = "list"
      BY <1>1 DEF ListStart, TypeInv, TypeOK, Call
    <2> QED BY <2>1, <2>2
  <1>2. CASE \E w \in call[r].mint : MintRow(r, w)
    <2>1. c.at \in Int
      BY Holds DEF Call
    <2> QED BY <1>2, <2>1, MintRowInOrder
  <1>3. CASE ListRows(r) \/ Refetch(r)
    BY <1>3, ListRowsInOrder, RefetchInOrder
  <1>4. CASE \/ \E k \in Kind : QueryKind(r, k)
             \/ \E q \in QuestId : DeleteRow(r, q)
             \/ \E w \in call[r].restore : RestoreRow(r, w)
    BY <1>4, QueryKindInOrder, DeleteRowInOrder, RestoreRowInOrder
  <1> QED BY <1>1, <1>2, <1>3, <1>4 DEF List

LEMMA OrderInvInit == Init => OrderInv
  <1> SUFFICES ASSUME Init PROVE OrderInv
    OBVIOUS
  <1>1. Present = {} /\ DOMAIN flips = {} /\ Zone # {}
    BY QuestConstants DEF Init, Present
  <1>2. Calm
    BY <1>1 DEF Calm, AtRest, OneEdition, ClaimsKept, Full, OfKind, FlippedOf, Flipped
  <1>3. \A r \in Worker : At(r, "idle")
    BY DEF Init, At, Blank
  <1> QED BY <1>1, <1>2, <1>3 DEF OrderInv, AllWhole, FlippedOnce

LEMMA OrderInvStep ==
    ASSUME ZonesAreClose, TypeInv, OrderInv, [Next]_vars
    PROVE  OrderInv'
  <1> SUFFICES ASSUME orderly' PROVE OrderInv'
    BY DEF OrderInv
  <1>1. CASE UNCHANGED vars \/ Tick
    <2>1. UNCHANGED <<rows, flips, call, orderly>>
      BY <1>1 DEF vars, Tick, table, history
    <2>2. \A r \in Worker : Stage(call[r]) => Stage(call[r])'
      <3> SUFFICES ASSUME NEW r \in Worker, Stage(call[r]) PROVE Stage(call[r])'
        OBVIOUS
      <3>1. PICK c : c = call[r]
        OBVIOUS
      <3>2. Stage(c)'
        BY <2>1, <3>1, SameTable
      <3>3. call'[r] = c
        BY <2>1, <3>1
      <3> QED BY <3>2, <3>3 DEF Stage
    <2>3. (Calm => Calm') /\ (AllWhole => AllWhole') /\ (FlippedOnce => FlippedOnce')
      BY <2>1, SameTable
    <2> QED BY <2>1, <2>2, <2>3 DEF OrderInv, At
  <1>2. ASSUME NEW r \in Worker, Crash(r) PROVE OrderInv'
    BY <1>2 DEF Crash
  <1>3. ASSUME NEW r \in Worker, Handle(r) PROVE OrderInv'
    <2>1. CASE Bump(r)
      <3>1. CASE BumpWrite(r)
        <4>1. orderly
          BY <3>1 DEF BumpWrite
        <4> QED BY <3>1, <4>1, BumpWriteInOrder
      <3> QED BY <2>1, <3>1, BumpReadInOrder DEF Bump
    <2>2. CASE Claim(r)
      <3>1. CASE ClaimFlip(r)
        <4>1. orderly
          BY <3>1 DEF ClaimFlip
        <4> QED BY <3>1, <4>1, ClaimFlipInOrder
      <3> QED BY <2>2, <3>1, QuietSteps DEF Claim
    <2>3. CASE List(r)
      <3>1. orderly
        BY <2>3 DEF List, ListStart, ListRows, Refetch, QueryKind, DeleteRow, RestoreRow,
                    MintRow, Begin
      <3>2. PICK c : c = call[r]
        OBVIOUS
      <3> QED BY <2>3, <3>1, <3>2, ListInOrder
    <2>4. CASE Boot(r)
      BY <2>4, QuietSteps DEF Boot
    <2>5. CASE Refresh(r)
      BY <2>5, NoRefresh
    <2> QED BY <1>3, <2>1, <2>2, <2>3, <2>4, <2>5 DEF Handle
  <1> QED BY <1>1, <1>2, <1>3 DEF Next

\* One request after another, no quest is paid twice, wherever the user travels among
\* zones that are no more than a bucket apart: claim_quest pays for a flip, and the
\* sweep of _ensure_active_catalog brings back no id that was flipped.
THEOREM PaidOnceInOrderHolds ==
    ASSUME ZonesAreClose
    PROVE  Spec => []PaidOnceInOrder
  <1>1. TypeInv /\ OrderInv /\ [Next]_vars => OrderInv'
    BY OrderInvStep
  <1>2. BackedInv /\ OrderInv => PaidOnceInOrder
    <2>1. BackedInv => paid \subseteq DOMAIN flips
      BY DEF BackedInv
    <2> QED BY <2>1 DEF OrderInv, FlippedOnce, PaidOnceInOrder, PaidOnce
  <1>3. Init => BackedInv
    BY FS_EmptySet DEF Init, BackedInv, Owing, Holding, Blank
  <1> QED BY <1>1, <1>2, <1>3, OrderInvInit, InitTypeInv, StepTypeInv, StepBackedInv, PTL DEF Spec

-----------------------------------------------------------------------------
(* What a listing shows.                                                   *)

\* Every kind has quests: _DAILY_POOL and _WEEKLY_POOL are not empty.
SlotsAreFilled == \A k \in Kind : Slot[k] # {}

LEMMA AnswersCurrent ==
    ASSUME SlotsAreFilled, NEW c, NEW k \in Kind, Answered(k, c)',
           NEW quests, quests = {q \in QuestId : rows'[q] # None /\ KindOf(q) = k}
    PROVE  /\ quests # {}
           /\ \/ \E q \in quests : quests = {k} \X Slot[k] \X {q[3]}
              \/ \A q \in quests : rows'[q].status = "completed"
           /\ \A q \in quests :
                 \/ rows'[q].expires >= c.at
                 \/ rows'[q].status = "completed" /\ q \in Catalog(c.at, c.zone)
  <1>1. quests = OfKind(k)'
    BY DEF OfKind, Present
  <1>2. Full(k)' /\ quests # {} /\ \A q \in OfKind(k)' : Current(q, c)'
    BY <1>1 DEF SlotsAreFilled, Answered, Shown, AtRest
  <1> QED BY <1>1, <1>2 DEF Full, Current, Completed

\* What ends a request of a listing, and is no crash, is an answer of the listing.
LEMMA OnlyListingsAnswer ==
    ASSUME TypeInv, OrderInv, orderly, [Next]_vars, NEW r \in Worker, ListAnswers(r)
    PROVE  List(r) /\ orderly'
  <1>1. call[r].pc \in {"list", "refetch", "mint"} /\ call'[r].pc = "idle" /\ crashes' = crashes
    BY DEF ListAnswers
  <1>2. ~UNCHANGED vars /\ ~Tick
    BY <1>1 DEF vars, Tick
  <1>3. PICK s \in Worker : Handle(s) \/ Crash(s)
    BY <1>2 DEF Next
  <1>4. crashes \in Nat
    BY QuestConstants DEF TypeInv, TypeOK
  <1>5. Handle(s)
    BY <1>1, <1>3, <1>4 DEF Crash
  <1>6. call[s].pc = "idle" \/ s = r
    BY <1>1, UnderWay DEF At
  <1>7. s = r
    <2> SUFFICES ASSUME s # r PROVE call'[r] = call[r]
      BY <1>1
    <2> QED BY <1>5 DEF Handle, Bump, Claim, List, Refresh, Boot, BumpRead, BumpWrite, ClaimRead,
               ClaimFlip, ClaimLost, ReadPurse, ReadRow, PayReward, ListStart, ListRows, Refetch,
               QueryKind, DeleteRow, RestoreRow, MintRow, RefreshStart, QueryAll, Reseed, WipeRow,
               BootRead, SyncTimezone, MintOrAnswer, Finish, TypeInv, TypeOK
  <1>8. ~Bump(r) /\ ~Claim(r) /\ ~Boot(r)
    BY <1>1 DEF Bump, Claim, Boot, BumpRead, BumpWrite, ClaimRead, ClaimFlip, ClaimLost, ReadPurse,
            ReadRow, PayReward, BootRead, SyncTimezone, Begin, At
  <1>9. ~Refresh(r)
    BY <1>1 DEF Refresh, RefreshStart, QueryAll, Reseed, WipeRow, Begin, At
  <1>10. List(r)
    BY <1>5, <1>7, <1>8, <1>9 DEF Handle
  <1>11. orderly' = orderly
    BY <1>1, <1>10 DEF List, ListStart, ListRows, Refetch, QueryKind, DeleteRow, RestoreRow, MintRow,
            Begin, At
  <1> QED BY <1>10, <1>11

\* Of each kind a listing shows the quests of one bucket, all of them, or claimed ones
\* alone, and of what had expired before it began only what was claimed of the present
\* bucket (_ensure_active_catalog): for zones that are no more than a bucket apart.
THEOREM ListIsCurrentHolds ==
    ASSUME ZonesAreClose, SlotsAreFilled
    PROVE  Spec => ListIsCurrent
  <1> DEFINE Shows(c, k) ==
        LET shown == {q \in QuestId : rows'[q] # None /\ KindOf(q) = k}
        IN  /\ shown # {}
            /\ \/ \E q \in shown : shown = {k} \X Slot[k] \X {q[3]}
               \/ \A q \in shown : rows'[q].status = "completed"
            /\ \A q \in shown :
                  \/ rows'[q].expires >= c.at
                  \/ rows'[q].status = "completed" /\ q \in Catalog(c.at, c.zone)
  <1>1. TypeInv /\ OrderInv /\ [Next]_vars => OrderInv'
    BY OrderInvStep
  <1>2. ASSUME TypeInv, OrderInv, [Next]_vars, orderly, NEW r \in Worker, ListAnswers(r), NEW k \in Kind
        PROVE  Shows(call[r], k)
    <2>1. PICK c : c = call[r]
      OBVIOUS
    <2>2. \A n \in Kind : Answered(n, c)'
      BY <1>2, <2>1, OnlyListingsAnswer, ListInOrder DEF ListAnswers
    <2>3. PICK shown : shown = {q \in QuestId : rows'[q] # None /\ KindOf(q) = k}
      OBVIOUS
    <2> QED BY <2>1, <2>2, <2>3, AnswersCurrent
  <1>3. TypeInv /\ OrderInv /\ [Next]_vars =>
          [orderly => \A r \in Worker : ListAnswers(r) =>
            LET asOf == call[r].at
                shown(k) == {q \in QuestId : rows'[q] # None /\ KindOf(q) = k}
                claimed(q) == rows'[q].status = "completed"
            IN
            \A k \in Kind :
                /\ shown(k) # {}
                /\ \/ \E q \in shown(k) : shown(k) = {k} \X Slot[k] \X {q[3]}
                   \/ \A q \in shown(k) : claimed(q)
                /\ \A q \in shown(k) :
                      \/ rows'[q].expires >= asOf
                      \/ claimed(q) /\ q \in Catalog(asOf, call[r].zone)]_vars
    BY <1>2
  <1> QED BY <1>1, <1>3, OrderInvInit, InitTypeInv, StepTypeInv, PTL DEF Spec, ListIsCurrent
=============================================================================
