------------------------------- MODULE Quests -------------------------------
(***************************************************************************)
(* The quest subsystem of one user: the rows of the quests table, the four *)
(* endpoints that change them, and the one that sets the user's time zone. *)
(*                                                                         *)
(*   bump     POST /quests/{id}/progress, /quests/_internal/{id}/progress  *)
(*   claim    POST /quests/{id}/claim                                      *)
(*   list     GET  /quests, which sweeps expired rows and mints new ones   *)
(*   refresh  POST /quests/refresh                                         *)
(*   boot     GET  /boot, which stores the zone the device reports         *)
(*                                                                         *)
(* A worker (a Lambda execution environment, or a coroutine of the dev     *)
(* server) handles one request at a time, as a sequence of calls to the    *)
(* repository; between any two of them the other workers run, and the      *)
(* worker may die.  One action is one call to the repository, together     *)
(* with the decision the handler takes on its result.                      *)
(***************************************************************************)
EXTENDS Integers, FiniteSets, Sequences

CONSTANTS
    Worker,     \* the processes that serve requests
    Endpoint,   \* the endpoints that are called in a run
    Kind,       \* the recurring quest types: daily, weekly
    Slot,       \* the quests picked for each bucket of each type
    Length,     \* hours in the bucket of each type: a day, a week
    Zone,       \* the UTC offsets, in hours, the user's devices may report
    Target,     \* progress_target of every quest
    Delta,      \* the deltas the bump endpoint may be sent
    MaxTime,    \* the hour at which the clock of a run stops
    MaxCrash,   \* how many workers may die in a request
    MaxClaims,  \* how many claims may succeed
    None        \* no item under a key, no value in a local variable

ASSUME QuestConstants ==
    /\ Endpoint \subseteq {"bump", "claim", "list", "refresh", "boot"}
    /\ Length \in [Kind -> Nat \ {0}]
    /\ Zone \subseteq Int /\ Zone # {}
    /\ Target \in Nat \ {0}
    /\ Delta \subseteq Int
    /\ MaxTime \in Nat
    /\ MaxCrash \in Nat
    /\ MaxClaims \in Nat
    /\ None \notin [status : {"active", "claimable", "completed"},
                    progress : 0..Target, granted : BOOLEAN, expires : Int,
                    whole : BOOLEAN]

VARIABLES
    rows,       \* quests table: quest id -> row
    now,        \* the wall clock, in hours
    zone,       \* users table: the offset of the time zone stored for the user
    lingots,    \* users table: the balance, counted in quest rewards
    call,       \* what each worker is doing, and its local variables
    crashes,    \* workers that died in a request so far
    flips,      \* history: the quests taken claimable -> completed, in order
    paid,       \* history: the flips whose reward was written to the user row
    disturbed,  \* history: ids whose completed row was overwritten or deleted
    orderly     \* history: requests came one by one, ran to their end, and
                \* none was a refresh

vars == <<rows, now, zone, lingots, call, crashes, flips, paid, disturbed,
          orderly>>

-----------------------------------------------------------------------------
(* Quest ids and rows. *)

Bucket(k, t, z) == (t + z) \div Length[k]

\* The catalogue is a pure function of the local day (week): the ids a user is
\* given in a bucket do not depend on when or how often they are computed.
Catalog(t, z) == UNION {{k} \X Slot[k] \X {Bucket(k, t, z)} : k \in Kind}

QuestId == UNION {Catalog(t, z) : t \in 0..MaxTime, z \in Zone}

KindOf(q) == q[1]

Status == {"active", "claimable", "completed"}

\* An item that update_item created under a missing key has no id, no type and
\* no expiry: it is not whole.
Row == [status : Status, progress : 0..Target, granted : BOOLEAN,
        expires : Int, whole : BOOLEAN]

Minted(q, z) ==
    [status |-> "active", progress |-> 0, granted |-> FALSE,
     expires |-> (q[3] + 1) * Length[KindOf(q)] - z, whole |-> TRUE]

Present == {q \in QuestId : rows[q] # None}
Whole == {q \in Present : rows[q].whole}
Completed(q) == rows[q] # None /\ rows[q].status = "completed"

\* list_quests and get_quest materialise each item with item["id"], which
\* raises KeyError on an item that is not whole.
Readable == Present = Whole

\* The rows a sweep would delete are those already past their expiry, but for
\* a completed row whose id the catalogue would mint again.
Expired(t) == {q \in Whole : rows[q].expires < t}

\* Mutant: completed rows are swept like any other.
ProtectedNone(t, z) == {}

Protected(t, z) == {q \in Expired(t) : Completed(q) /\ q \in Catalog(t, z)}

\* Mutant: every row of the catalogue that is not there.
MissingById(t, z) ==
    {<<q, Minted(q, z)>> : q \in {c \in Catalog(t, z) : rows[c] = None}}

\* The rows to mint for the kinds that have no row at all.
Missing(t, z) ==
    {<<q, Minted(q, z)>> : q \in {c \in Catalog(t, z) :
                                    \A p \in Whole : KindOf(p) # KindOf(c)}}

-----------------------------------------------------------------------------
(* The local state of a worker. *)

Blank == [pc |-> "idle", quest |-> None, row |-> None, delta |-> 0,
          flip |-> 0, purse |-> 0, zone |-> 0, at |-> 0, kinds |-> {}, doomed |-> {},
          restore |-> {}, mint |-> {}]

Phase == {"idle", "bumpWrite", "flip", "purse", "row", "pay", "list", "query",
          "delete", "refetch", "restore", "refresh", "wipe", "reseed", "mint",
          "zone"}

Written == QuestId \X Row

Call == [pc : Phase, quest : QuestId \cup {None}, row : Row \cup {None},
         delta : Delta \cup {0}, flip : Nat, purse : Nat, zone : Zone \cup {0}, at : Nat,
         kinds : SUBSET Kind, doomed : SUBSET QuestId,
         restore : SUBSET Written, mint : SUBSET Written]

Init ==
    /\ rows = [q \in QuestId |-> None]
    /\ now = 0
    /\ zone \in Zone
    /\ lingots = 0
    /\ call = [r \in Worker |-> Blank]
    /\ crashes = 0
    /\ flips = << >>
    /\ paid = {}
    /\ disturbed = {}
    /\ orderly = TRUE

At(r, phase) == call[r].pc = phase

Begin(r, endpoint) ==
    /\ endpoint \in Endpoint
    /\ At(r, "idle")
    /\ orderly' = (orderly /\ endpoint # "refresh"
                           /\ \A s \in Worker : At(s, "idle"))

\* The handler returns or raises: the worker is free for another request.
Finish(r) == call' = [call EXCEPT ![r] = Blank]

\* The repository writes: put_quest and update_item replace the item under the
\* key, whatever it holds by then.
Put(q, row) ==
    /\ rows' = [rows EXCEPT ![q] = row]
    /\ disturbed' = IF Completed(q) /\ row.status # "completed"
                      THEN disturbed \cup {q} ELSE disturbed

Delete(q) ==
    /\ rows' = [rows EXCEPT ![q] = None]
    /\ disturbed' = IF Completed(q) THEN disturbed \cup {q} ELSE disturbed

history == <<flips, paid>>
user == <<zone, lingots>>
table == <<rows, disturbed>>
clock == <<now, crashes>>

-----------------------------------------------------------------------------
(* update_progress: a read, then an unconditional write of what was read. *)

BumpRead(r, q) ==
    /\ Begin(r, "bump")
    /\ q \in Whole /\ ~Completed(q)
    /\ \E d \in Delta :
          call' = [call EXCEPT ![r].pc = "bumpWrite", ![r].quest = q,
                               ![r].row = rows[q], ![r].delta = d]
    /\ UNCHANGED <<table, user, clock, history>>

\* Mutant: progress is not clamped.
ClampNot(n) == n

Clamp(n) == IF n < 0 THEN 0 ELSE IF n > Target THEN Target ELSE n

Bumped(row, d) ==
    LET progress == Clamp(row.progress + d) IN
    [progress |-> progress,
     status |-> IF progress >= Target /\ row.status = "active"
                  THEN "claimable" ELSE row.status]

\* SET progress_current, status: the two values come from the row as it was
\* read; under a key deleted since, the item is created with these two alone.
BumpWrite(r) ==
    LET q == call[r].quest
        new == Bumped(call[r].row, call[r].delta)
        base == IF rows[q] = None
                  THEN [Minted(q, 0) EXCEPT !.expires = 0, !.whole = FALSE]
                  ELSE rows[q]
    IN
    /\ At(r, "bumpWrite")
    /\ Put(q, [base EXCEPT !.progress = new.progress, !.status = new.status])
    /\ Finish(r)
    /\ UNCHANGED <<user, clock, history, orderly>>

-----------------------------------------------------------------------------
(* claim_quest. *)

ClaimRead(r, q) ==
    /\ Begin(r, "claim")
    /\ Len(flips) < MaxClaims
    /\ q \in Whole /\ rows[q].status = "claimable"
    /\ call' = [call EXCEPT ![r].pc = "flip", ![r].quest = q]
    /\ UNCHANGED <<table, user, clock, history>>

\* Mutant: the condition is that the item exists.
ClaimableIfPresent(q) == rows[q] # None

\* repo.claim: one conditional update_item, so a single atomic step.
Claimable(q) == rows[q] # None /\ rows[q].status = "claimable"

ClaimFlip(r) ==
    LET q == call[r].quest IN
    /\ At(r, "flip")
    /\ Claimable(q)
    /\ Put(q, [rows[q] EXCEPT !.status = "completed", !.granted = TRUE])
    /\ flips' = Append(flips, q)
    /\ IF rows[q].whole
         THEN call' = [call EXCEPT ![r].pc = "purse", ![r].flip = Len(flips')]
         ELSE Finish(r)
    /\ UNCHANGED <<user, clock, paid, orderly>>

\* Mutant: the loser credits its reward too.
ClaimLostPays(r) ==
    /\ At(r, "flip")
    /\ ~Claimable(call[r].quest)
    /\ call' = [call EXCEPT ![r].pc = "purse", ![r].flip = Len(flips)]
    /\ UNCHANGED <<table, user, clock, history, orderly>>

\* The loser reads the quest again, only to word its answer.
ClaimLost(r) ==
    /\ At(r, "flip")
    /\ ~Claimable(call[r].quest)
    /\ Finish(r)
    /\ UNCHANGED <<table, user, clock, history, orderly>>

\* The reward: a read of the user row for the balance, ...
ReadPurse(r) ==
    /\ At(r, "purse")
    /\ call' = [call EXCEPT ![r].pc = "row", ![r].purse = lingots]
    /\ UNCHANGED <<table, user, clock, history, orderly>>

\* ... update_user's own read, for the attributes that it is not to change, ...
ReadRow(r) ==
    /\ At(r, "row")
    /\ call' = [call EXCEPT ![r].pc = "pay", ![r].zone = zone]
    /\ UNCHANGED <<table, user, clock, history, orderly>>

\* ... and its put of the whole row.
PayReward(r) ==
    /\ At(r, "pay")
    /\ lingots' = call[r].purse + 1
    /\ zone' = call[r].zone
    /\ paid' = paid \cup {call[r].flip}
    /\ Finish(r)
    /\ UNCHANGED <<table, clock, flips, orderly>>

-----------------------------------------------------------------------------
(* list_quests and _ensure_active_catalog. *)

\* The user row is read for its zone, and the clock right after.
ListStart(r) ==
    /\ Begin(r, "list")
    /\ call' = [call EXCEPT ![r].pc = "list", ![r].zone = zone, ![r].at = now]
    /\ UNCHANGED <<table, user, clock, history>>

\* Mint what is missing, or answer at once.
MintOrAnswer(r, c, missing) ==
    IF missing = {} THEN Finish(r)
    ELSE call' = [call EXCEPT ![r] = [c EXCEPT !.mint = missing, !.pc = "mint"]]

ListRows(r) ==
    LET c == call[r]
        keep == Protected(c.at, c.zone)
        kinds == {KindOf(q) : q \in Expired(c.at) \ keep}
    IN
    /\ At(r, "list")
    /\ IF ~Readable THEN Finish(r)
       ELSE IF kinds = {} THEN MintOrAnswer(r, c, Missing(c.at, c.zone))
       ELSE call' = [call EXCEPT ![r] =
                [c EXCEPT !.pc = "query", !.kinds = kinds,
                   !.restore = {<<q, rows[q]>> :
                                  q \in {p \in keep : KindOf(p) \in kinds}}]]
    /\ UNCHANGED <<table, user, clock, history, orderly>>

\* delete_user_quests(user, [k]): a query, then a batch of deletes by key.
QueryKind(r, k) ==
    LET doomed == {q \in Whole : KindOf(q) = k}
        rest == call[r].kinds \ {k}
    IN
    /\ At(r, "query")
    /\ k \in call[r].kinds
    /\ call' = [call EXCEPT
                  ![r].kinds = rest, ![r].doomed = doomed,
                  ![r].pc = IF doomed # {} THEN "delete"
                            ELSE IF rest # {} THEN "query" ELSE "refetch"]
    /\ UNCHANGED <<table, user, clock, history, orderly>>

DeleteRow(r, q) ==
    LET rest == call[r].doomed \ {q} IN
    /\ At(r, "delete")
    /\ q \in call[r].doomed
    /\ Delete(q)
    /\ call' = [call EXCEPT
                  ![r].doomed = rest,
                  ![r].pc = IF rest # {} THEN "delete"
                            ELSE IF call[r].kinds # {} THEN "query"
                            ELSE "refetch"]
    /\ UNCHANGED <<user, clock, history, orderly>>

Refetch(r) ==
    /\ At(r, "refetch")
    /\ IF ~Readable THEN Finish(r)
       ELSE IF call[r].restore # {}
         THEN call' = [call EXCEPT ![r].pc = "restore"]
       ELSE MintOrAnswer(r, call[r], Missing(call[r].at, call[r].zone))
    /\ UNCHANGED <<table, user, clock, history, orderly>>

RestoreRow(r, w) ==
    LET rest == call[r].restore \ {w} IN
    /\ At(r, "restore")
    /\ w \in call[r].restore
    /\ Put(w[1], w[2])
    /\ call' = [call EXCEPT ![r].restore = rest,
                            ![r].pc = IF rest # {} THEN "restore" ELSE "refetch"]
    /\ UNCHANGED <<user, clock, history, orderly>>

MintRow(r, w) ==
    LET rest == call[r].mint \ {w} IN
    /\ At(r, "mint")
    /\ w \in call[r].mint
    /\ Put(w[1], w[2])
    /\ IF rest = {} THEN Finish(r)
       ELSE call' = [call EXCEPT ![r].mint = rest]
    /\ UNCHANGED <<user, clock, history, orderly>>

-----------------------------------------------------------------------------
(* refresh_quests: the wipe takes every item, whole or not. *)

RefreshStart(r) ==
    /\ Begin(r, "refresh")
    /\ call' = [call EXCEPT ![r].pc = "refresh", ![r].zone = zone]
    /\ UNCHANGED <<table, user, clock, history>>

QueryAll(r) ==
    /\ At(r, "refresh")
    /\ call' = [call EXCEPT ![r].doomed = Present,
                            ![r].pc = IF Present = {} THEN "reseed" ELSE "wipe"]
    /\ UNCHANGED <<table, user, clock, history, orderly>>

WipeRow(r, q) ==
    LET rest == call[r].doomed \ {q} IN
    /\ At(r, "wipe")
    /\ q \in call[r].doomed
    /\ Delete(q)
    /\ call' = [call EXCEPT ![r].doomed = rest,
                            ![r].pc = IF rest # {} THEN "wipe" ELSE "reseed"]
    /\ UNCHANGED <<user, clock, history, orderly>>

Reseed(r) ==
    /\ At(r, "reseed")
    /\ MintOrAnswer(r, call[r], {<<q, Minted(q, call[r].zone)>> :
                                   q \in Catalog(now, call[r].zone)})
    /\ UNCHANGED <<table, user, clock, history, orderly>>

-----------------------------------------------------------------------------
(* get_boot, as far as sync_request_timezone: the row read for the answer is *)
(* written back with the zone of the request, unless that is its zone.       *)

BootRead(r, z) ==
    /\ Begin(r, "boot")
    /\ z # zone
    /\ call' = [call EXCEPT ![r].pc = "zone", ![r].purse = lingots, ![r].zone = z]
    /\ UNCHANGED <<table, user, clock, history>>

SyncTimezone(r) ==
    /\ At(r, "zone")
    /\ lingots' = call[r].purse
    /\ zone' = call[r].zone
    /\ Finish(r)
    /\ UNCHANGED <<table, clock, history, orderly>>

-----------------------------------------------------------------------------
(* The environment: time, and a process that dies. *)

Tick ==
    /\ now < MaxTime
    /\ now' = now + 1
    /\ UNCHANGED <<table, user, call, crashes, history, orderly>>

Crash(r) ==
    /\ ~At(r, "idle")
    /\ crashes < MaxCrash
    /\ crashes' = crashes + 1
    /\ orderly' = FALSE
    /\ Finish(r)
    /\ UNCHANGED <<table, user, now, history>>

Bump(r) == (\E q \in QuestId : BumpRead(r, q)) \/ BumpWrite(r)

Claim(r) ==
    \/ \E q \in QuestId : ClaimRead(r, q)
    \/ ClaimFlip(r) \/ ClaimLost(r)
    \/ ReadPurse(r) \/ ReadRow(r) \/ PayReward(r)

List(r) ==
    \/ ListStart(r) \/ ListRows(r) \/ Refetch(r)
    \/ \E k \in Kind : QueryKind(r, k)
    \/ \E q \in QuestId : DeleteRow(r, q)
    \/ \E w \in call[r].restore : RestoreRow(r, w)
    \/ \E w \in call[r].mint : MintRow(r, w)

Refresh(r) ==
    \/ RefreshStart(r) \/ QueryAll(r) \/ Reseed(r)
    \/ \E q \in QuestId : WipeRow(r, q)

Boot(r) == (\E z \in Zone : BootRead(r, z)) \/ SyncTimezone(r)

Handle(r) == Bump(r) \/ Claim(r) \/ List(r) \/ Refresh(r) \/ Boot(r)

Next ==
    \/ \E r \in Worker : Handle(r) \/ Crash(r)
    \/ Tick

Spec == Init /\ [][Next]_vars

-----------------------------------------------------------------------------
(* Properties. *)

TypeOK ==
    /\ rows \in [QuestId -> Row \cup {None}]
    /\ now \in 0..MaxTime
    /\ zone \in Zone
    /\ lingots \in Nat
    /\ call \in [Worker -> Call]
    /\ crashes \in 0..MaxCrash
    /\ flips \in Seq(QuestId)
    /\ paid \subseteq Nat
    /\ disturbed \subseteq QuestId
    /\ orderly \in BOOLEAN

\* The claims of a quest are settled once: however many of them overlap, and
\* whichever die, at most one takes the row from claimable to completed and
\* only that one is paid -- as long as nothing else wrote over, or deleted,
\* the completed row (repo.claim is transition-only, claim_quest pays only
\* on a row it got back).
SettledOnce ==
    \A i, j \in DOMAIN flips :
        flips[i] = flips[j] /\ flips[i] \notin disturbed => i = j

\* The user is never richer than the flips account for: the overlapping
\* read-modify-writes of the balance may lose a reward, they never invent one.
LingotsBacked == lingots <= Len(flips)

\* The rewards of one quest id are paid at most once, whatever overlaps and
\* whichever worker dies (protocols/quests.py, claim: "credit rewards precisely
\* once even under concurrent claims").
PaidOnce == \A i, j \in paid : flips[i] = flips[j] => i = j

\* One request after another, and no refresh: the sweep never brings back a
\* quest that was paid for, however the user travels meanwhile, as long as the
\* zones are no more than a bucket apart.
PaidOnceInOrder == orderly => PaidOnce

\* A list has answered: the step ends the request, and not by a crash.
ListAnswers(r) ==
    /\ call[r].pc \in {"list", "refetch", "mint"}
    /\ call'[r].pc = "idle"
    /\ crashes' = crashes

\* What the user is shown, listing one request after another, is current: of each
\* type there are either the quests of one bucket, all of them, or claimed quests
\* only, and never none; and a row already past its expiry when the listing began
\* is there only because it is a claimed quest of the user's present local day
\* (_ensure_active_catalog).
ListIsCurrent ==
    [][orderly => \A r \in Worker : ListAnswers(r) =>
        LET asOf == call[r].at
            shown(k) == {q \in QuestId : rows'[q] # None /\ KindOf(q) = k}
            claimed(q) == rows'[q].status = "completed"
        IN
        \A k \in Kind :
            /\ shown(k) # {}
            /\ \/ \E q \in shown(k) : shown(k) = {k} \X Slot[k] \X {q[3]}
               \/ \A q \in shown(k) : claimed(q)
            /\ \A q \in shown(k) :
                  \/ rows'[q].expires >= asOf
                  \/ claimed(q) /\ q \in Catalog(asOf, call[r].zone)]_vars
=============================================================================
