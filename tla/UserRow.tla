------------------------------ MODULE UserRow ------------------------------
(***************************************************************************)
(* The two items every part of the service writes for a user: the row of   *)
(* the users table and the settings item.  Neither is written with a       *)
(* condition.  A handler reads the row and computes a patch; update_user   *)
(* reads the row again, unless the handler hands over the row it has,      *)
(* merges the patch, and puts the whole item; update_settings does the     *)
(* same with the settings.  One action is one call to the repository, with *)
(* the decision the handler takes on its result.                           *)
(*                                                                         *)
(* Only what the properties tell apart is kept of the items: of the row    *)
(* the XP and level, the lingots, the account ban (the community ban is    *)
(* the same code on other fields) and whether the user has registered; of  *)
(* the settings what the user owns and has unlocked.                       *)
(***************************************************************************)
EXTENDS Integers, Sequences, FiniteSets

CONSTANTS
    Worker,       \* the processes that serve requests
    Endpoint,     \* the requests that are made in a run
    Item,         \* the shop items a user owns once
    Freeze,       \* the shop item that is consumed: the streak freeze
    Price,        \* lingots per shop item
    Atom,         \* what the client unlocks
    XpPerLevel,
    Amount,       \* what an award or an adjustment may be: negative to retract
    Gain,         \* XP and lingots that a batch of attempts earns, or a quest
    MaxRequests,  \* how many requests are served
    MaxCrash,     \* how many workers may die in a request
    None          \* no row, no value in a local variable

Wares == Item \cup {Freeze}

ASSUME UserRowConstants ==
    /\ Endpoint \subseteq {"xp", "lingots", "ban", "unban", "reset", "lesson",
                           "buy", "unlock", "learning", "settings", "register",
                           "delete", "touch", "profile", "boot", "status",
                           "quest"}
    /\ Freeze \notin Item
    /\ Price \in [Wares -> Nat \ {0}]
    /\ XpPerLevel \in Nat \ {0}
    /\ Amount \subseteq Int \ {0}
    /\ Gain \in Nat \ {0}
    /\ MaxRequests \in Nat
    /\ MaxCrash \in Nat

VARIABLES
    row,       \* users table, PROFILE item, or None
    settings,  \* users table, SETTINGS item
    call,      \* what each worker is doing, and its local variables
    requests,  \* how many requests were begun
    crashes,   \* how many workers died
    charged    \* history: for each ware, the purchases whose price was put

vars == <<row, settings, call, requests, crashes, charged>>

-----------------------------------------------------------------------------
(* The items. *)

\* Mutant: a retraction is not clamped at 0.
Unclamped(n) == n

NonNegative(n) == IF n < 0 THEN 0 ELSE n

LevelFor(xp) == xp \div XpPerLevel + 1

MaxHistory == 2

Ban == {"open", "closed"}

Row == [xp : Nat, level : Nat, lingots : Nat, status : {"active", "banned"},
        history : UNION {[1..n -> Ban] : n \in 0..MaxHistory},
        registered : BOOLEAN]

\* A row as first-touch provisioning creates it.
Placeholder == [xp |-> 0, level |-> 1, lingots |-> 0, status |-> "active",
                history |-> << >>, registered |-> FALSE]

Settings == [owned : SUBSET Item, freezes : Nat, unlocked : SUBSET Atom]

\* No item, ware or patch is the mark for none.
ASSUME NoneIsNothing ==
    /\ None \notin Row
    /\ None \notin Wares
    /\ None \notin [owned : SUBSET Item, freezes : Int]

\* A missing settings item is read as an empty one.
NoSettings == [owned |-> {}, freezes |-> 0, unlocked |-> {}]

\* dict.update, and the merge of update_settings: dicts are merged, lists are
\* replaced.
Merge(item, patch) ==
    [f \in DOMAIN item |-> IF f \in DOMAIN patch THEN patch[f] ELSE item[f]]

\* A patch of parts of the item that are not modelled.
Elsewhere == [f \in {} |-> None]

XpPatch(xp) == [xp |-> xp, level |-> LevelFor(xp)]

\* _append_capped, once the record is appended.
Capped(history) ==
    IF Len(history) > MaxHistory
    THEN SubSeq(history, Len(history) - MaxHistory + 1, Len(history))
    ELSE history

\* The most recent open record is closed; older ones stay as they are.
Closed(history) ==
    [i \in DOMAIN history |->
        IF \A j \in DOMAIN history : j > i => history[j] # "open"
        THEN "closed" ELSE history[i]]

-----------------------------------------------------------------------------
(* The local state of a worker. *)

\* patch is what update_user is to write, over base; update is what
\* update_settings is to write, over read; ware is what is being bought.
Blank == [pc |-> "idle", base |-> None, patch |-> None, read |-> None,
          update |-> None, purse |-> 0, ware |-> None]

At(w, pc) == call[w].pc = pc

Init ==
    /\ row = Placeholder
    /\ settings = NoSettings
    /\ call = [w \in Worker |-> Blank]
    /\ requests = 0
    /\ crashes = 0
    /\ charged = [i \in Wares |-> 0]

\* A request whose first repository call leaves the worker with these locals.
\* One that is refused at once changes nothing and is not shown.
Begin(w, endpoint, locals) ==
    /\ At(w, "idle")
    /\ endpoint \in Endpoint
    /\ requests < MaxRequests
    /\ requests' = requests + 1
    /\ call' = [call EXCEPT ![w] = Merge(Blank, locals)]
    /\ UNCHANGED <<row, settings, crashes, charged>>

\* get_registered_user lets a banned user in nowhere.  A user without a row
\* (deleted while the id is cached) is let in.
Admitted == row # None => row.status # "banned"

-----------------------------------------------------------------------------
(* Handlers that read the row and call update_user. *)

Update(patch) == [pc |-> "merge", patch |-> patch]

AwardXp(w, n) ==
    /\ row # None
    /\ Begin(w, "xp", Update(XpPatch(NonNegative(row.xp + n))))

AdjustLingots(w, n) ==
    /\ row # None
    /\ Begin(w, "lingots", Update([lingots |-> NonNegative(row.lingots + n)]))

BanUser(w) ==
    /\ row # None
    /\ Begin(w, "ban", Update([status |-> "banned",
                               history |-> Capped(Append(row.history, "open"))]))

\* Mutant: the record of the ban that is lifted stays open.
UnbanStatus(w) ==
    /\ row # None
    /\ Begin(w, "unban", Update([status |-> "active", history |-> row.history]))

UnbanUser(w) ==
    /\ row # None
    /\ Begin(w, "unban", Update([status |-> "active",
                                 history |-> Closed(row.history)]))

ResetProgress(w) ==
    /\ row # None
    /\ Begin(w, "reset", Update([xp |-> 0, level |-> 1, lingots |-> 0]))

\* A quest that the claim has just completed, whose reward is still to be credited.
ClaimQuest(w) ==
    /\ Admitted
    /\ Begin(w, "quest", [pc |-> "reward"])

\* The row is read after the claim, and the level is not part of the patch.
RewardQuest(w) ==
    /\ At(w, "reward")
    /\ call' = [call EXCEPT ![w] =
          IF row = None THEN Blank
          ELSE [@ EXCEPT !.pc = "merge",
                         !.patch = [xp |-> row.xp + Gain,
                                    lingots |-> row.lingots + Gain]]]
    /\ UNCHANGED <<row, settings, requests, crashes, charged>>

\* PATCH /admin/users/{id} may set the status by itself, without a record.
SetStatus(w, status) ==
    /\ row # None
    /\ Begin(w, "status", Update([status |-> status]))

\* The profile, its edits by an admin, and "start over", which resets the streak.
UpdateProfile(w) ==
    /\ row # None
    /\ Begin(w, "profile", Update(Elsewhere))

-----------------------------------------------------------------------------
(* Handlers that hand the row they have read to update_user.  Between that *)
(* read and the put the whole request is served.                           *)

\* A batch of attempts, of which the streak may need a freeze.
Lesson(w, missed) ==
    /\ row # None /\ Admitted
    /\ Begin(w, "lesson",
             [pc |-> IF missed THEN "freeze" ELSE "put", base |-> row,
              patch |-> [xp |-> row.xp + Gain, level |-> LevelFor(row.xp + Gain),
                         lingots |-> row.lingots + Gain]])

\* POST /users/me for a user who was provisioned on first touch.
Register(w) ==
    /\ row # None /\ ~row.registered
    /\ Begin(w, "register", [pc |-> "put", base |-> row,
                             patch |-> [registered |-> TRUE]])

\* GET /boot stores the time zone the device reports.
Boot(w) ==
    /\ row # None /\ Admitted
    /\ Begin(w, "boot", [pc |-> "put", base |-> row, patch |-> Elsewhere])

-----------------------------------------------------------------------------
(* Handlers that read the settings and call update_settings. *)

Unlock(w, atoms) ==
    /\ Admitted
    /\ ~(atoms \subseteq settings.unlocked)
    /\ Begin(w, "unlock", [pc |-> "mergeSettings",
                           update |-> [unlocked |-> settings.unlocked \cup atoms]])

\* The patch holds the whole learning dict that was read, unlocks included.
PatchLearning(w) ==
    /\ row # None
    /\ Begin(w, "learning", [pc |-> "mergeSettings",
                             update |-> [unlocked |-> settings.unlocked]])

PatchSettings(w) ==
    /\ Admitted
    /\ Begin(w, "settings", [pc |-> "mergeSettings", update |-> Elsewhere])

-----------------------------------------------------------------------------
(* The shop. *)

\* The two reads of a purchase are made in parallel: either comes first.
BuyReadSettings(w, i) ==
    /\ Admitted
    /\ Begin(w, "buy", [pc |-> "buyRow", read |-> settings, ware |-> i])

BuyReadRow(w, i) ==
    /\ Admitted
    /\ Begin(w, "buy", [pc |-> "buySettings", ware |-> i,
                        purse |-> IF row = None THEN 0 ELSE row.lingots])

Owned(shop, i) == i \in shop.owned

With(shop, i) ==
    IF i = Freeze THEN [owned |-> shop.owned, freezes |-> shop.freezes + 1]
    ELSE [owned |-> shop.owned \cup {i}, freezes |-> shop.freezes]

\* Refused when it is owned already or costs too much.
Decide(w, shop, purse) ==
    LET i == call[w].ware IN
    call' = [call EXCEPT ![w] =
        IF Owned(shop, i) \/ purse < Price[i] THEN Blank
        ELSE [Blank EXCEPT !.pc = "merge", !.ware = i,
                           !.patch = [lingots |-> purse - Price[i]],
                           !.update = With(shop, i)]]

BuyDecide(w) ==
    /\ \/ At(w, "buyRow")
          /\ Decide(w, call[w].read, IF row = None THEN 0 ELSE row.lingots)
       \/ At(w, "buySettings") /\ Decide(w, settings, call[w].purse)
    /\ UNCHANGED <<row, settings, requests, crashes, charged>>

\* _consume_streak_freezes: spend one, or let the streak break.
SpendFreeze(w) ==
    /\ At(w, "freeze")
    /\ call' = [call EXCEPT
          ![w].pc = IF settings.freezes > 0 THEN "mergeSettings" ELSE "put",
          ![w].update = IF settings.freezes > 0
                        THEN [owned |-> settings.owned,
                              freezes |-> settings.freezes - 1]
                        ELSE None]
    /\ UNCHANGED <<row, settings, requests, crashes, charged>>

-----------------------------------------------------------------------------
(* update_user and update_settings. *)

\* Mutant: a purchase swallows the LookupError and goes on.
SwallowMissing(w) ==
    /\ At(w, "merge")
    /\ call' = [call EXCEPT ![w] =
          IF row # None THEN [@ EXCEPT !.pc = "put", !.base = row]
          ELSE IF @.ware = None THEN Blank ELSE [@ EXCEPT !.pc = "mergeSettings"]]
    /\ UNCHANGED <<row, settings, requests, crashes, charged>>

\* update_user reads the row; LookupError when there is none.
ReadRow(w) ==
    /\ At(w, "merge")
    /\ call' = [call EXCEPT ![w] =
          IF row = None THEN Blank ELSE [@ EXCEPT !.pc = "put", !.base = row]]
    /\ UNCHANGED <<row, settings, requests, crashes, charged>>

\* A purchase goes on to the settings; every other handler is done with the
\* store (day rollups, audit records and events follow).
PutRow(w) ==
    /\ At(w, "put")
    /\ row' = Merge(call[w].base, call[w].patch)
    /\ IF call[w].ware = None
       THEN /\ call' = [call EXCEPT ![w] = Blank]
            /\ UNCHANGED charged
       ELSE /\ call' = [call EXCEPT ![w].pc = "mergeSettings", ![w].base = None]
            /\ charged' = [charged EXCEPT ![call[w].ware] = @ + 1]
    /\ UNCHANGED <<settings, requests, crashes>>

ReadSettings(w) ==
    /\ At(w, "mergeSettings")
    /\ call' = [call EXCEPT ![w].pc = "putSettings", ![w].read = settings]
    /\ UNCHANGED <<row, settings, requests, crashes, charged>>

\* Mutant: the patch is put without what was read.
Overwrite(w) ==
    /\ At(w, "putSettings")
    /\ settings' = Merge(NoSettings, call[w].update)
    /\ call' = [call EXCEPT ![w] =
          IF call[w].base = None THEN Blank ELSE [@ EXCEPT !.pc = "put"]]
    /\ UNCHANGED <<row, requests, crashes, charged>>

\* A batch that spent a freeze goes on to the row it read at its beginning.
PutSettings(w) ==
    /\ At(w, "putSettings")
    /\ settings' = Merge(call[w].read, call[w].update)
    /\ call' = [call EXCEPT ![w] =
          IF call[w].base = None THEN Blank ELSE [@ EXCEPT !.pc = "put"]]
    /\ UNCHANGED <<row, requests, crashes, charged>>

-----------------------------------------------------------------------------
(* Deletion, and the first touch of a user who has no row. *)

Delete(w) ==
    /\ row # None
    /\ Begin(w, "delete", [pc |-> "deleteRow"])

DeleteRow(w) ==
    /\ At(w, "deleteRow")
    /\ row' = None
    /\ call' = [call EXCEPT ![w].pc = "deleteSettings"]
    /\ UNCHANGED <<settings, requests, crashes, charged>>

DeleteSettings(w) ==
    /\ At(w, "deleteSettings")
    /\ settings' = NoSettings
    /\ call' = [call EXCEPT ![w] = Blank]
    /\ UNCHANGED <<row, requests, crashes, charged>>

Touch(w) ==
    /\ row = None
    /\ Begin(w, "touch", [pc |-> "create"])

\* The id is a function of the identity, and the put is conditional: whoever
\* comes second finds the row there and uses it.
CreateUser(w) ==
    /\ At(w, "create")
    /\ row' = IF row = None THEN Placeholder ELSE row
    /\ call' = [call EXCEPT ![w] = Blank]
    /\ UNCHANGED <<settings, requests, crashes, charged>>

-----------------------------------------------------------------------------

Crash(w) ==
    /\ ~At(w, "idle")
    /\ crashes < MaxCrash
    /\ crashes' = crashes + 1
    /\ call' = [call EXCEPT ![w] = Blank]
    /\ UNCHANGED <<row, settings, requests, charged>>

Next == \E w \in Worker :
    \/ \E n \in Amount : AwardXp(w, n) \/ AdjustLingots(w, n)
    \/ BanUser(w) \/ UnbanUser(w) \/ ResetProgress(w) \/ UpdateProfile(w)
    \/ Register(w) \/ Boot(w) \/ ClaimQuest(w) \/ RewardQuest(w)
    \/ \E status \in {"active", "banned"} : SetStatus(w, status)
    \/ \E missed \in BOOLEAN : Lesson(w, missed)
    \/ \E atoms \in SUBSET Atom : Unlock(w, atoms)
    \/ PatchLearning(w) \/ PatchSettings(w)
    \/ \E i \in Wares : BuyReadSettings(w, i) \/ BuyReadRow(w, i)
    \/ BuyDecide(w) \/ SpendFreeze(w)
    \/ ReadRow(w) \/ PutRow(w) \/ ReadSettings(w) \/ PutSettings(w)
    \/ Delete(w) \/ DeleteRow(w) \/ DeleteSettings(w) \/ Touch(w) \/ CreateUser(w)
    \/ Crash(w)

Spec == Init /\ [][Next]_vars

-----------------------------------------------------------------------------
(* Properties.                                                             *)

Phase == {"idle", "merge", "put", "freeze", "mergeSettings", "putSettings",
          "buyRow", "buySettings", "deleteRow", "deleteSettings", "create", "reward"}

(* The items and the local variables hold what the code can put there; no  *)
(* sequence of awards, retractions and purchases makes a balance negative. *)
TypeOK ==
    /\ row \in Row \cup {None}
    /\ settings \in Settings
    /\ DOMAIN call = Worker
    /\ \A w \in Worker :
          /\ call[w].pc \in Phase
          /\ call[w].base \in Row \cup {None}
          /\ call[w].patch = None \/ Merge(Placeholder, call[w].patch) \in Row
          /\ call[w].read \in Settings \cup {None}
          /\ call[w].update = None \/ Merge(NoSettings, call[w].update) \in Settings
          /\ call[w].purse \in Nat
          /\ call[w].ware \in Wares \cup {None}
    /\ requests \in 0..MaxRequests
    /\ crashes \in 0..MaxCrash
    /\ charged \in [Wares -> Nat]

(* The level stored is that of the XP stored: level "is derived from       *)
(* cumulative XP", says reset_my_progress.  Every writer of XP computes it *)
(* but one, claim_quest, and one claim is enough to make it false.         *)
LevelFollowsXp == row # None => row.level = LevelFor(row.xp)

(* However bans, liftings and write-backs of stale rows overlap, a user is *)
(* banned exactly when the newest record of the history is open: the       *)
(* status and the history are lost and restored together.  (But for the    *)
(* status an admin sets by itself: a run of this has no endpoint "status".)*)
StatusAgreesWithHistory ==
    row # None =>
        LET n == Len(row.history) IN
        (row.status = "banned") <=> (n > 0 /\ row.history[n] = "open")

(* Nothing is handed out before it is charged: a purchase that overlaps    *)
(* with others, with spent freezes or with stale settings, or that dies    *)
(* halfway, may cost the user the ware but never makes a ware from nothing.*)
DeliveredWasCharged ==
    /\ settings.freezes <= charged[Freeze]
    /\ \A i \in settings.owned : charged[i] > 0
=============================================================================
