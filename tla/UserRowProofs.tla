--------------------------- MODULE UserRowProofs ---------------------------
(***************************************************************************)
(* What holds of the user row and the settings for any number of workers,  *)
(* requests and crashes, though every put writes a whole item back.        *)
(*                                                                         *)
(* The argument: a row that is sound stays sound under every patch the     *)
(* handlers compute, whatever row they computed it from; so it does not    *)
(* matter how stale the base of a put is.                                  *)
(*                                                                         *)
(* At the end, that one worker serves the account of Ledger with them.     *)
(***************************************************************************)
EXTENDS UserRowLedger, SequenceTheorems, TLAPS

LevelAgrees(r) == r.level = LevelFor(r.xp)

StatusAgrees(r) ==
    (r.status = "banned") <=> (Len(r.history) > 0 /\ r.history[Len(r.history)] = "open")

\* A row that is typed and whose fields agree with each other; the reward of a
\* quest breaks that of the level, and an admin who sets the status by itself
\* that of the status.
Sound(r) ==
    /\ r \in Row
    /\ "quest" \notin Endpoint => LevelAgrees(r)
    /\ "status" \notin Endpoint => StatusAgrees(r)

SafePatch(p) == \A r : Sound(r) => Sound(Merge(r, p))

SafeUpdate(u) == \A s \in Settings : Merge(s, u) \in Settings

Locals == {"pc", "base", "patch", "read", "update", "purse", "ware"}

\* What each program counter promises of the locals.
Good(c) ==
    /\ DOMAIN c = Locals
    /\ c.pc \in Phase
    /\ c.base = None \/ Sound(c.base)
    /\ c.patch = None \/ SafePatch(c.patch)
    /\ c.read = None \/ c.read \in Settings
    /\ c.update = None \/ SafeUpdate(c.update)
    /\ c.purse \in Nat
    /\ c.ware \in Wares \cup {None}
    /\ c.pc \in {"put", "freeze"} \/ c.base # None => Sound(c.base) /\ SafePatch(c.patch)
    /\ c.pc = "merge" => SafePatch(c.patch)
    /\ c.pc \in {"mergeSettings", "putSettings"} => SafeUpdate(c.update)
    /\ c.pc \in {"putSettings", "buyRow"} => c.read \in Settings
    /\ c.pc \in {"buyRow", "buySettings"} => c.ware \in Wares
    /\ c.pc \in {"freeze", "reward"} => c.ware = None
    /\ c.pc \in {"merge", "put"} /\ c.ware # None => SafeUpdate(c.update)
    /\ c.pc = "reward" => "quest" \in Endpoint

RowInv ==
    /\ row = None \/ Sound(row)
    /\ settings \in Settings
    /\ DOMAIN call = Worker
    /\ \A w \in Worker : Good(call[w])
    /\ requests \in 0..MaxRequests
    /\ crashes \in 0..MaxCrash
    /\ charged \in [Wares -> Nat]

-----------------------------------------------------------------------------
(* Merging a patch, field by field.                                        *)

LEMMA MergeRow ==
    ASSUME NEW r \in Row, NEW p
    PROVE  Merge(r, p) =
             [xp |-> IF "xp" \in DOMAIN p THEN p["xp"] ELSE r.xp,
              level |-> IF "level" \in DOMAIN p THEN p["level"] ELSE r.level,
              lingots |-> IF "lingots" \in DOMAIN p THEN p["lingots"] ELSE r.lingots,
              status |-> IF "status" \in DOMAIN p THEN p["status"] ELSE r.status,
              history |-> IF "history" \in DOMAIN p THEN p["history"] ELSE r.history,
              registered |-> IF "registered" \in DOMAIN p THEN p["registered"]
                             ELSE r.registered]
BY DEF Merge, Row

LEMMA MergeSettings ==
    ASSUME NEW s \in Settings, NEW u
    PROVE  Merge(s, u) =
             [owned |-> IF "owned" \in DOMAIN u THEN u["owned"] ELSE s.owned,
              freezes |-> IF "freezes" \in DOMAIN u THEN u["freezes"] ELSE s.freezes,
              unlocked |-> IF "unlocked" \in DOMAIN u THEN u["unlocked"] ELSE s.unlocked]
BY DEF Merge, Settings

LEMMA MergeBlank ==
    ASSUME NEW p
    PROVE  Merge(Blank, p) =
             [pc |-> IF "pc" \in DOMAIN p THEN p["pc"] ELSE "idle",
              base |-> IF "base" \in DOMAIN p THEN p["base"] ELSE None,
              patch |-> IF "patch" \in DOMAIN p THEN p["patch"] ELSE None,
              read |-> IF "read" \in DOMAIN p THEN p["read"] ELSE None,
              update |-> IF "update" \in DOMAIN p THEN p["update"] ELSE None,
              purse |-> IF "purse" \in DOMAIN p THEN p["purse"] ELSE 0,
              ware |-> IF "ware" \in DOMAIN p THEN p["ware"] ELSE None]
BY DEF Merge, Blank

-----------------------------------------------------------------------------
(* The histories of bans.                                                  *)

History == UNION {[1..n -> Ban] : n \in 0..MaxHistory}

LEMMA HistorySeq ==
    ASSUME NEW h
    PROVE  h \in History <=> h \in Seq(Ban) /\ Len(h) <= 2
<1>1. ASSUME h \in History PROVE h \in Seq(Ban) /\ Len(h) <= 2
  <2>1. PICK n \in 0..2 : h \in [1..n -> Ban] BY <1>1 DEF History, MaxHistory
  <2>2. n \in Nat BY <2>1
  <2>3. h \in Seq(Ban) BY <2>1, <2>2
  <2>4. Len(h) = n BY <2>1, <2>2
  <2> QED BY <2>1, <2>3, <2>4
<1>2. ASSUME h \in Seq(Ban), Len(h) <= 2 PROVE h \in History
  <2>1. Len(h) \in Nat BY <1>2, LenProperties
  <2>2. h \in [1..Len(h) -> Ban] BY <1>2, LenProperties
  <2>3. \A n \in Nat : n <= 2 => n \in 0..2 OBVIOUS
  <2>4. Len(h) \in 0..2 BY <2>1, <2>3, <1>2, Zenon
  <2> QED BY <2>2, <2>4 DEF History, MaxHistory
<1> QED BY <1>1, <1>2

LEMMA CappedOpen ==
    ASSUME NEW h \in History
    PROVE  LET c == Capped(Append(h, "open"))
           IN  c \in History /\ Len(c) > 0 /\ c[Len(c)] = "open"
<1> DEFINE a == Append(h, "open")
<1>1. h \in Seq(Ban) /\ Len(h) <= 2 /\ Len(h) \in Nat BY HistorySeq
<1>2. a \in Seq(Ban) /\ Len(a) = Len(h) + 1 /\ a[Len(h) + 1] = "open"
  BY <1>1 DEF Ban
<1>3. CASE Len(a) <= 2
  <2>1. Capped(a) = a BY <1>3, <1>2 DEF Capped, MaxHistory
  <2> QED BY <2>1, <1>1, <1>2, <1>3, HistorySeq
<1>4. CASE Len(a) > 2
  <2>1. Len(a) = 3 BY <1>4, <1>1, <1>2
  <2>2. Capped(a) = SubSeq(a, 2, 3) BY <2>1 DEF Capped, MaxHistory
  <2>3. /\ SubSeq(a, 2, 3) \in Seq(Ban) /\ Len(SubSeq(a, 2, 3)) = 2
        /\ SubSeq(a, 2, 3)[2] = a[3]
    BY <2>1, <1>2
  <2> QED BY <2>1, <2>2, <2>3, <1>1, <1>2, HistorySeq
<1> QED BY <1>1, <1>2, <1>3, <1>4

LEMMA ClosedHistory ==
    ASSUME NEW h \in History
    PROVE  LET c == Closed(h)
           IN  c \in History /\ ~(Len(c) > 0 /\ c[Len(c)] = "open")
<1>1. h \in Seq(Ban) /\ Len(h) <= 2 /\ Len(h) \in Nat /\ DOMAIN h = 1..Len(h)
  BY HistorySeq
<1>2. Closed(h) \in [1..Len(h) -> Ban] BY <1>1 DEF Closed, Ban
<1>3. Closed(h) \in Seq(Ban) /\ Len(Closed(h)) = Len(h) BY <1>1, <1>2
<1>4. Len(h) > 0 => Closed(h)[Len(h)] = "closed" BY <1>1 DEF Closed
<1> QED BY <1>1, <1>3, <1>4, HistorySeq

-----------------------------------------------------------------------------
(* Every patch the handlers compute is safe.                               *)

LEMMA LevelType ==
    ASSUME NEW n \in Nat
    PROVE  LevelFor(n) \in Nat /\ LevelFor(0) = 1
BY UserRowConstants DEF LevelFor

LEMMA PlaceholderSound == Sound(Placeholder)
<1>1. Len(<< >>) = 0 /\ << >> \in Seq(Ban)
  BY EmptySeq
<1>2. << >> \in History
  <2>1. 0 <= 2 OBVIOUS
  <2>2. Len(<< >>) <= 2 BY <1>1, <2>1, Zenon
  <2> QED BY <1>1, <2>2, HistorySeq, Zenon
<1>3. Placeholder \in Row
  BY <1>2 DEF Placeholder, Row, History
<1> QED BY <1>1, <1>3, LevelType DEF Sound, LevelAgrees, StatusAgrees, Placeholder

LEMMA XpSafe == ASSUME NEW n \in Nat PROVE SafePatch(XpPatch(n))
<1> SUFFICES ASSUME NEW r, Sound(r) PROVE Sound(Merge(r, XpPatch(n)))
  BY DEF SafePatch
<1> DEFINE p == XpPatch(n)
<1>1. DOMAIN p = {"xp", "level"} /\ p["xp"] = n /\ p["level"] = LevelFor(n)
  BY DEF XpPatch
<1> HIDE DEF p
<1>2. Merge(r, p) = [xp |-> n, level |-> LevelFor(n), lingots |-> r.lingots,
                     status |-> r.status, history |-> r.history,
                     registered |-> r.registered]
  BY <1>1, MergeRow DEF Sound
<1> QED BY <1>2, LevelType DEF Row, Sound, LevelAgrees, StatusAgrees, p

LEMMA LessonSafe ==
    ASSUME NEW n \in Nat, NEW k \in Nat
    PROVE  SafePatch([xp |-> n, level |-> LevelFor(n), lingots |-> k])
<1> DEFINE p == [xp |-> n, level |-> LevelFor(n), lingots |-> k]
<1> SUFFICES ASSUME NEW r, Sound(r) PROVE Sound(Merge(r, p))
  BY DEF SafePatch
<1>1. /\ DOMAIN p = {"xp", "level", "lingots"}
      /\ p["xp"] = n /\ p["level"] = LevelFor(n) /\ p["lingots"] = k
  OBVIOUS
<1> HIDE DEF p
<1>2. Merge(r, p) = [xp |-> n, level |-> LevelFor(n), lingots |-> k,
                     status |-> r.status, history |-> r.history,
                     registered |-> r.registered]
  BY <1>1, MergeRow DEF Sound
<1> QED BY <1>2, LevelType DEF Row, Sound, LevelAgrees, StatusAgrees

LEMMA QuestSafe ==
    ASSUME NEW n \in Nat, NEW k \in Nat, "quest" \in Endpoint
    PROVE  SafePatch([xp |-> n, lingots |-> k])
<1> DEFINE p == [xp |-> n, lingots |-> k]
<1> SUFFICES ASSUME NEW r, Sound(r) PROVE Sound(Merge(r, p))
  BY DEF SafePatch
<1>1. DOMAIN p = {"xp", "lingots"} /\ p["xp"] = n /\ p["lingots"] = k OBVIOUS
<1> HIDE DEF p
<1>2. Merge(r, p) = [xp |-> n, level |-> r.level, lingots |-> k,
                     status |-> r.status, history |-> r.history,
                     registered |-> r.registered]
  BY <1>1, MergeRow DEF Sound
<1> QED BY <1>2 DEF Row, Sound, StatusAgrees

LEMMA LingotsSafe == ASSUME NEW n \in Nat PROVE SafePatch([lingots |-> n])
<1> DEFINE p == [lingots |-> n]
<1> SUFFICES ASSUME NEW r, Sound(r) PROVE Sound(Merge(r, p))
  BY DEF SafePatch
<1>1. DOMAIN p = {"lingots"} /\ p["lingots"] = n OBVIOUS
<1> HIDE DEF p
<1>2. Merge(r, p) = [xp |-> r.xp, level |-> r.level, lingots |-> n,
                     status |-> r.status, history |-> r.history,
                     registered |-> r.registered]
  BY <1>1, MergeRow DEF Sound
<1> QED BY <1>2 DEF Row, Sound, LevelAgrees, StatusAgrees

LEMMA BanSafe ==
    ASSUME NEW s \in {"active", "banned"}, NEW h \in History,
           (s = "banned") <=> (Len(h) > 0 /\ h[Len(h)] = "open")
    PROVE  SafePatch([status |-> s, history |-> h])
<1> DEFINE p == [status |-> s, history |-> h]
<1> SUFFICES ASSUME NEW r, Sound(r) PROVE Sound(Merge(r, p))
  BY DEF SafePatch
<1>1. DOMAIN p = {"status", "history"} /\ p["status"] = s /\ p["history"] = h
  OBVIOUS
<1> HIDE DEF p
<1>2. Merge(r, p) = [xp |-> r.xp, level |-> r.level, lingots |-> r.lingots,
                     status |-> s, history |-> h, registered |-> r.registered]
  BY <1>1, MergeRow DEF Sound
<1> QED BY <1>2 DEF Row, Sound, LevelAgrees, StatusAgrees, History

LEMMA StatusSafe ==
    ASSUME NEW s \in {"active", "banned"}, "status" \in Endpoint
    PROVE  SafePatch([status |-> s])
<1> DEFINE p == [status |-> s]
<1> SUFFICES ASSUME NEW r, Sound(r) PROVE Sound(Merge(r, p))
  BY DEF SafePatch
<1>1. DOMAIN p = {"status"} /\ p["status"] = s OBVIOUS
<1> HIDE DEF p
<1>2. Merge(r, p) = [xp |-> r.xp, level |-> r.level, lingots |-> r.lingots,
                     status |-> s, history |-> r.history,
                     registered |-> r.registered]
  BY <1>1, MergeRow DEF Sound
<1> QED BY <1>2 DEF Row, Sound, LevelAgrees

LEMMA ClaimSafe == SafePatch([registered |-> TRUE])
<1> DEFINE p == [registered |-> TRUE]
<1> SUFFICES ASSUME NEW r, Sound(r) PROVE Sound(Merge(r, p))
  BY DEF SafePatch
<1>1. DOMAIN p = {"registered"} /\ p["registered"] = TRUE OBVIOUS
<1> HIDE DEF p
<1>2. Merge(r, p) = [xp |-> r.xp, level |-> r.level, lingots |-> r.lingots,
                     status |-> r.status, history |-> r.history,
                     registered |-> TRUE]
  BY <1>1, MergeRow DEF Sound
<1> QED BY <1>2 DEF Row, Sound, LevelAgrees, StatusAgrees

LEMMA ElsewhereSafe == SafePatch(Elsewhere) /\ SafeUpdate(Elsewhere)
<1>1. ASSUME NEW r \in Row PROVE Merge(r, Elsewhere) = r
  BY <1>1 DEF Merge, Elsewhere, Row
<1>2. ASSUME NEW s \in Settings PROVE Merge(s, Elsewhere) = s
  BY <1>2 DEF Merge, Elsewhere, Settings
<1> QED BY <1>1, <1>2 DEF SafePatch, SafeUpdate, Sound

LEMMA UnlockSafe ==
    ASSUME NEW a \in SUBSET Atom
    PROVE  SafeUpdate([unlocked |-> a])
<1> DEFINE u == [unlocked |-> a]
<1> SUFFICES ASSUME NEW s \in Settings PROVE Merge(s, u) \in Settings
  BY DEF SafeUpdate
<1>1. DOMAIN u = {"unlocked"} /\ u["unlocked"] = a OBVIOUS
<1> HIDE DEF u
<1>2. Merge(s, u) = [owned |-> s.owned, freezes |-> s.freezes, unlocked |-> a]
  BY <1>1, MergeSettings
<1> QED BY <1>2 DEF Settings

LEMMA ShopSafe ==
    ASSUME NEW o \in SUBSET Item, NEW n \in Nat
    PROVE  SafeUpdate([owned |-> o, freezes |-> n])
<1> DEFINE u == [owned |-> o, freezes |-> n]
<1> SUFFICES ASSUME NEW s \in Settings PROVE Merge(s, u) \in Settings
  BY DEF SafeUpdate
<1>1. DOMAIN u = {"owned", "freezes"} /\ u["owned"] = o /\ u["freezes"] = n
  OBVIOUS
<1> HIDE DEF u
<1>2. Merge(s, u) = [owned |-> o, freezes |-> n, unlocked |-> s.unlocked]
  BY <1>1, MergeSettings
<1> QED BY <1>2 DEF Settings

LEMMA WithSafe ==
    ASSUME NEW s \in Settings, NEW i \in Wares
    PROVE  SafeUpdate(With(s, i))
<1>1. CASE i = Freeze
  <2>1. s.owned \in SUBSET Item /\ s.freezes + 1 \in Nat BY DEF Settings
  <2> QED BY <1>1, <2>1, ShopSafe DEF With
<1>2. CASE i # Freeze
  <2>1. s.owned \cup {i} \in SUBSET Item /\ s.freezes \in Nat
    BY <1>2 DEF Settings, Wares
  <2> QED BY <1>2, <2>1, ShopSafe DEF With
<1> QED BY <1>1, <1>2

-----------------------------------------------------------------------------
(* The steps.                                                              *)

LEMMA BlankGood == Good(Blank)
BY DEF Good, Blank, Phase, Locals

\* A step of one worker that leaves sound items and good locals.
LEMMA StepInv ==
    ASSUME RowInv, NEW w \in Worker, NEW c, Good(c),
           call' = [call EXCEPT ![w] = c],
           row' = None \/ Sound(row'), settings' \in Settings,
           requests' \in 0..MaxRequests, crashes' \in 0..MaxCrash,
           charged' \in [Wares -> Nat]
    PROVE  RowInv'
<1>1. DOMAIN call' = Worker BY DEF RowInv
<1>2. \A v \in Worker : call'[v] = IF v = w THEN c ELSE call[v] BY DEF RowInv
<1>3. \A v \in Worker : Good(call'[v]) BY <1>2 DEF RowInv
<1> QED BY <1>1, <1>3 DEF RowInv, Good

LEMMA BeginInv ==
    ASSUME RowInv, NEW w \in Worker, NEW e, NEW p, Begin(w, e, p),
           Good(Merge(Blank, p))
    PROVE  RowInv'
<1> DEFINE c == Merge(Blank, p)
<1>1. call' = [call EXCEPT ![w] = c] BY DEF Begin
<1>2. requests' \in 0..MaxRequests BY UserRowConstants DEF Begin, RowInv
<1>3. UNCHANGED <<row, settings, crashes, charged>> BY DEF Begin
<1> HIDE DEF c
<1> QED BY <1>1, <1>2, <1>3, StepInv DEF RowInv, c

\* The handlers that leave the rest to update_user.
LEMMA UpdateGood ==
    ASSUME NEW p, SafePatch(p)
    PROVE  Good(Merge(Blank, Update(p)))
<1> DEFINE l == Update(p)
<1>1. DOMAIN l = {"pc", "patch"} /\ l["pc"] = "merge" /\ l["patch"] = p
  BY DEF Update
<1> HIDE DEF l
<1>2. Merge(Blank, l) = [pc |-> "merge", base |-> None, patch |-> p, read |-> None,
                         update |-> None, purse |-> 0, ware |-> None]
  BY <1>1, MergeBlank
<1> QED BY <1>2 DEF Good, Phase, Locals, l

LEMMA UpdatersInv ==
    ASSUME RowInv, NEW w \in Worker,
           \/ \E n \in Amount : AwardXp(w, n) \/ AdjustLingots(w, n)
           \/ BanUser(w) \/ UnbanUser(w) \/ ResetProgress(w) \/ UpdateProfile(w)
           \/ \E s \in {"active", "banned"} : SetStatus(w, s)
    PROVE  RowInv'
<1>1. ASSUME NEW n \in Amount, row # None
      PROVE  NonNegative(row.xp + n) \in Nat /\ NonNegative(row.lingots + n) \in Nat
  <2>1. n \in Int /\ row.xp \in Int /\ row.lingots \in Int
    BY <1>1, UserRowConstants DEF RowInv, Sound, Row
  <2> QED BY <2>1 DEF NonNegative
<1>2. ASSUME NEW n \in Amount, AwardXp(w, n) PROVE RowInv'
  BY <1>1, <1>2, XpSafe, UpdateGood, BeginInv DEF AwardXp
<1>3. ASSUME NEW n \in Amount, AdjustLingots(w, n) PROVE RowInv'
  BY <1>1, <1>3, LingotsSafe, UpdateGood, BeginInv DEF AdjustLingots
<1>4. CASE BanUser(w)
  <2> DEFINE h == Capped(Append(row.history, "open"))
  <2>1. row.history \in History BY <1>4 DEF BanUser, RowInv, Sound, Row, History
  <2>2. SafePatch([status |-> "banned", history |-> h])
    BY <2>1, CappedOpen, BanSafe
  <2> QED BY <1>4, <2>2, UpdateGood, BeginInv DEF BanUser
<1>5. CASE UnbanUser(w)
  <2> DEFINE h == Closed(row.history)
  <2>1. row.history \in History BY <1>5 DEF UnbanUser, RowInv, Sound, Row, History
  <2>2. SafePatch([status |-> "active", history |-> h])
    BY <2>1, ClosedHistory, BanSafe
  <2> QED BY <1>5, <2>2, UpdateGood, BeginInv DEF UnbanUser
<1>6. CASE ResetProgress(w)
  <2>1. LevelFor(0) = 1 BY LevelType
  <2>2. SafePatch([xp |-> 0, level |-> 1, lingots |-> 0])
    BY <2>1, LessonSafe
  <2> QED BY <1>6, <2>2, UpdateGood, BeginInv DEF ResetProgress
<1>7. CASE UpdateProfile(w)
  BY <1>7, ElsewhereSafe, UpdateGood, BeginInv DEF UpdateProfile
<1>8. ASSUME NEW s \in {"active", "banned"}, SetStatus(w, s) PROVE RowInv'
  <2>1. "status" \in Endpoint BY <1>8 DEF SetStatus, Begin
  <2>2. SafePatch([status |-> s]) BY <2>1, StatusSafe
  <2> QED BY <1>8, <2>2, UpdateGood, BeginInv DEF SetStatus
<1> QED BY <1>2, <1>3, <1>4, <1>5, <1>6, <1>7, <1>8

\* The handlers that hand over the row they have read.
LEMMA HoldersGood ==
    ASSUME NEW pc \in {"put", "freeze"}, NEW r, Sound(r), NEW p, SafePatch(p)
    PROVE  Good(Merge(Blank, [pc |-> pc, base |-> r, patch |-> p]))
<1> DEFINE l == [pc |-> pc, base |-> r, patch |-> p]
<1>1. /\ DOMAIN l = {"pc", "base", "patch"}
      /\ l["pc"] = pc /\ l["base"] = r /\ l["patch"] = p
  OBVIOUS
<1> HIDE DEF l
<1>2. Merge(Blank, l) = [pc |-> pc, base |-> r, patch |-> p, read |-> None,
                         update |-> None, purse |-> 0, ware |-> None]
  BY <1>1, MergeBlank
<1> DEFINE c == Merge(Blank, l)
<1>3. /\ c.pc = pc /\ c.base = r /\ c.patch = p /\ c.read = None
      /\ c.update = None /\ c.purse = 0 /\ c.ware = None
  BY <1>2
<1>4. DOMAIN c = Locals BY <1>2 DEF Locals
<1> HIDE DEF c
<1>5. Good(c) BY <1>3, <1>4 DEF Good, Phase, Locals
<1> QED BY <1>5 DEF c, l

LEMMA HoldersInv ==
    ASSUME RowInv, NEW w \in Worker,
           Register(w) \/ Boot(w) \/ \E missed \in BOOLEAN : Lesson(w, missed)
    PROVE  RowInv'
<1>1. row # None => Sound(row) BY DEF RowInv
<1>2. CASE Register(w)
  BY <1>1, <1>2, ClaimSafe, HoldersGood, BeginInv DEF Register
<1>3. CASE Boot(w)
  BY <1>1, <1>3, ElsewhereSafe, HoldersGood, BeginInv DEF Boot
<1>4. ASSUME NEW missed \in BOOLEAN, Lesson(w, missed) PROVE RowInv'
  <2> DEFINE p == [xp |-> row.xp + Gain, level |-> LevelFor(row.xp + Gain),
                   lingots |-> row.lingots + Gain]
             pc == IF missed THEN "freeze" ELSE "put"
  <2>1. Sound(row) BY <1>1, <1>4 DEF Lesson
  <2>2. row.xp + Gain \in Nat /\ row.lingots + Gain \in Nat
    BY <2>1, UserRowConstants DEF Sound, Row
  <2>3. SafePatch(p) BY <2>2, LessonSafe
  <2>4. pc \in {"put", "freeze"} OBVIOUS
  <2>5. Begin(w, "lesson", [pc |-> pc, base |-> row, patch |-> p])
    BY <1>4 DEF Lesson
  <2> HIDE DEF p, pc
  <2> QED BY <2>1, <2>3, <2>4, <2>5, HoldersGood, BeginInv
<1> QED BY <1>2, <1>3, <1>4

LEMMA SettersGood ==
    ASSUME NEW u, SafeUpdate(u)
    PROVE  Good(Merge(Blank, [pc |-> "mergeSettings", update |-> u]))
<1> DEFINE l == [pc |-> "mergeSettings", update |-> u]
<1>1. /\ DOMAIN l = {"pc", "update"}
      /\ l["pc"] = "mergeSettings" /\ l["update"] = u
  OBVIOUS
<1> HIDE DEF l
<1>2. Merge(Blank, l) = [pc |-> "mergeSettings", base |-> None, patch |-> None,
                         read |-> None, update |-> u, purse |-> 0, ware |-> None]
  BY <1>1, MergeBlank
<1> DEFINE c == Merge(Blank, l)
<1>3. /\ c.pc = "mergeSettings" /\ c.base = None /\ c.patch = None
      /\ c.read = None /\ c.update = u /\ c.purse = 0 /\ c.ware = None
  BY <1>2
<1>4. DOMAIN c = Locals BY <1>2 DEF Locals
<1> HIDE DEF c
<1>5. Good(c) BY <1>3, <1>4 DEF Good, Phase, Locals
<1> QED BY <1>5 DEF c, l

LEMMA SettersInv ==
    ASSUME RowInv, NEW w \in Worker,
           \/ \E atoms \in SUBSET Atom : Unlock(w, atoms)
           \/ PatchLearning(w) \/ PatchSettings(w)
    PROVE  RowInv'
<1>1. settings.unlocked \in SUBSET Atom BY DEF RowInv, Settings
<1>2. ASSUME NEW atoms \in SUBSET Atom, Unlock(w, atoms) PROVE RowInv'
  <2>1. settings.unlocked \cup atoms \in SUBSET Atom BY <1>1
  <2> QED BY <1>2, <2>1, UnlockSafe, SettersGood, BeginInv DEF Unlock
<1>3. CASE PatchLearning(w)
  BY <1>1, <1>3, UnlockSafe, SettersGood, BeginInv DEF PatchLearning
<1>4. CASE PatchSettings(w)
  BY <1>4, ElsewhereSafe, SettersGood, BeginInv DEF PatchSettings
<1> QED BY <1>2, <1>3, <1>4

\* The handlers that begin with another phase and at most a read of theirs.
LEMMA BuyersGood ==
    ASSUME NEW i \in Wares
    PROVE  /\ \A s \in Settings :
                Good(Merge(Blank, [pc |-> "buyRow", read |-> s, ware |-> i]))
           /\ \A n \in Nat :
                Good(Merge(Blank, [pc |-> "buySettings", ware |-> i, purse |-> n]))
<1>1. ASSUME NEW s \in Settings
      PROVE  Good(Merge(Blank, [pc |-> "buyRow", read |-> s, ware |-> i]))
  <2> DEFINE l == [pc |-> "buyRow", read |-> s, ware |-> i]
  <2>1. /\ DOMAIN l = {"pc", "read", "ware"}
        /\ l["pc"] = "buyRow" /\ l["read"] = s /\ l["ware"] = i
    OBVIOUS
  <2> HIDE DEF l
  <2>2. Merge(Blank, l) = [pc |-> "buyRow", base |-> None, patch |-> None, read |-> s,
                           update |-> None, purse |-> 0, ware |-> i]
    BY <2>1, MergeBlank
  <2> QED BY <2>2 DEF Good, Phase, Locals, l
<1>2. ASSUME NEW n \in Nat
      PROVE  Good(Merge(Blank, [pc |-> "buySettings", ware |-> i, purse |-> n]))
  <2> DEFINE l == [pc |-> "buySettings", ware |-> i, purse |-> n]
  <2>1. /\ DOMAIN l = {"pc", "ware", "purse"}
        /\ l["pc"] = "buySettings" /\ l["ware"] = i /\ l["purse"] = n
    OBVIOUS
  <2> HIDE DEF l
  <2>2. Merge(Blank, l) = [pc |-> "buySettings", base |-> None, patch |-> None,
                           read |-> None, update |-> None, purse |-> n, ware |-> i]
    BY <2>1, MergeBlank
  <2> QED BY <2>2 DEF Good, Phase, Locals, l
<1> QED BY <1>1, <1>2

LEMMA PhaseGood ==
    ASSUME NEW pc \in {"deleteRow", "deleteSettings", "create", "reward"},
           pc = "reward" => "quest" \in Endpoint
    PROVE  Good(Merge(Blank, [pc |-> pc]))
<1> DEFINE l == [pc |-> pc]
<1>1. DOMAIN l = {"pc"} /\ l["pc"] = pc OBVIOUS
<1> HIDE DEF l
<1>2. Merge(Blank, l) = [pc |-> pc, base |-> None, patch |-> None, read |-> None,
                         update |-> None, purse |-> 0, ware |-> None]
  BY <1>1, MergeBlank
<1> QED BY <1>2 DEF Good, Phase, Locals, l

LEMMA BeginnersInv ==
    ASSUME RowInv, NEW w \in Worker,
           \/ \E i \in Wares : BuyReadSettings(w, i) \/ BuyReadRow(w, i)
           \/ Delete(w) \/ Touch(w) \/ ClaimQuest(w)
    PROVE  RowInv'
<1>1. ASSUME NEW i \in Wares, BuyReadSettings(w, i) PROVE RowInv'
  <2>1. settings \in Settings BY DEF RowInv
  <2> QED BY <1>1, <2>1, BuyersGood, BeginInv DEF BuyReadSettings
<1>2. ASSUME NEW i \in Wares, BuyReadRow(w, i) PROVE RowInv'
  <2> DEFINE n == IF row = None THEN 0 ELSE row.lingots
  <2>1. n \in Nat BY DEF RowInv, Sound, Row
  <2>2. Begin(w, "buy", [pc |-> "buySettings", ware |-> i, purse |-> n])
    BY <1>2 DEF BuyReadRow
  <2> HIDE DEF n
  <2> QED BY <2>1, <2>2, BuyersGood, BeginInv
<1>3. CASE Delete(w) BY <1>3, PhaseGood, BeginInv DEF Delete
<1>4. CASE Touch(w) BY <1>4, PhaseGood, BeginInv DEF Touch
<1>5. CASE ClaimQuest(w)
  <2>1. "quest" \in Endpoint /\ Begin(w, "quest", [pc |-> "reward"])
    BY <1>5 DEF ClaimQuest, Begin
  <2> QED BY <2>1, PhaseGood, BeginInv
<1> QED BY <1>1, <1>2, <1>3, <1>4, <1>5

\* A worker that goes on without touching the store.
LEMMA LocalStep ==
    ASSUME RowInv, NEW w \in Worker, NEW c, Good(c),
           call' = [call EXCEPT ![w] = c],
           UNCHANGED <<row, settings, requests, crashes, charged>>
    PROVE  RowInv'
BY StepInv DEF RowInv

LEMMA DecideInv ==
    ASSUME RowInv, NEW w \in Worker, NEW s \in Settings, NEW n \in Nat,
           call[w].ware \in Wares, Decide(w, s, n),
           UNCHANGED <<row, settings, requests, crashes, charged>>
    PROVE  RowInv'
<1> DEFINE i == call[w].ware
<1>1. CASE Owned(s, i) \/ n < Price[i]
  <2>1. call' = [call EXCEPT ![w] = Blank] BY <1>1 DEF Decide
  <2> QED BY <2>1, BlankGood, LocalStep
<1>2. CASE ~(Owned(s, i) \/ n < Price[i])
  <2> DEFINE p == [lingots |-> n - Price[i]]
             u == With(s, i)
             c == [Blank EXCEPT !.pc = "merge", !.ware = i, !.patch = p, !.update = u]
  <2>1. n - Price[i] \in Nat BY <1>2, UserRowConstants
  <2>2. SafePatch(p) BY <2>1, LingotsSafe
  <2>3. SafeUpdate(u) BY WithSafe
  <2>4. call' = [call EXCEPT ![w] = c] BY <1>2 DEF Decide
  <2> HIDE DEF p, u
  <2>5. DOMAIN Blank = Locals BY DEF Blank, Locals
  <2>6. Blank.base = None /\ Blank.read = None /\ Blank.purse = 0 BY DEF Blank
  <2>7. /\ DOMAIN c = Locals
        /\ c.pc = "merge" /\ c.base = None /\ c.patch = p /\ c.read = None
        /\ c.update = u /\ c.purse = 0 /\ c.ware = i
    BY <2>5, <2>6 DEF Locals
  <2> HIDE DEF c
  <2>8. Good(c) BY <2>2, <2>3, <2>7 DEF Good, Phase, Locals
  <2> QED BY <2>4, <2>8, LocalStep
<1> QED BY <1>1, <1>2

LEMMA BuyDecideInv ==
    ASSUME RowInv, NEW w \in Worker, BuyDecide(w)
    PROVE  RowInv'
<1>1. Good(call[w]) BY DEF RowInv
<1>2. CASE At(w, "buyRow") /\ Decide(w, call[w].read, IF row = None THEN 0 ELSE row.lingots)
  <2> DEFINE n == IF row = None THEN 0 ELSE row.lingots
  <2>1. n \in Nat BY DEF RowInv, Sound, Row
  <2>2. call[w].read \in Settings /\ call[w].ware \in Wares
    BY <1>1, <1>2 DEF Good, At
  <2>3. Decide(w, call[w].read, n) BY <1>2
  <2> HIDE DEF n
  <2> QED BY <2>1, <2>2, <2>3, DecideInv DEF BuyDecide
<1>3. CASE At(w, "buySettings") /\ Decide(w, settings, call[w].purse)
  <2>1. call[w].purse \in Nat /\ call[w].ware \in Wares /\ settings \in Settings
    BY <1>1, <1>3 DEF Good, At, RowInv
  <2> QED BY <1>3, <2>1, DecideInv DEF BuyDecide
<1> QED BY <1>2, <1>3 DEF BuyDecide

LEMMA SpendFreezeInv ==
    ASSUME RowInv, NEW w \in Worker, SpendFreeze(w)
    PROVE  RowInv'
<1> DEFINE k == call[w]
<1>1. Good(k) /\ k.pc = "freeze" BY DEF RowInv, SpendFreeze, At
<1>2. DOMAIN k = Locals BY <1>1 DEF Good
<1>3. CASE settings.freezes > 0
  <2> DEFINE u == [owned |-> settings.owned, freezes |-> settings.freezes - 1]
             c == [k EXCEPT !.pc = "mergeSettings", !.update = u]
  <2>1. settings.owned \in SUBSET Item /\ settings.freezes - 1 \in Nat
    BY <1>3 DEF RowInv, Settings
  <2>2. SafeUpdate(u) BY <2>1, ShopSafe
  <2>3. call' = [call EXCEPT ![w] = c] BY <1>3 DEF SpendFreeze
  <2> HIDE DEF u, k
  <2>4. /\ DOMAIN c = Locals
        /\ c.pc = "mergeSettings" /\ c.base = k.base /\ c.patch = k.patch
        /\ c.read = k.read /\ c.update = u /\ c.purse = k.purse /\ c.ware = k.ware
    BY <1>2 DEF Locals
  <2> HIDE DEF c
  <2>5. Good(c) BY <1>1, <2>2, <2>4 DEF Good, Phase
  <2> QED BY <2>3, <2>5, LocalStep DEF SpendFreeze, k
<1>4. CASE ~(settings.freezes > 0)
  <2> DEFINE c == [k EXCEPT !.pc = "put", !.update = None]
  <2>3. call' = [call EXCEPT ![w] = c] BY <1>4 DEF SpendFreeze
  <2> HIDE DEF k
  <2>4. /\ DOMAIN c = Locals
        /\ c.pc = "put" /\ c.base = k.base /\ c.patch = k.patch
        /\ c.read = k.read /\ c.update = None /\ c.purse = k.purse /\ c.ware = k.ware
    BY <1>2 DEF Locals
  <2> HIDE DEF c
  <2>5. Good(c) BY <1>1, <2>4 DEF Good, Phase
  <2> QED BY <2>3, <2>5, LocalStep DEF SpendFreeze, k
<1> QED BY <1>3, <1>4

LEMMA RewardQuestInv ==
    ASSUME RowInv, NEW w \in Worker, RewardQuest(w)
    PROVE  RowInv'
<1> DEFINE k == call[w]
<1>1. Good(k) /\ k.pc = "reward" BY DEF RowInv, RewardQuest, At
<1>2. DOMAIN k = Locals BY <1>1 DEF Good
<1>3. CASE row = None
  <2>1. call' = [call EXCEPT ![w] = Blank] BY <1>3 DEF RewardQuest
  <2> QED BY <2>1, BlankGood, LocalStep DEF RewardQuest
<1>4. CASE row # None
  <2> DEFINE p == [xp |-> row.xp + Gain, lingots |-> row.lingots + Gain]
             c == [k EXCEPT !.pc = "merge", !.patch = p]
  <2>1. call' = [call EXCEPT ![w] = c] BY <1>4 DEF RewardQuest
  <2>2. row.xp + Gain \in Nat /\ row.lingots + Gain \in Nat
    BY <1>4, UserRowConstants DEF RowInv, Sound, Row
  <2>3. SafePatch(p) BY <1>1, <2>2, QuestSafe DEF Good
  <2> HIDE DEF k, p
  <2>4. /\ DOMAIN c = Locals
        /\ c.pc = "merge" /\ c.base = k.base /\ c.patch = p
        /\ c.read = k.read /\ c.update = k.update /\ c.purse = k.purse /\ c.ware = k.ware
    BY <1>2 DEF Locals
  <2> HIDE DEF c
  <2>5. Good(c) BY <1>1, <2>3, <2>4 DEF Good, Phase
  <2> QED BY <2>1, <2>5, LocalStep DEF RewardQuest, k
<1> QED BY <1>3, <1>4

LEMMA ReadRowInv ==
    ASSUME RowInv, NEW w \in Worker, ReadRow(w)
    PROVE  RowInv'
<1> DEFINE k == call[w]
<1>1. Good(k) /\ k.pc = "merge" BY DEF RowInv, ReadRow, At
<1>2. DOMAIN k = Locals BY <1>1 DEF Good
<1>3. CASE row = None
  <2>1. call' = [call EXCEPT ![w] = Blank] BY <1>3 DEF ReadRow
  <2> QED BY <2>1, BlankGood, LocalStep DEF ReadRow
<1>4. CASE row # None
  <2> DEFINE c == [k EXCEPT !.pc = "put", !.base = row]
  <2>1. call' = [call EXCEPT ![w] = c] BY <1>4 DEF ReadRow
  <2>2. Sound(row) BY <1>4 DEF RowInv
  <2> HIDE DEF k
  <2>4. /\ DOMAIN c = Locals
        /\ c.pc = "put" /\ c.base = row /\ c.patch = k.patch
        /\ c.read = k.read /\ c.update = k.update /\ c.purse = k.purse /\ c.ware = k.ware
    BY <1>2 DEF Locals
  <2> HIDE DEF c
  <2>5. Good(c) BY <1>1, <2>2, <2>4 DEF Good, Phase
  <2> QED BY <2>1, <2>5, LocalStep DEF ReadRow, k
<1> QED BY <1>3, <1>4

LEMMA PutRowInv ==
    ASSUME RowInv, NEW w \in Worker, PutRow(w)
    PROVE  RowInv'
<1> DEFINE k == call[w]
<1>1. Good(k) /\ k.pc = "put" BY DEF RowInv, PutRow, At
<1>2. DOMAIN k = Locals BY <1>1 DEF Good
<1>3. Sound(row')
  <2>1. Sound(k.base) /\ SafePatch(k.patch) BY <1>1 DEF Good
  <2> QED BY <2>1 DEF SafePatch, PutRow
<1>4. UNCHANGED <<settings, requests, crashes>> BY DEF PutRow
<1>5. CASE k.ware = None
  <2>1. call' = [call EXCEPT ![w] = Blank] /\ UNCHANGED charged
    BY <1>5 DEF PutRow
  <2> QED BY <1>3, <1>4, <2>1, BlankGood, StepInv DEF RowInv
<1>6. CASE k.ware # None
  <2> DEFINE c == [k EXCEPT !.pc = "mergeSettings", !.base = None]
  <2>1. call' = [call EXCEPT ![w] = c] BY <1>6 DEF PutRow
  <2>2. charged' \in [Wares -> Nat]
    <3>1. k.ware \in Wares BY <1>1, <1>6 DEF Good
    <3>2. charged' = [charged EXCEPT ![k.ware] = @ + 1] BY <1>6 DEF PutRow
    <3> QED BY <3>1, <3>2 DEF RowInv
  <2> HIDE DEF k
  <2>4. /\ DOMAIN c = Locals
        /\ c.pc = "mergeSettings" /\ c.base = None /\ c.patch = k.patch
        /\ c.read = k.read /\ c.update = k.update /\ c.purse = k.purse /\ c.ware = k.ware
    BY <1>2 DEF Locals
  <2> HIDE DEF c
  <2>5. Good(c) BY <1>1, <1>6, <2>4 DEF Good, Phase
  <2> QED BY <1>3, <1>4, <2>1, <2>2, <2>5, StepInv DEF RowInv, k
<1> QED BY <1>5, <1>6

LEMMA ReadSettingsInv ==
    ASSUME RowInv, NEW w \in Worker, ReadSettings(w)
    PROVE  RowInv'
<1> DEFINE k == call[w]
           c == [k EXCEPT !.pc = "putSettings", !.read = settings]
<1>1. Good(k) /\ k.pc = "mergeSettings" BY DEF RowInv, ReadSettings, At
<1>2. DOMAIN k = Locals BY <1>1 DEF Good
<1>3. call' = [call EXCEPT ![w] = c] BY DEF ReadSettings
<1>4. settings \in Settings BY DEF RowInv
<1> HIDE DEF k
<1>5. /\ DOMAIN c = Locals
      /\ c.pc = "putSettings" /\ c.base = k.base /\ c.patch = k.patch
      /\ c.read = settings /\ c.update = k.update /\ c.purse = k.purse /\ c.ware = k.ware
  BY <1>2 DEF Locals
<1> HIDE DEF c
<1>6. Good(c) BY <1>1, <1>4, <1>5 DEF Good, Phase
<1> QED BY <1>3, <1>6, LocalStep DEF ReadSettings, k

LEMMA PutSettingsInv ==
    ASSUME RowInv, NEW w \in Worker, PutSettings(w)
    PROVE  RowInv'
<1> DEFINE k == call[w]
<1>1. Good(k) /\ k.pc = "putSettings" BY DEF RowInv, PutSettings, At
<1>2. DOMAIN k = Locals BY <1>1 DEF Good
<1>3. settings' \in Settings
  <2>1. k.read \in Settings /\ SafeUpdate(k.update) BY <1>1 DEF Good
  <2> QED BY <2>1 DEF SafeUpdate, PutSettings
<1>4. UNCHANGED <<row, requests, crashes, charged>> BY DEF PutSettings
<1>5. CASE k.base = None
  <2>1. call' = [call EXCEPT ![w] = Blank] BY <1>5 DEF PutSettings
  <2> QED BY <1>3, <1>4, <2>1, BlankGood, StepInv DEF RowInv
<1>6. CASE k.base # None
  <2> DEFINE c == [k EXCEPT !.pc = "put"]
  <2>1. call' = [call EXCEPT ![w] = c] BY <1>6 DEF PutSettings
  <2> HIDE DEF k
  <2>4. /\ DOMAIN c = Locals
        /\ c.pc = "put" /\ c.base = k.base /\ c.patch = k.patch
        /\ c.read = k.read /\ c.update = k.update /\ c.purse = k.purse /\ c.ware = k.ware
    BY <1>2 DEF Locals
  <2> HIDE DEF c
  <2>5. Good(c) BY <1>1, <1>6, <2>4 DEF Good, Phase
  <2> QED BY <1>3, <1>4, <2>1, <2>5, StepInv DEF RowInv, k
<1> QED BY <1>5, <1>6

LEMMA DeleteRowInv ==
    ASSUME RowInv, NEW w \in Worker, DeleteRow(w)
    PROVE  RowInv'
<1> DEFINE k == call[w]
           c == [k EXCEPT !.pc = "deleteSettings"]
<1>1. Good(k) /\ k.pc = "deleteRow" BY DEF RowInv, DeleteRow, At
<1>2. DOMAIN k = Locals BY <1>1 DEF Good
<1>3. call' = [call EXCEPT ![w] = c] BY DEF DeleteRow
<1> HIDE DEF k
<1>5. /\ DOMAIN c = Locals
      /\ c.pc = "deleteSettings" /\ c.base = k.base /\ c.patch = k.patch
      /\ c.read = k.read /\ c.update = k.update /\ c.purse = k.purse /\ c.ware = k.ware
  BY <1>2 DEF Locals
<1> HIDE DEF c
<1>6. Good(c) BY <1>1, <1>5 DEF Good, Phase
<1> QED BY <1>3, <1>6, StepInv DEF DeleteRow, RowInv, k

LEMMA EndersInv ==
    ASSUME RowInv, NEW w \in Worker,
           DeleteSettings(w) \/ CreateUser(w) \/ Crash(w)
    PROVE  RowInv'
<1>1. NoSettings \in Settings BY DEF NoSettings, Settings
<1>2. CASE DeleteSettings(w)
  BY <1>1, <1>2, BlankGood, StepInv DEF DeleteSettings, RowInv
<1>3. CASE CreateUser(w)
  <2>1. row' = None \/ Sound(row')
    BY <1>3, PlaceholderSound DEF CreateUser, RowInv
  <2> QED BY <1>3, <2>1, BlankGood, StepInv DEF CreateUser, RowInv
<1>4. CASE Crash(w)
  <2>1. crashes' \in 0..MaxCrash BY <1>4, UserRowConstants DEF Crash, RowInv
  <2> QED BY <1>4, <2>1, BlankGood, StepInv DEF Crash, RowInv
<1> QED BY <1>2, <1>3, <1>4

-----------------------------------------------------------------------------
(* The invariant, and what follows from it.                                *)

LEMMA RowInit == Init => RowInv
BY PlaceholderSound, BlankGood, UserRowConstants
   DEF Init, RowInv, NoSettings, Settings

LEMMA RowNext == RowInv /\ [Next]_vars => RowInv'
<1> SUFFICES ASSUME RowInv, [Next]_vars PROVE RowInv'
  OBVIOUS
<1>1. CASE UNCHANGED vars BY <1>1 DEF vars, RowInv, Good
<1>2. ASSUME NEW w \in Worker,
             \/ \E n \in Amount : AwardXp(w, n) \/ AdjustLingots(w, n)
             \/ BanUser(w) \/ UnbanUser(w) \/ ResetProgress(w) \/ UpdateProfile(w)
             \/ \E s \in {"active", "banned"} : SetStatus(w, s)
      PROVE  RowInv'
  BY <1>2, UpdatersInv
<1>3. ASSUME NEW w \in Worker,
             Register(w) \/ Boot(w) \/ \E missed \in BOOLEAN : Lesson(w, missed)
      PROVE  RowInv'
  BY <1>3, HoldersInv
<1>4. ASSUME NEW w \in Worker,
             \/ \E atoms \in SUBSET Atom : Unlock(w, atoms)
             \/ PatchLearning(w) \/ PatchSettings(w)
      PROVE  RowInv'
  BY <1>4, SettersInv
<1>5. ASSUME NEW w \in Worker,
             \/ \E i \in Wares : BuyReadSettings(w, i) \/ BuyReadRow(w, i)
             \/ Delete(w) \/ Touch(w) \/ ClaimQuest(w)
      PROVE  RowInv'
  BY <1>5, BeginnersInv
<1>6. ASSUME NEW w \in Worker,
             \/ BuyDecide(w) \/ SpendFreeze(w) \/ ReadRow(w) \/ PutRow(w)
             \/ ReadSettings(w) \/ PutSettings(w) \/ DeleteRow(w) \/ RewardQuest(w)
      PROVE  RowInv'
  BY <1>6, RewardQuestInv, BuyDecideInv, SpendFreezeInv, ReadRowInv, PutRowInv, ReadSettingsInv,
     PutSettingsInv, DeleteRowInv
<1>7. ASSUME NEW w \in Worker, DeleteSettings(w) \/ CreateUser(w) \/ Crash(w)
      PROVE  RowInv'
  BY <1>7, EndersInv
<1> QED BY <1>1, <1>2, <1>3, <1>4, <1>5, <1>6, <1>7 DEF Next

LEMMA RowInvHolds == Spec => []RowInv
BY RowInit, RowNext, PTL DEF Spec

(* The rows, the settings and the local variables of every worker are what *)
(* the code can put there; no balance is ever negative.                    *)
THEOREM TypeCorrect == Spec => []TypeOK
<1>1. RowInv => TypeOK
  <2> SUFFICES ASSUME RowInv PROVE TypeOK
    OBVIOUS
  <2>1. row \in Row \cup {None} BY DEF RowInv, Sound
  <2>2. ASSUME NEW w \in Worker
        PROVE  /\ call[w].pc \in Phase
               /\ call[w].base \in Row \cup {None}
               /\ call[w].patch = None \/ Merge(Placeholder, call[w].patch) \in Row
               /\ call[w].read \in Settings \cup {None}
               /\ call[w].update = None \/ Merge(NoSettings, call[w].update) \in Settings
               /\ call[w].purse \in Nat
               /\ call[w].ware \in Wares \cup {None}
    <3> DEFINE c == call[w]
    <3>1. Good(c) BY DEF RowInv
    <3> HIDE DEF c
    <3>2. c.patch = None \/ Merge(Placeholder, c.patch) \in Row
      BY <3>1, PlaceholderSound DEF Good, SafePatch, Sound
    <3>3. NoSettings \in Settings BY DEF NoSettings, Settings
    <3>4. c.update = None \/ Merge(NoSettings, c.update) \in Settings
      BY <3>1, <3>3 DEF Good, SafeUpdate
    <3>5. c.base \in Row \cup {None} BY <3>1 DEF Good, Sound
    <3>6. /\ c.pc \in Phase /\ c.read \in Settings \cup {None}
          /\ c.purse \in Nat /\ c.ware \in Wares \cup {None}
      BY <3>1 DEF Good
    <3> QED BY <3>2, <3>4, <3>5, <3>6 DEF c
  <2> QED BY <2>1, <2>2 DEF TypeOK, RowInv
<1> QED BY <1>1, RowInvHolds, PTL

(* Without quest rewards, the one writer that leaves the level alone, the  *)
(* level of a stored row is that of its XP (level_for_xp) whatever         *)
(* overlaps, is lost or dies: no put mixes the two from different rows.    *)
THEOREM LevelFollowsXpHolds ==
    ASSUME "quest" \notin Endpoint
    PROVE  Spec => []LevelFollowsXp
<1>1. RowInv => LevelFollowsXp BY DEF RowInv, Sound, LevelAgrees, LevelFollowsXp
<1> QED BY <1>1, RowInvHolds, PTL

(* As long as no admin sets the status by itself, a stored row is banned   *)
(* exactly when the newest record of its ban history is open.              *)
THEOREM StatusAgreesHolds ==
    ASSUME "status" \notin Endpoint
    PROVE  Spec => []StatusAgreesWithHistory
<1>1. RowInv => StatusAgreesWithHistory
  BY DEF RowInv, Sound, StatusAgrees, StatusAgreesWithHistory
<1> QED BY <1>1, RowInvHolds, PTL

-----------------------------------------------------------------------------
(* Nothing is delivered before it is charged.  k is a count of charges.    *)

Backed(s, k) ==
    /\ s.freezes <= k[Freeze]
    /\ \A i \in s.owned : k[i] > 0

Paid(u, k) ==
    /\ "freezes" \in DOMAIN u => u["freezes"] \in Nat /\ u["freezes"] <= k[Freeze]
    /\ "owned" \in DOMAIN u =>
          u["owned"] \in SUBSET Item /\ \A i \in u["owned"] : k[i] > 0

\* The settings that a purchase of i will write, once i is charged.
PaidBut(u, i, k) == \A k2 \in [Wares -> Nat] :
    (k2[i] > k[i] /\ \A j \in Wares : k2[j] >= k[j]) => Paid(u, k2)

CallBacked(c, k) ==
    /\ c.pc \in {"buyRow", "putSettings"} => Backed(c.read, k)
    /\ c.pc \in {"mergeSettings", "putSettings"} => Paid(c.update, k)
    /\ c.pc \in {"merge", "put"} /\ c.ware # None => PaidBut(c.update, c.ware, k)

ShopInv ==
    /\ RowInv
    /\ Backed(settings, charged)
    /\ \A w \in Worker : CallBacked(call[w], charged)

LEMMA FreezeWare == Freeze \in Wares /\ Item \subseteq Wares
BY DEF Wares

LEMMA BackedGrows ==
    ASSUME NEW k \in [Wares -> Nat], NEW k2 \in [Wares -> Nat],
           \A j \in Wares : k2[j] >= k[j]
    PROVE  /\ \A s \in Settings : Backed(s, k) => Backed(s, k2)
           /\ \A u : Paid(u, k) => Paid(u, k2)
           /\ \A u : \A i \in Wares : PaidBut(u, i, k) => PaidBut(u, i, k2)
<1>1. ASSUME NEW s \in Settings, Backed(s, k) PROVE Backed(s, k2)
  <2>1. s.freezes \in Nat /\ s.owned \subseteq Wares BY FreezeWare DEF Settings
  <2> QED BY <1>1, <2>1, FreezeWare DEF Backed
<1>2. ASSUME NEW u, Paid(u, k) PROVE Paid(u, k2)
  <2>1. "freezes" \in DOMAIN u => u["freezes"] \in Nat /\ u["freezes"] <= k2[Freeze]
    BY <1>2, FreezeWare DEF Paid
  <2>2. ASSUME "owned" \in DOMAIN u, NEW i \in u["owned"] PROVE k2[i] > 0
    <3>1. i \in Wares /\ k[i] > 0 BY <1>2, <2>2, FreezeWare DEF Paid
    <3> QED BY <3>1
  <2>3. "owned" \in DOMAIN u => u["owned"] \in SUBSET Item BY <1>2 DEF Paid
  <2> QED BY <2>1, <2>2, <2>3 DEF Paid
<1>3. ASSUME NEW u, NEW i \in Wares, PaidBut(u, i, k) PROVE PaidBut(u, i, k2)
  <2> SUFFICES ASSUME NEW k3 \in [Wares -> Nat], k3[i] > k2[i],
                      \A j \in Wares : k3[j] >= k2[j]
               PROVE  Paid(u, k3)
    BY DEF PaidBut
  <2>1. k3[i] > k[i] OBVIOUS
  <2>2. \A j \in Wares : k3[j] >= k[j] OBVIOUS
  <2> QED BY <1>3, <2>1, <2>2 DEF PaidBut
<1> QED BY <1>1, <1>2, <1>3

LEMMA CallGrows ==
    ASSUME NEW k \in [Wares -> Nat], NEW k2 \in [Wares -> Nat],
           \A j \in Wares : k2[j] >= k[j],
           NEW c, Good(c), CallBacked(c, k)
    PROVE  CallBacked(c, k2)
<1>1. c.pc \in {"buyRow", "putSettings"} => c.read \in Settings BY DEF Good
<1>2. c.ware # None => c.ware \in Wares BY DEF Good
<1> QED BY <1>1, <1>2, BackedGrows DEF CallBacked

LEMMA MergeBacked ==
    ASSUME NEW k \in [Wares -> Nat], NEW s \in Settings, Backed(s, k),
           NEW u, Paid(u, k)
    PROVE  Backed(Merge(s, u), k)
<1> DEFINE m == Merge(s, u)
<1>1. /\ m.owned = IF "owned" \in DOMAIN u THEN u["owned"] ELSE s.owned
      /\ m.freezes = IF "freezes" \in DOMAIN u THEN u["freezes"] ELSE s.freezes
  BY MergeSettings
<1> HIDE DEF m
<1>2. m.freezes <= k[Freeze] BY <1>1 DEF Backed, Paid
<1>3. \A i \in m.owned : k[i] > 0 BY <1>1 DEF Backed, Paid
<1> QED BY <1>2, <1>3 DEF Backed, m

LEMMA WithPaid ==
    ASSUME NEW k \in [Wares -> Nat], NEW s \in Settings, Backed(s, k),
           NEW i \in Wares
    PROVE  PaidBut(With(s, i), i, k)
<1> SUFFICES ASSUME NEW k2 \in [Wares -> Nat], k2[i] > k[i],
                    \A j \in Wares : k2[j] >= k[j]
             PROVE  Paid(With(s, i), k2)
  BY DEF PaidBut
<1>1. s.freezes \in Nat /\ s.owned \in SUBSET Item BY DEF Settings
<1>2. \A j \in s.owned : k2[j] > 0
  <2> TAKE j \in s.owned
  <2>1. j \in Wares /\ k[j] > 0 BY <1>1, FreezeWare DEF Backed
  <2> QED BY <2>1
<1>3. CASE i = Freeze
  <2> DEFINE u == [owned |-> s.owned, freezes |-> s.freezes + 1]
  <2>1. DOMAIN u = {"owned", "freezes"} /\ u["owned"] = s.owned
        /\ u["freezes"] = s.freezes + 1
    OBVIOUS
  <2>2. With(s, i) = u BY <1>3 DEF With
  <2> HIDE DEF u
  <2>3. s.freezes + 1 \in Nat /\ s.freezes + 1 <= k2[Freeze]
    BY <1>1, <1>3, FreezeWare DEF Backed
  <2> QED BY <1>1, <1>2, <2>1, <2>2, <2>3 DEF Paid
<1>4. CASE i # Freeze
  <2> DEFINE u == [owned |-> s.owned \cup {i}, freezes |-> s.freezes]
  <2>1. DOMAIN u = {"owned", "freezes"} /\ u["owned"] = s.owned \cup {i}
        /\ u["freezes"] = s.freezes
    OBVIOUS
  <2>2. With(s, i) = u BY <1>4 DEF With
  <2> HIDE DEF u
  <2>3. s.freezes <= k2[Freeze] BY <1>1, FreezeWare DEF Backed
  <2>4. s.owned \cup {i} \in SUBSET Item BY <1>1, <1>4 DEF Wares
  <2>5. \A j \in s.owned \cup {i} : k2[j] > 0 BY <1>2
  <2> QED BY <1>1, <2>1, <2>2, <2>3, <2>4, <2>5 DEF Paid
<1> QED BY <1>3, <1>4

\* A step of one worker that keeps the settings backed, and its own locals.
LEMMA ShopStep ==
    ASSUME ShopInv, RowInv', NEW w \in Worker, NEW c,
           call' = [call EXCEPT ![w] = c],
           \A j \in Wares : charged'[j] >= charged[j],
           Backed(settings', charged'), CallBacked(c, charged')
    PROVE  ShopInv'
<1>1. charged \in [Wares -> Nat] /\ charged' \in [Wares -> Nat]
  BY DEF ShopInv, RowInv
<1>2. \A v \in Worker : Good(call[v]) /\ CallBacked(call[v], charged)
  BY DEF ShopInv, RowInv
<1>3. \A v \in Worker : CallBacked(call[v], charged')
  BY <1>1, <1>2, CallGrows
<1>4. \A v \in Worker : call'[v] = IF v = w THEN c ELSE call[v]
  BY DEF ShopInv, RowInv
<1>5. \A v \in Worker : CallBacked(call'[v], charged') BY <1>3, <1>4
<1> QED BY <1>5 DEF ShopInv

\* A step of one worker that leaves the settings and the charges alone.
LEMMA ShopLocalStep ==
    ASSUME ShopInv, RowInv', NEW w \in Worker, NEW c,
           call' = [call EXCEPT ![w] = c],
           UNCHANGED <<settings, charged>>, CallBacked(c, charged)
    PROVE  ShopInv'
<1>1. \A j \in Wares : charged'[j] >= charged[j] BY DEF ShopInv, RowInv
<1>2. Backed(settings', charged') BY DEF ShopInv
<1>3. CallBacked(c, charged') OBVIOUS
<1> QED BY <1>1, <1>2, <1>3, ShopStep

LEMMA BlankBacked == \A k : CallBacked(Blank, k)
BY DEF CallBacked, Blank

LEMMA ShopBegin ==
    ASSUME ShopInv, RowInv', NEW w \in Worker, NEW e, NEW l, Begin(w, e, l),
           CallBacked(Merge(Blank, l), charged)
    PROVE  ShopInv'
<1> DEFINE c == Merge(Blank, l)
<1>1. call' = [call EXCEPT ![w] = c] /\ UNCHANGED <<settings, charged>>
  BY DEF Begin
<1>2. CallBacked(c, charged) OBVIOUS
<1> HIDE DEF c
<1> QED BY <1>1, <1>2, ShopLocalStep

\* Locals without a ware, and not of the settings, promise nothing.
LEMMA PlainBacked ==
    ASSUME NEW l, NEW k, "ware" \notin DOMAIN l, "pc" \in DOMAIN l,
           l["pc"] \in {"merge", "put", "freeze", "deleteRow", "create", "reward"}
    PROVE  CallBacked(Merge(Blank, l), k)
<1> DEFINE c == Merge(Blank, l)
<1>1. c.pc = l["pc"] /\ c.ware = None BY MergeBlank
<1> HIDE DEF c
<1> QED BY <1>1 DEF CallBacked, c

LEMMA UpdateBacked == \A p, k : CallBacked(Merge(Blank, Update(p)), k)
<1> TAKE p, k
<1> DEFINE l == Update(p)
<1>1. DOMAIN l = {"pc", "patch"} /\ l["pc"] = "merge" BY DEF Update
<1> HIDE DEF l
<1>2. CallBacked(Merge(Blank, l), k) BY <1>1, PlainBacked
<1> QED BY <1>2 DEF l

LEMMA UpdatersShop ==
    ASSUME ShopInv, RowInv', NEW w \in Worker,
           \/ \E n \in Amount : AwardXp(w, n) \/ AdjustLingots(w, n)
           \/ BanUser(w) \/ UnbanUser(w) \/ ResetProgress(w) \/ UpdateProfile(w)
           \/ \E s \in {"active", "banned"} : SetStatus(w, s)
    PROVE  ShopInv'
<1>1. PICK e, p : Begin(w, e, Update(p))
  BY DEF AwardXp, AdjustLingots, BanUser, UnbanUser, ResetProgress, UpdateProfile,
         SetStatus
<1> QED BY <1>1, UpdateBacked, ShopBegin

LEMMA HoldersShop ==
    ASSUME ShopInv, RowInv', NEW w \in Worker,
           Register(w) \/ Boot(w) \/ \E missed \in BOOLEAN : Lesson(w, missed)
    PROVE  ShopInv'
<1>1. ASSUME NEW e, NEW b, NEW p, NEW pc \in {"put", "freeze"},
             Begin(w, e, [pc |-> pc, base |-> b, patch |-> p])
      PROVE  ShopInv'
  <2> DEFINE l == [pc |-> pc, base |-> b, patch |-> p]
  <2>1. DOMAIN l = {"pc", "base", "patch"} /\ l["pc"] = pc OBVIOUS
  <2>2. Begin(w, e, l) BY <1>1
  <2> HIDE DEF l
  <2>3. CallBacked(Merge(Blank, l), charged) BY <1>1, <2>1, PlainBacked
  <2> QED BY <2>2, <2>3, ShopBegin
<1>2. CASE Register(w) BY <1>1, <1>2 DEF Register
<1>3. CASE Boot(w) BY <1>1, <1>3 DEF Boot
<1>4. ASSUME NEW missed \in BOOLEAN, Lesson(w, missed) PROVE ShopInv'
  BY <1>1, <1>4 DEF Lesson
<1> QED BY <1>2, <1>3, <1>4

LEMMA SettersShop ==
    ASSUME ShopInv, RowInv', NEW w \in Worker,
           \/ \E atoms \in SUBSET Atom : Unlock(w, atoms)
           \/ PatchLearning(w) \/ PatchSettings(w)
    PROVE  ShopInv'
<1>1. ASSUME NEW e, NEW u, "freezes" \notin DOMAIN u, "owned" \notin DOMAIN u,
             Begin(w, e, [pc |-> "mergeSettings", update |-> u])
      PROVE  ShopInv'
  <2> DEFINE l == [pc |-> "mergeSettings", update |-> u]
             c == Merge(Blank, l)
  <2>1. DOMAIN l = {"pc", "update"} /\ l["pc"] = "mergeSettings" /\ l["update"] = u
    OBVIOUS
  <2>2. Begin(w, e, l) BY <1>1
  <2> HIDE DEF l
  <2>3. c.pc = "mergeSettings" /\ c.update = u BY <2>1, MergeBlank
  <2>4. CallBacked(c, charged)
    <3> HIDE DEF c
    <3> QED BY <1>1, <2>3 DEF CallBacked, Paid
  <2> QED BY <2>2, <2>4, ShopBegin
<1>2. ASSUME NEW e, NEW a,
             Begin(w, e, [pc |-> "mergeSettings", update |-> [unlocked |-> a]])
      PROVE  ShopInv'
  <2> DEFINE u == [unlocked |-> a]
  <2>1. DOMAIN u = {"unlocked"} OBVIOUS
  <2>2. Begin(w, e, [pc |-> "mergeSettings", update |-> u]) BY <1>2
  <2> HIDE DEF u
  <2> QED BY <1>1, <2>1, <2>2
<1>3. DOMAIN Elsewhere = {} BY DEF Elsewhere
<1>4. CASE PatchSettings(w) BY <1>1, <1>3, <1>4 DEF PatchSettings
<1>5. CASE PatchLearning(w) BY <1>2, <1>5 DEF PatchLearning
<1>6. ASSUME NEW atoms \in SUBSET Atom, Unlock(w, atoms) PROVE ShopInv'
  BY <1>2, <1>6 DEF Unlock
<1> QED BY <1>4, <1>5, <1>6

LEMMA BeginnersShop ==
    ASSUME ShopInv, RowInv', NEW w \in Worker,
           \/ \E i \in Wares : BuyReadSettings(w, i) \/ BuyReadRow(w, i)
           \/ Delete(w) \/ Touch(w) \/ ClaimQuest(w)
    PROVE  ShopInv'
<1>1. ASSUME NEW i \in Wares, BuyReadSettings(w, i) PROVE ShopInv'
  <2> DEFINE l == [pc |-> "buyRow", read |-> settings, ware |-> i]
             c == Merge(Blank, l)
  <2>1. DOMAIN l = {"pc", "read", "ware"} /\ l["pc"] = "buyRow"
        /\ l["read"] = settings
    OBVIOUS
  <2>2. Begin(w, "buy", l) BY <1>1 DEF BuyReadSettings
  <2> HIDE DEF l
  <2>3. c.pc = "buyRow" /\ c.read = settings BY <2>1, MergeBlank
  <2>4. CallBacked(c, charged)
    <3> HIDE DEF c
    <3> QED BY <2>3 DEF CallBacked, ShopInv
  <2> QED BY <2>2, <2>4, ShopBegin
<1>2. ASSUME NEW i \in Wares, BuyReadRow(w, i) PROVE ShopInv'
  <2> DEFINE n == IF row = None THEN 0 ELSE row.lingots
             l == [pc |-> "buySettings", ware |-> i, purse |-> n]
             c == Merge(Blank, l)
  <2>1. DOMAIN l = {"pc", "ware", "purse"} /\ l["pc"] = "buySettings" OBVIOUS
  <2>2. Begin(w, "buy", l) BY <1>2 DEF BuyReadRow
  <2> HIDE DEF l
  <2>3. c.pc = "buySettings" BY <2>1, MergeBlank
  <2>4. CallBacked(c, charged)
    <3> HIDE DEF c
    <3> QED BY <2>3 DEF CallBacked
  <2> QED BY <2>2, <2>4, ShopBegin
<1>3. ASSUME NEW e, NEW pc \in {"deleteRow", "create", "reward"}, Begin(w, e, [pc |-> pc])
      PROVE  ShopInv'
  <2> DEFINE l == [pc |-> pc]
  <2>1. DOMAIN l = {"pc"} /\ l["pc"] = pc OBVIOUS
  <2>2. Begin(w, e, l) BY <1>3
  <2> HIDE DEF l
  <2>3. CallBacked(Merge(Blank, l), charged) BY <1>3, <2>1, PlainBacked
  <2> QED BY <2>2, <2>3, ShopBegin
<1>4. CASE Delete(w) BY <1>3, <1>4 DEF Delete
<1>5. CASE Touch(w) BY <1>3, <1>5 DEF Touch
<1>6. CASE ClaimQuest(w) BY <1>3, <1>6 DEF ClaimQuest
<1> QED BY <1>1, <1>2, <1>4, <1>5, <1>6

LEMMA BuyDecideShop ==
    ASSUME ShopInv, RowInv', NEW w \in Worker, BuyDecide(w)
    PROVE  ShopInv'
<1> DEFINE k == call[w]
<1>1. Good(k) /\ CallBacked(k, charged) BY DEF ShopInv, RowInv
<1>2. UNCHANGED <<settings, charged>> BY DEF BuyDecide
<1>3. PICK s, n : /\ Decide(w, s, n)
                  /\ s \in Settings /\ Backed(s, charged) /\ k.ware \in Wares
  <2>1. CASE At(w, "buyRow")
    BY <1>1, <2>1 DEF BuyDecide, At, Good, CallBacked
  <2>2. CASE At(w, "buySettings")
    BY <1>1, <2>2 DEF BuyDecide, At, Good, ShopInv, RowInv
  <2> QED BY <2>1, <2>2 DEF BuyDecide
<1>4. CASE Owned(s, k.ware) \/ n < Price[k.ware]
  <2>1. call' = [call EXCEPT ![w] = Blank] BY <1>3, <1>4 DEF Decide
  <2> QED BY <1>2, <2>1, BlankBacked, ShopLocalStep
<1>5. CASE ~(Owned(s, k.ware) \/ n < Price[k.ware])
  <2> DEFINE i == k.ware
             u == With(s, i)
             c == [Blank EXCEPT !.pc = "merge", !.ware = i,
                                !.patch = [lingots |-> n - Price[i]], !.update = u]
  <2>1. call' = [call EXCEPT ![w] = c] BY <1>3, <1>5 DEF Decide
  <2>2. PaidBut(u, i, charged) BY <1>3, WithPaid DEF ShopInv, RowInv
  <2> HIDE DEF u, i
  <2>3. c.pc = "merge" /\ c.ware = i /\ c.update = u BY DEF Blank
  <2> HIDE DEF c
  <2>4. CallBacked(c, charged) BY <2>2, <2>3 DEF CallBacked
  <2> QED BY <1>2, <2>1, <2>4, ShopLocalStep
<1> QED BY <1>4, <1>5

LEMMA SpendFreezeShop ==
    ASSUME ShopInv, RowInv', NEW w \in Worker, SpendFreeze(w)
    PROVE  ShopInv'
<1> DEFINE k == call[w]
           f == settings.freezes
           u == IF f > 0 THEN [owned |-> settings.owned, freezes |-> f - 1] ELSE None
           q == IF f > 0 THEN "mergeSettings" ELSE "put"
           c == [k EXCEPT !.pc = q, !.update = u]
<1>1. Good(k) /\ k.pc = "freeze" BY DEF ShopInv, RowInv, SpendFreeze, At
<1>2. DOMAIN k = Locals /\ k.ware = None BY <1>1 DEF Good
<1>3. call' = [call EXCEPT ![w] = c] /\ UNCHANGED <<settings, charged>>
  BY DEF SpendFreeze
<1>4. f > 0 => Paid(u, charged)
  <2> SUFFICES ASSUME f > 0 PROVE Paid(u, charged)
    OBVIOUS
  <2>1. u = [owned |-> settings.owned, freezes |-> f - 1] OBVIOUS
  <2>2. /\ DOMAIN u = {"owned", "freezes"}
        /\ u["owned"] = settings.owned /\ u["freezes"] = f - 1
    BY <2>1
  <2>3. settings \in Settings /\ Backed(settings, charged)
        /\ charged \in [Wares -> Nat]
    BY DEF ShopInv, RowInv
  <2>4. f \in Nat /\ settings.owned \in SUBSET Item BY <2>3 DEF Settings
  <2>5. f - 1 \in Nat /\ f - 1 <= charged[Freeze]
    BY <2>3, <2>4, FreezeWare DEF Backed
  <2>6. \A i \in settings.owned : charged[i] > 0 BY <2>3 DEF Backed
  <2> HIDE DEF u, f
  <2> QED BY <2>2, <2>4, <2>5, <2>6 DEF Paid
<1>5. q = "mergeSettings" => f > 0 OBVIOUS
<1>6. q \in {"mergeSettings", "put"} OBVIOUS
<1> HIDE DEF k, u, q, f
<1>7. c.pc = q /\ c.update = u /\ c.ware = None BY <1>2 DEF Locals
<1> HIDE DEF c
<1>8. CallBacked(c, charged) BY <1>4, <1>5, <1>6, <1>7 DEF CallBacked
<1> QED BY <1>3, <1>8, ShopLocalStep

LEMMA RewardQuestShop ==
    ASSUME ShopInv, RowInv', NEW w \in Worker, RewardQuest(w)
    PROVE  ShopInv'
<1> DEFINE k == call[w]
           p == [xp |-> row.xp + Gain, lingots |-> row.lingots + Gain]
           c == [k EXCEPT !.pc = "merge", !.patch = p]
<1>1. Good(k) /\ k.pc = "reward" BY DEF ShopInv, RowInv, RewardQuest, At
<1>2. DOMAIN k = Locals /\ k.ware = None BY <1>1 DEF Good
<1>3. UNCHANGED <<settings, charged>> BY DEF RewardQuest
<1>4. CASE row = None
  <2>1. call' = [call EXCEPT ![w] = Blank] BY <1>4 DEF RewardQuest
  <2> QED BY <1>3, <2>1, BlankBacked, ShopLocalStep
<1>5. CASE row # None
  <2>1. call' = [call EXCEPT ![w] = c] BY <1>5 DEF RewardQuest
  <2> HIDE DEF k, p
  <2>2. c.pc = "merge" /\ c.ware = None BY <1>2 DEF Locals
  <2> HIDE DEF c
  <2>3. CallBacked(c, charged) BY <2>2 DEF CallBacked
  <2> QED BY <1>3, <2>1, <2>3, ShopLocalStep
<1> QED BY <1>4, <1>5

LEMMA ReadRowShop ==
    ASSUME ShopInv, RowInv', NEW w \in Worker, ReadRow(w)
    PROVE  ShopInv'
<1> DEFINE k == call[w]
           c == [k EXCEPT !.pc = "put", !.base = row]
<1>1. Good(k) /\ CallBacked(k, charged) /\ k.pc = "merge"
  BY DEF ShopInv, RowInv, ReadRow, At
<1>2. DOMAIN k = Locals BY <1>1 DEF Good
<1>3. UNCHANGED <<settings, charged>> BY DEF ReadRow
<1>4. CASE row = None
  <2>1. call' = [call EXCEPT ![w] = Blank] BY <1>4 DEF ReadRow
  <2> QED BY <1>3, <2>1, BlankBacked, ShopLocalStep
<1>5. CASE row # None
  <2>1. call' = [call EXCEPT ![w] = c] BY <1>5 DEF ReadRow
  <2> HIDE DEF k
  <2>2. c.pc = "put" /\ c.update = k.update /\ c.ware = k.ware
    BY <1>2 DEF Locals
  <2> HIDE DEF c
  <2>3. CallBacked(c, charged) BY <1>1, <2>2 DEF CallBacked
  <2> QED BY <1>3, <2>1, <2>3, ShopLocalStep
<1> QED BY <1>4, <1>5

LEMMA PutRowShop ==
    ASSUME ShopInv, RowInv', NEW w \in Worker, PutRow(w)
    PROVE  ShopInv'
<1> DEFINE k == call[w]
<1>1. Good(k) /\ CallBacked(k, charged) /\ k.pc = "put"
  BY DEF ShopInv, RowInv, PutRow, At
<1>2. DOMAIN k = Locals BY <1>1 DEF Good
<1>3. UNCHANGED settings BY DEF PutRow
<1>4. CASE k.ware = None
  <2>1. call' = [call EXCEPT ![w] = Blank] /\ UNCHANGED charged
    BY <1>4 DEF PutRow
  <2> QED BY <1>3, <2>1, BlankBacked, ShopLocalStep
<1>5. CASE k.ware # None
  <2> DEFINE c == [k EXCEPT !.pc = "mergeSettings", !.base = None]
  <2>1. call' = [call EXCEPT ![w] = c] BY <1>5 DEF PutRow
  <2>2. charged' = [charged EXCEPT ![k.ware] = @ + 1] BY <1>5 DEF PutRow
  <2>3. charged \in [Wares -> Nat] /\ charged' \in [Wares -> Nat] /\ k.ware \in Wares
    BY <1>1, <1>5 DEF ShopInv, RowInv, Good
  <2>4. (\A j \in Wares : charged'[j] >= charged[j]) /\ charged'[k.ware] > charged[k.ware]
    BY <2>2, <2>3
  <2>5. Paid(k.update, charged')
    BY <1>1, <1>5, <2>3, <2>4 DEF CallBacked, PaidBut
  <2>6. Backed(settings', charged')
    BY <1>3, <2>3, <2>4, BackedGrows DEF ShopInv, RowInv
  <2> HIDE DEF k
  <2>7. c.pc = "mergeSettings" /\ c.update = k.update BY <1>2 DEF Locals
  <2> HIDE DEF c
  <2>8. CallBacked(c, charged') BY <2>5, <2>7 DEF CallBacked
  <2> QED BY <2>1, <2>4, <2>6, <2>8, ShopStep
<1> QED BY <1>4, <1>5

LEMMA ReadSettingsShop ==
    ASSUME ShopInv, RowInv', NEW w \in Worker, ReadSettings(w)
    PROVE  ShopInv'
<1> DEFINE k == call[w]
           c == [k EXCEPT !.pc = "putSettings", !.read = settings]
<1>1. Good(k) /\ CallBacked(k, charged) /\ k.pc = "mergeSettings"
  BY DEF ShopInv, RowInv, ReadSettings, At
<1>2. DOMAIN k = Locals BY <1>1 DEF Good
<1>3. call' = [call EXCEPT ![w] = c] /\ UNCHANGED <<settings, charged>>
  BY DEF ReadSettings
<1> HIDE DEF k
<1>4. c.pc = "putSettings" /\ c.read = settings /\ c.update = k.update
  BY <1>2 DEF Locals
<1> HIDE DEF c
<1>5. CallBacked(c, charged) BY <1>1, <1>4 DEF CallBacked, ShopInv
<1> QED BY <1>3, <1>5, ShopLocalStep

LEMMA PutSettingsShop ==
    ASSUME ShopInv, RowInv', NEW w \in Worker, PutSettings(w)
    PROVE  ShopInv'
<1> DEFINE k == call[w]
<1>1. Good(k) /\ CallBacked(k, charged) /\ k.pc = "putSettings"
  BY DEF ShopInv, RowInv, PutSettings, At
<1>2. DOMAIN k = Locals BY <1>1 DEF Good
<1>3. UNCHANGED charged BY DEF PutSettings
<1>4. charged \in [Wares -> Nat] BY DEF ShopInv, RowInv
<1>5. Backed(settings', charged)
  <2>1. k.read \in Settings /\ Backed(k.read, charged) /\ Paid(k.update, charged)
    BY <1>1 DEF Good, CallBacked
  <2> QED BY <1>4, <2>1, MergeBacked DEF PutSettings
<1>6. \A j \in Wares : charged'[j] >= charged[j] BY <1>3, <1>4
<1>7. CASE k.base = None
  <2>1. call' = [call EXCEPT ![w] = Blank] BY <1>7 DEF PutSettings
  <2> QED BY <1>3, <1>5, <1>6, <2>1, BlankBacked, ShopStep
<1>8. CASE k.base # None
  <2> DEFINE c == [k EXCEPT !.pc = "put"]
  <2>1. call' = [call EXCEPT ![w] = c] BY <1>8 DEF PutSettings
  <2>2. k.ware # None => PaidBut(k.update, k.ware, charged)
    <3> SUFFICES ASSUME k.ware # None, NEW k2 \in [Wares -> Nat],
                        \A j \in Wares : k2[j] >= charged[j]
                 PROVE  Paid(k.update, k2)
      BY DEF PaidBut
    <3>1. Paid(k.update, charged) BY <1>1 DEF CallBacked
    <3> QED BY <1>4, <3>1, BackedGrows
  <2> HIDE DEF k
  <2>3. c.pc = "put" /\ c.update = k.update /\ c.ware = k.ware BY <1>2 DEF Locals
  <2> HIDE DEF c
  <2>4. CallBacked(c, charged') BY <1>3, <2>2, <2>3 DEF CallBacked
  <2> QED BY <1>3, <1>5, <1>6, <2>1, <2>4, ShopStep
<1> QED BY <1>7, <1>8

LEMMA EndersShop ==
    ASSUME ShopInv, RowInv', NEW w \in Worker,
           DeleteRow(w) \/ DeleteSettings(w) \/ CreateUser(w) \/ Crash(w)
    PROVE  ShopInv'
<1> DEFINE k == call[w]
<1>1. charged \in [Wares -> Nat] /\ DOMAIN k = Locals
  BY DEF ShopInv, RowInv, Good
<1>2. CASE DeleteRow(w)
  <2> DEFINE c == [k EXCEPT !.pc = "deleteSettings"]
  <2>1. call' = [call EXCEPT ![w] = c] /\ UNCHANGED <<settings, charged>>
    BY <1>2 DEF DeleteRow
  <2> HIDE DEF k
  <2>2. c.pc = "deleteSettings" BY <1>1 DEF Locals
  <2> HIDE DEF c
  <2>3. CallBacked(c, charged) BY <2>2 DEF CallBacked
  <2> QED BY <2>1, <2>3, ShopLocalStep
<1>3. CASE DeleteSettings(w)
  <2>1. Backed(NoSettings, charged)
    BY <1>1, FreezeWare DEF Backed, NoSettings
  <2>2. /\ call' = [call EXCEPT ![w] = Blank]
        /\ UNCHANGED charged /\ settings' = NoSettings
    BY <1>3 DEF DeleteSettings
  <2>3. \A j \in Wares : charged'[j] >= charged[j] BY <1>1, <2>2
  <2> QED BY <2>1, <2>2, <2>3, BlankBacked, ShopStep
<1>4. CASE CreateUser(w)
  BY <1>4, BlankBacked, ShopLocalStep DEF CreateUser
<1>5. CASE Crash(w)
  BY <1>5, BlankBacked, ShopLocalStep DEF Crash
<1> QED BY <1>2, <1>3, <1>4, <1>5

LEMMA ShopInit == Init => ShopInv
<1> SUFFICES ASSUME Init PROVE ShopInv
  OBVIOUS
<1>1. RowInv BY RowInit
<1>2. Backed(settings, charged)
  BY FreezeWare DEF Init, Backed, NoSettings
<1>3. \A w \in Worker : CallBacked(call[w], charged)
  BY BlankBacked DEF Init
<1> QED BY <1>1, <1>2, <1>3 DEF ShopInv

LEMMA ShopNext == ShopInv /\ [Next]_vars => ShopInv'
<1> SUFFICES ASSUME ShopInv, [Next]_vars PROVE ShopInv'
  OBVIOUS
<1>0. RowInv' BY RowNext DEF ShopInv
<1>1. CASE UNCHANGED vars
  BY <1>0, <1>1 DEF vars, ShopInv, Backed, CallBacked, Paid, PaidBut
<1>2. ASSUME NEW w \in Worker,
             \/ \E n \in Amount : AwardXp(w, n) \/ AdjustLingots(w, n)
             \/ BanUser(w) \/ UnbanUser(w) \/ ResetProgress(w) \/ UpdateProfile(w)
             \/ \E s \in {"active", "banned"} : SetStatus(w, s)
      PROVE  ShopInv'
  BY <1>0, <1>2, UpdatersShop
<1>3. ASSUME NEW w \in Worker,
             Register(w) \/ Boot(w) \/ \E missed \in BOOLEAN : Lesson(w, missed)
      PROVE  ShopInv'
  BY <1>0, <1>3, HoldersShop
<1>4. ASSUME NEW w \in Worker,
             \/ \E atoms \in SUBSET Atom : Unlock(w, atoms)
             \/ PatchLearning(w) \/ PatchSettings(w)
      PROVE  ShopInv'
  BY <1>0, <1>4, SettersShop
<1>5. ASSUME NEW w \in Worker,
             \/ \E i \in Wares : BuyReadSettings(w, i) \/ BuyReadRow(w, i)
             \/ Delete(w) \/ Touch(w) \/ ClaimQuest(w)
      PROVE  ShopInv'
  BY <1>0, <1>5, BeginnersShop
<1>6. ASSUME NEW w \in Worker,
             \/ BuyDecide(w) \/ SpendFreeze(w) \/ ReadRow(w) \/ PutRow(w)
             \/ ReadSettings(w) \/ PutSettings(w) \/ RewardQuest(w)
      PROVE  ShopInv'
  BY <1>0, <1>6, RewardQuestShop, BuyDecideShop, SpendFreezeShop, ReadRowShop, PutRowShop,
     ReadSettingsShop, PutSettingsShop
<1>7. ASSUME NEW w \in Worker,
             DeleteRow(w) \/ DeleteSettings(w) \/ CreateUser(w) \/ Crash(w)
      PROVE  ShopInv'
  BY <1>0, <1>7, EndersShop
<1> QED BY <1>1, <1>2, <1>3, <1>4, <1>5, <1>6, <1>7 DEF Next

(* Whatever overlaps with a purchase, and wherever it dies, the user holds *)
(* no more freezes than were charged, and no item that never was           *)
(* (shop_buy charges before it delivers).                                  *)
THEOREM DeliveredWasChargedHolds == Spec => []DeliveredWasCharged
<1>1. ShopInv => DeliveredWasCharged BY DEF ShopInv, Backed, DeliveredWasCharged
<1>2. Spec => []ShopInv BY ShopInit, ShopNext, PTL DEF Spec
<1> QED BY <1>1, <1>2, PTL

-----------------------------------------------------------------------------
(* One request after another: the items serve the account (Ledger).        *)

\* The patches that are one step of the account, whatever row they are merged into.
Revises(p) ==
    \/ \E n \in Amount : p = XpPatch(NonNegative(row.xp + n))
    \/ \E n \in Amount : p = [lingots |-> NonNegative(row.lingots + n)]
    \/ \E h : \E b \in {"active", "banned"} : p = [status |-> b, history |-> h]
    \/ \E b \in {"active", "banned"} : p = [status |-> b]
    \/ p = [xp |-> 0, level |-> 1, lingots |-> 0]
    \/ row.status # "banned" /\ p = [xp |-> row.xp + Gain, lingots |-> row.lingots + Gain]
    \/ p = Elsewhere

Registers(p) == ~row.registered /\ p = [registered |-> TRUE]

Earns(p) ==
    /\ row.status # "banned"
    /\ p = [xp |-> row.xp + Gain, level |-> LevelFor(row.xp + Gain), lingots |-> row.lingots + Gain]

Sells(k) ==
    /\ k.ware \in Wares /\ ~Owned(settings, k.ware)
    /\ row # None /\ row.status # "banned" /\ row.lingots >= Price[k.ware]
    /\ k.patch = [lingots |-> row.lingots - Price[k.ware]]
    /\ k.update = With(settings, k.ware)

Rewrites(u) ==
    \/ Admitted /\ \E atoms \in SUBSET Atom : u = [unlocked |-> settings.unlocked \cup atoms]
    \/ u = [unlocked |-> settings.unlocked]
    \/ u = Elsewhere

Spends(k) ==
    /\ row # None /\ k.base = row /\ Earns(k.patch)
    /\ settings.freezes > 0
    /\ k.update = [owned |-> settings.owned, freezes |-> settings.freezes - 1]

\* What the one request under way holds is what the items still say.
Serving(k) ==
    /\ k.pc \in {"idle", "freeze", "deleteRow", "deleteSettings", "create", "reward"} =>
          k.ware = None
    /\ k.pc = "reward" => k.base = None /\ k.update = None /\ Admitted
    /\ k.pc = "merge" =>
          IF k.ware = None THEN k.base = None /\ k.update = None /\ Revises(k.patch)
          ELSE k.base = None /\ Sells(k)
    /\ k.pc = "put" =>
          /\ row # None /\ k.base = row
          /\ IF k.ware # None THEN Sells(k)
             ELSE \/ Earns(k.patch)
                  \/ k.update = None /\ (Revises(k.patch) \/ Registers(k.patch))
    /\ k.pc = "freeze" => row # None /\ k.base = row /\ k.update = None /\ Earns(k.patch)
    /\ k.pc \in {"mergeSettings", "putSettings"} =>
          \/ k.ware # None /\ k.base = None
          \/ k.ware = None /\ k.base = None /\ Rewrites(k.update)
          \/ k.ware = None /\ k.base # None /\ Spends(k)
    /\ k.pc = "putSettings" => k.read = settings
    /\ k.pc \in {"buyRow", "buySettings"} => Admitted /\ k.ware \in Wares
    /\ k.pc = "buyRow" => k.read = settings
    /\ k.pc = "buySettings" => k.purse = (IF row = None THEN 0 ELSE row.lingots)
    /\ k.pc = "deleteRow" => row # None
    /\ k.pc \in {"deleteSettings", "create"} => row = None

\* What has been delivered, as Goods counts it, if k is the request under way.
Delivered(k, s) ==
    IF k.pc = "deleteSettings" THEN NoSettings
    ELSE IF k.ware # None /\ k.pc \in {"mergeSettings", "putSettings"} THEN Merge(s, k.update)
    ELSE IF k.pc = "put" /\ k.ware = None /\ k.update # None
    THEN [s EXCEPT !.freezes = @ + 1]
    ELSE s

LEMMA GoodsOfOne ==
    ASSUME NEW w, Worker = {w}
    PROVE  /\ Goods = Delivered(call[w], settings)
           /\ Goods' = Delivered(call'[w], settings')
<1>1. ASSUME call[w].ware # None
      PROVE  (CHOOSE v \in Worker : call[v].ware # None) = w
  BY <1>1
<1>2. ASSUME call'[w].ware # None
      PROVE  (CHOOSE v \in Worker : call'[v].ware # None) = w
  BY <1>2
<1>3. Goods = Delivered(call[w], settings)
  BY <1>1 DEF Goods, Delivered, At
<1>4. Goods' = Delivered(call'[w], settings')
  BY <1>2 DEF Goods, Delivered, At
<1> QED BY <1>3, <1>4

Serves == Account!Next \/ UNCHANGED Account!account

LEMMA Quiet ==
    ASSUME row' = row, Goods' = Goods
    PROVE  Serves
<1>1. Holder' = Holder BY DEF Holder
<1> QED BY <1>1 DEF Serves, Account!account

\* A put of one of the patches that are a step of the account.
LEMMA RevisionServes ==
    ASSUME row \in Row, row' \in Row, NEW p, Revises(p), row' = Merge(row, p), Goods' = Goods
    PROVE  Serves
<1>n. row # None BY NoneIsNothing
<1>t. /\ row.xp \in Nat /\ row.lingots \in Nat /\ row.registered \in BOOLEAN
      /\ row.status \in {"active", "banned"}
  BY DEF Row
<1>h. Holder = row BY <1>n DEF Holder
<1>m. row' = [xp |-> IF "xp" \in DOMAIN p THEN p["xp"] ELSE row.xp,
              level |-> IF "level" \in DOMAIN p THEN p["level"] ELSE row.level,
              lingots |-> IF "lingots" \in DOMAIN p THEN p["lingots"] ELSE row.lingots,
              status |-> IF "status" \in DOMAIN p THEN p["status"] ELSE row.status,
              history |-> IF "history" \in DOMAIN p THEN p["history"] ELSE row.history,
              registered |-> IF "registered" \in DOMAIN p THEN p["registered"]
                             ELSE row.registered]
  BY MergeRow
<1>1. row' # None /\ Holder' = row' BY NoneIsNothing DEF Holder
<1>2. Serves
  <2>1. CASE \E n \in Amount : p = XpPatch(NonNegative(row.xp + n))
    <3>1. PICK n \in Amount : p = XpPatch(NonNegative(row.xp + n)) BY <2>1
    <3>2. DOMAIN p = {"xp", "level"} /\ p["xp"] = NonNegative(row.xp + n) BY <3>1 DEF XpPatch
    <3>3. /\ row'.xp = NonNegative(row.xp + n) /\ row'.lingots = row.lingots
          /\ row'.status = row.status /\ row'.registered = row.registered
      BY <1>m, <3>2
    <3>4. Account!Award(n)
      BY <1>1, <1>n, <1>h, <3>3
         DEF Account!Award, Account!profile, Account!goods, Account!AtLeastZero, NonNegative
    <3> QED BY <3>4 DEF Serves, Account!Next
  <2>2. CASE \E n \in Amount : p = [lingots |-> NonNegative(row.lingots + n)]
    <3>1. PICK n \in Amount : p = [lingots |-> NonNegative(row.lingots + n)] BY <2>2
    <3>2. DOMAIN p = {"lingots"} /\ p["lingots"] = NonNegative(row.lingots + n) BY <3>1
    <3>3. /\ row'.lingots = NonNegative(row.lingots + n) /\ row'.xp = row.xp
          /\ row'.status = row.status /\ row'.registered = row.registered
      BY <1>m, <3>2
    <3>4. Account!Adjust(n)
      BY <1>1, <1>n, <1>h, <3>3
         DEF Account!Adjust, Account!profile, Account!goods, Account!AtLeastZero, NonNegative
    <3> QED BY <3>4 DEF Serves, Account!Next
  <2>3. ASSUME NEW b \in {"active", "banned"}, p.status = b, "status" \in DOMAIN p,
               DOMAIN p \subseteq {"status", "history"}
        PROVE  Serves
    <3>1. /\ row'.lingots = row.lingots /\ row'.xp = row.xp
          /\ row'.status = b /\ row'.registered = row.registered
      BY <1>m, <2>3
    <3>2. Account!SetBan(b = "banned")
      BY <1>1, <1>n, <1>h, <3>1 DEF Account!SetBan, Account!goods
    <3>3. (b = "banned") \in BOOLEAN OBVIOUS
    <3> QED BY <3>2, <3>3 DEF Serves, Account!Next
  <2>4. CASE \E h : \E b \in {"active", "banned"} : p = [status |-> b, history |-> h]
    BY <2>3, <2>4
  <2>5. CASE \E b \in {"active", "banned"} : p = [status |-> b]
    BY <2>3, <2>5
  <2>6. CASE p = [xp |-> 0, level |-> 1, lingots |-> 0]
    <3>1. DOMAIN p = {"xp", "level", "lingots"} /\ p["xp"] = 0 /\ p["lingots"] = 0 BY <2>6
    <3>2. /\ row'.lingots = 0 /\ row'.xp = 0
          /\ row'.status = row.status /\ row'.registered = row.registered
      BY <1>m, <3>1
    <3>3. Account!Reset
      BY <1>1, <1>n, <1>h, <3>2 DEF Account!Reset, Account!profile, Account!goods
    <3> QED BY <3>3 DEF Serves, Account!Next
  <2>7. CASE p = Elsewhere
    <3>1. DOMAIN p = {} BY <2>7 DEF Elsewhere
    <3>2. /\ row'.lingots = row.lingots /\ row'.xp = row.xp
          /\ row'.status = row.status /\ row'.registered = row.registered
      BY <1>m, <3>1
    <3>3. UNCHANGED Account!account
      BY <1>1, <1>n, <1>h, <3>2 DEF Account!account
    <3> QED BY <3>3 DEF Serves
  <2>8. CASE row.status # "banned" /\ p = [xp |-> row.xp + Gain, lingots |-> row.lingots + Gain]
    <3>1. /\ DOMAIN p = {"xp", "lingots"}
          /\ p["xp"] = row.xp + Gain /\ p["lingots"] = row.lingots + Gain
      BY <2>8
    <3>2. /\ row'.lingots = row.lingots + Gain /\ row'.xp = row.xp + Gain
          /\ row'.status = row.status /\ row'.registered = row.registered
      BY <1>m, <3>1
    <3>3. Account!Reward
      BY <1>1, <1>n, <1>h, <2>8, <3>2 DEF Account!Reward, Account!profile, Account!goods
    <3> QED BY <3>3 DEF Serves, Account!Next
  <2> QED BY <2>1, <2>2, <2>4, <2>5, <2>6, <2>7, <2>8 DEF Revises
<1> QED BY <1>2

\* The put of a lesson; the freeze it has spent is gone already, and is counted now.
LEMMA LessonServes ==
    ASSUME row \in Row, row' \in Row, NEW p, Earns(p), row' = Merge(row, p),
           Goods' \in Settings,
           Goods = Goods' \/ Goods = [Goods' EXCEPT !.freezes = @ + 1]
    PROVE  Serves
<1>m. row' = [xp |-> IF "xp" \in DOMAIN p THEN p["xp"] ELSE row.xp,
              level |-> IF "level" \in DOMAIN p THEN p["level"] ELSE row.level,
              lingots |-> IF "lingots" \in DOMAIN p THEN p["lingots"] ELSE row.lingots,
              status |-> IF "status" \in DOMAIN p THEN p["status"] ELSE row.status,
              history |-> IF "history" \in DOMAIN p THEN p["history"] ELSE row.history,
              registered |-> IF "registered" \in DOMAIN p THEN p["registered"]
                             ELSE row.registered]
  BY MergeRow
<1>1. /\ row # None /\ row' # None /\ Holder = row /\ Holder' = row'
  BY NoneIsNothing DEF Holder
<1>2. p = [xp |-> row.xp + Gain, level |-> LevelFor(row.xp + Gain), lingots |-> row.lingots + Gain]
  BY DEF Earns
<1>3. /\ DOMAIN p = {"xp", "level", "lingots"}
      /\ p["xp"] = row.xp + Gain /\ p["lingots"] = row.lingots + Gain
  BY <1>2
<1>4. /\ row'.lingots = row.lingots + Gain /\ row'.xp = row.xp + Gain
      /\ row'.status = row.status /\ row'.registered = row.registered
  BY <1>3, <1>m
<1>5. row.status # "banned" BY DEF Earns
<1>6. /\ Goods.owned = Goods'.owned /\ Goods.unlocked = Goods'.unlocked
      /\ \/ Goods'.freezes = Goods.freezes
         \/ Goods.freezes > 0 /\ Goods'.freezes = Goods.freezes - 1
  <2>1. Goods'.freezes \in Nat BY DEF Settings
  <2>2. CASE Goods = Goods' BY <2>2
  <2>3. CASE Goods = [Goods' EXCEPT !.freezes = @ + 1]
    <3>1. /\ Goods.owned = Goods'.owned /\ Goods.unlocked = Goods'.unlocked
          /\ Goods.freezes = Goods'.freezes + 1
      BY <2>3 DEF Settings
    <3> QED BY <3>1, <2>1
  <2> QED BY <2>2, <2>3
<1>7. Account!Study
  BY <1>1, <1>4, <1>5, <1>6 DEF Account!Study, Account!profile
<1> QED BY <1>7 DEF Serves, Account!Next

LEMMA RegistrationServes ==
    ASSUME row \in Row, row' \in Row, NEW p, Registers(p), row' = Merge(row, p), Goods' = Goods
    PROVE  Serves
<1>m. row' = [xp |-> IF "xp" \in DOMAIN p THEN p["xp"] ELSE row.xp,
              level |-> IF "level" \in DOMAIN p THEN p["level"] ELSE row.level,
              lingots |-> IF "lingots" \in DOMAIN p THEN p["lingots"] ELSE row.lingots,
              status |-> IF "status" \in DOMAIN p THEN p["status"] ELSE row.status,
              history |-> IF "history" \in DOMAIN p THEN p["history"] ELSE row.history,
              registered |-> IF "registered" \in DOMAIN p THEN p["registered"]
                             ELSE row.registered]
  BY MergeRow
<1>1. /\ row # None /\ row' # None /\ Holder = row /\ Holder' = row'
  BY NoneIsNothing DEF Holder
<1>2. ~row.registered /\ DOMAIN p = {"registered"} /\ p["registered"] = TRUE BY DEF Registers
<1>3. /\ row'.lingots = row.lingots /\ row'.xp = row.xp
      /\ row'.status = row.status /\ row'.registered = TRUE
  BY <1>2, <1>m
<1>4. Account!Claim
  BY <1>1, <1>2, <1>3 DEF Account!Claim, Account!goods
<1> QED BY <1>4 DEF Serves, Account!Next

\* The put of the price: from now on the ware counts as delivered.
LEMMA SaleServes ==
    ASSUME row \in Row, row' \in Row, settings \in Settings, NEW k, Sells(k),
           row' = Merge(row, k.patch),
           Goods = settings, Goods' = Merge(settings, k.update)
    PROVE  Serves
<1>m. row' = [xp |-> IF "xp" \in DOMAIN k.patch THEN k.patch["xp"] ELSE row.xp,
              level |-> IF "level" \in DOMAIN k.patch THEN k.patch["level"] ELSE row.level,
              lingots |-> IF "lingots" \in DOMAIN k.patch THEN k.patch["lingots"] ELSE row.lingots,
              status |-> IF "status" \in DOMAIN k.patch THEN k.patch["status"] ELSE row.status,
              history |-> IF "history" \in DOMAIN k.patch THEN k.patch["history"] ELSE row.history,
              registered |-> IF "registered" \in DOMAIN k.patch THEN k.patch["registered"]
                             ELSE row.registered]
  BY MergeRow
<1> DEFINE i == k.ware
<1>1. /\ row # None /\ row' # None /\ Holder = row /\ Holder' = row'
  BY NoneIsNothing DEF Holder
<1>2. /\ i \in Wares /\ ~Owned(settings, i) /\ row.status # "banned" /\ row.lingots >= Price[i]
      /\ k.patch = [lingots |-> row.lingots - Price[i]] /\ k.update = With(settings, i)
  BY DEF Sells
<1>3. DOMAIN k.patch = {"lingots"} /\ k.patch["lingots"] = row.lingots - Price[i] BY <1>2
<1>4. /\ row'.lingots = row.lingots - Price[i] /\ row'.xp = row.xp
      /\ row'.status = row.status /\ row'.registered = row.registered
  BY <1>3, <1>m
<1> DEFINE u == k.update
<1>5. /\ Goods'.owned = (IF "owned" \in DOMAIN u THEN u["owned"] ELSE settings.owned)
      /\ Goods'.freezes = (IF "freezes" \in DOMAIN u THEN u["freezes"] ELSE settings.freezes)
      /\ Goods'.unlocked = (IF "unlocked" \in DOMAIN u THEN u["unlocked"] ELSE settings.unlocked)
  BY MergeSettings
<1>6. CASE i = Freeze
  <2>1. /\ DOMAIN u = {"owned", "freezes"}
        /\ u["owned"] = settings.owned /\ u["freezes"] = settings.freezes + 1
    BY <1>2, <1>6 DEF With
  <2>2. /\ Goods'.owned = Goods.owned /\ Goods'.freezes = Goods.freezes + 1
        /\ Goods'.unlocked = Goods.unlocked
    BY <1>5, <2>1
  <2>3. Account!Buy(i)
    BY <1>1, <1>2, <1>4, <1>6, <2>2 DEF Account!Buy, Account!profile
  <2> QED BY <2>3, <1>2 DEF Serves, Account!Next, Wares
<1>7. CASE i # Freeze
  <2>1. /\ DOMAIN u = {"owned", "freezes"}
        /\ u["owned"] = settings.owned \cup {i} /\ u["freezes"] = settings.freezes
    BY <1>2, <1>7 DEF With
  <2>2. /\ Goods'.owned = Goods.owned \cup {i} /\ Goods'.freezes = Goods.freezes
        /\ Goods'.unlocked = Goods.unlocked
    BY <1>5, <2>1
  <2>3. i \notin Goods.owned BY <1>2 DEF Owned
  <2>4. Account!Buy(i)
    BY <1>1, <1>2, <1>4, <1>7, <2>2, <2>3 DEF Account!Buy, Account!profile
  <2> QED BY <2>4, <1>2 DEF Serves, Account!Next, Wares
<1> QED BY <1>6, <1>7

\* The put of settings that add atoms, or leave all there is.
LEMMA RewriteServes ==
    ASSUME row = None \/ row \in Row, row' = row, settings \in Settings, NEW u, Rewrites(u),
           Goods = settings, Goods' = Merge(settings, u)
    PROVE  Serves
<1>1. Holder' = Holder BY DEF Holder
<1>2. /\ Goods'.owned = (IF "owned" \in DOMAIN u THEN u["owned"] ELSE settings.owned)
      /\ Goods'.freezes = (IF "freezes" \in DOMAIN u THEN u["freezes"] ELSE settings.freezes)
      /\ Goods'.unlocked = (IF "unlocked" \in DOMAIN u THEN u["unlocked"] ELSE settings.unlocked)
  BY MergeSettings
<1>3. CASE Admitted /\ \E atoms \in SUBSET Atom : u = [unlocked |-> settings.unlocked \cup atoms]
  <2>1. PICK atoms \in SUBSET Atom : u = [unlocked |-> settings.unlocked \cup atoms] BY <1>3
  <2>2. DOMAIN u = {"unlocked"} /\ u["unlocked"] = settings.unlocked \cup atoms BY <2>1
  <2>3. /\ Goods'.owned = Goods.owned /\ Goods'.freezes = Goods.freezes
        /\ Goods'.unlocked = Goods.unlocked \cup atoms
    BY <1>2, <2>2
  <2>4. Holder.status # "banned" BY <1>3 DEF Admitted, Holder, Placeholder
  <2>5. Account!UnlockAtoms(atoms)
    BY <1>1, <2>3, <2>4 DEF Account!UnlockAtoms, Account!profile
  <2> QED BY <2>5 DEF Serves, Account!Next
<1>4. CASE u = [unlocked |-> settings.unlocked]
  <2>1. DOMAIN u = {"unlocked"} /\ u["unlocked"] = settings.unlocked BY <1>4
  <2>2. /\ Goods'.owned = Goods.owned /\ Goods'.freezes = Goods.freezes
        /\ Goods'.unlocked = Goods.unlocked
    BY <1>2, <2>1
  <2> QED BY <1>1, <2>2 DEF Serves, Account!account
<1>5. CASE u = Elsewhere
  <2>1. DOMAIN u = {} BY <1>5 DEF Elsewhere
  <2>2. /\ Goods'.owned = Goods.owned /\ Goods'.freezes = Goods.freezes
        /\ Goods'.unlocked = Goods.unlocked
    BY <1>2, <2>1
  <2> QED BY <1>1, <2>2 DEF Serves, Account!account
<1> QED BY <1>3, <1>4, <1>5 DEF Rewrites

LEMMA ClosingServes ==
    ASSUME row # None, row' = None, Goods' = NoSettings
    PROVE  Serves
<1>1. Holder' = Placeholder BY DEF Holder
<1>2. /\ Placeholder.registered = FALSE /\ Placeholder.status = "active"
      /\ Placeholder.xp = 0 /\ Placeholder.lingots = 0
  BY DEF Placeholder
<1>3. NoSettings.owned = {} /\ NoSettings.freezes = 0 /\ NoSettings.unlocked = {}
  BY DEF NoSettings
<1>4. Account!Close BY <1>1, <1>2, <1>3 DEF Account!Close, Account!Fresh
<1> QED BY <1>4 DEF Serves, Account!Next

LEMMA OpeningServes ==
    ASSUME row = None, row' = Placeholder, Placeholder # None, Goods' = Goods
    PROVE  Serves
<1>1. Holder = Placeholder /\ Holder' = Placeholder BY DEF Holder
<1>2. Account!Open BY <1>1 DEF Account!Open, Account!goods
<1> QED BY <1>2 DEF Serves, Account!Next

LEMMA SameItems ==
    ASSUME NEW w, row' = row, settings' = settings, NEW k, k = call'[w], Serving(k)
    PROVE  Serving(call[w])'
BY DEF Serving, Revises, Registers, Earns, Sells, Rewrites, Spends, Admitted

\* A request begins: nothing is delivered.
LEMMA BeginServes ==
    ASSUME NEW w, Worker = {w}, DOMAIN call = Worker, Serving(call[w]), NEW e, NEW l,
           Begin(w, e, l), Serving(Merge(Blank, l)),
           Merge(Blank, l).pc # "deleteSettings",
           Merge(Blank, l).ware = None \/ Merge(Blank, l).pc \in {"buyRow", "buySettings"},
           Merge(Blank, l).update = None \/ Merge(Blank, l).pc # "put"
    PROVE  Serving(call[w])' /\ Serves
<1>1. /\ call[w].pc = "idle" /\ call'[w] = Merge(Blank, l)
      /\ row' = row /\ settings' = settings
  BY DEF Begin, At
<1>2. call[w].ware = None BY <1>1 DEF Serving
<1>3. Goods = settings /\ Goods' = settings
  BY <1>1, <1>2, GoodsOfOne DEF Delivered
<1>4. Serves BY <1>1, <1>3, Quiet
<1>5. Serving(call[w])' BY <1>1, SameItems
<1> QED BY <1>4, <1>5

\* Every request begins as the invariant has it.
LEMMA BeginnersServe ==
    ASSUME NEW w, Worker = {w}, RowInv, Serving(call[w]),
           \/ \E n \in Amount : AwardXp(w, n) \/ AdjustLingots(w, n)
           \/ BanUser(w) \/ UnbanUser(w) \/ ResetProgress(w) \/ UpdateProfile(w)
           \/ Register(w) \/ Boot(w)
           \/ \E status \in {"active", "banned"} : SetStatus(w, status)
           \/ \E missed \in BOOLEAN : Lesson(w, missed)
           \/ \E atoms \in SUBSET Atom : Unlock(w, atoms)
           \/ PatchLearning(w) \/ PatchSettings(w)
           \/ \E i \in Wares : BuyReadSettings(w, i) \/ BuyReadRow(w, i)
           \/ Delete(w) \/ Touch(w) \/ ClaimQuest(w)
    PROVE  Serving(call[w])' /\ Serves
<1>d. DOMAIN call = Worker BY DEF RowInv
<1>1. ASSUME NEW e, NEW p, Begin(w, e, Update(p)), Revises(p)
      PROVE  Serving(call[w])' /\ Serves
  <2> DEFINE l == [pc |-> "merge", patch |-> p]
             k == Merge(Blank, l)
  <2>1. /\ k.pc = "merge" /\ k.patch = p /\ k.base = None /\ k.update = None /\ k.ware = None
    BY DEF Merge, Blank
  <2>2. Begin(w, e, l) BY <1>1 DEF Update
  <2> HIDE DEF l
  <2>3. Serving(k) BY <1>1, <2>1 DEF Serving
  <2> QED BY <1>d, <2>1, <2>2, <2>3, BeginServes
<1>2. ASSUME NEW e, NEW pc \in {"put", "freeze"}, NEW p,
             Begin(w, e, [pc |-> pc, base |-> row, patch |-> p]), row # None,
             Earns(p) \/ (pc = "put" /\ (Revises(p) \/ Registers(p)))
      PROVE  Serving(call[w])' /\ Serves
  <2> DEFINE l == [pc |-> pc, base |-> row, patch |-> p]
             k == Merge(Blank, l)
  <2>1. /\ k.pc = pc /\ k.base = row /\ k.patch = p /\ k.update = None /\ k.ware = None
    BY DEF Merge, Blank
  <2>2. Begin(w, e, l) BY <1>2
  <2> HIDE DEF l
  <2>3. Serving(k) BY <1>2, <2>1 DEF Serving
  <2> QED BY <1>d, <2>1, <2>2, <2>3, BeginServes
<1>3. ASSUME NEW e, NEW u, Begin(w, e, [pc |-> "mergeSettings", update |-> u]), Rewrites(u)
      PROVE  Serving(call[w])' /\ Serves
  <2> DEFINE l == [pc |-> "mergeSettings", update |-> u]
             k == Merge(Blank, l)
  <2>1. k.pc = "mergeSettings" /\ k.update = u /\ k.base = None /\ k.ware = None
    BY DEF Merge, Blank
  <2>2. Begin(w, e, l) BY <1>3
  <2> HIDE DEF l
  <2>3. Serving(k) BY <1>3, <2>1 DEF Serving
  <2> QED BY <1>d, <2>1, <2>2, <2>3, BeginServes
<1>4. ASSUME NEW i \in Wares, BuyReadSettings(w, i)
      PROVE  Serving(call[w])' /\ Serves
  <2> DEFINE l == [pc |-> "buyRow", read |-> settings, ware |-> i]
             k == Merge(Blank, l)
  <2>1. k.pc = "buyRow" /\ k.read = settings /\ k.ware = i
    BY DEF Merge, Blank
  <2>2. Begin(w, "buy", l) /\ Admitted BY <1>4 DEF BuyReadSettings
  <2> HIDE DEF l
  <2>3. Serving(k) BY <2>1, <2>2 DEF Serving
  <2> QED BY <1>d, <2>1, <2>2, <2>3, BeginServes
<1>5. ASSUME NEW i \in Wares, BuyReadRow(w, i)
      PROVE  Serving(call[w])' /\ Serves
  <2> DEFINE n == IF row = None THEN 0 ELSE row.lingots
             l == [pc |-> "buySettings", ware |-> i, purse |-> n]
             k == Merge(Blank, l)
  <2>1. k.pc = "buySettings" /\ k.ware = i /\ k.purse = n
    BY DEF Merge, Blank
  <2>2. Begin(w, "buy", l) /\ Admitted BY <1>5 DEF BuyReadRow
  <2> HIDE DEF l
  <2>3. Serving(k) BY <2>1, <2>2 DEF Serving
  <2> QED BY <1>d, <2>1, <2>2, <2>3, BeginServes
<1>6. ASSUME NEW e, NEW pc, Begin(w, e, [pc |-> pc]),
             (pc = "deleteRow" /\ row # None) \/ (pc = "create" /\ row = None)
      PROVE  Serving(call[w])' /\ Serves
  <2> DEFINE l == [pc |-> pc]
             k == Merge(Blank, l)
  <2>1. k.pc = pc /\ k.ware = None
    BY DEF Merge, Blank
  <2>2. Begin(w, e, l) BY <1>6
  <2> HIDE DEF l
  <2>3. Serving(k) BY <1>6, <2>1 DEF Serving
  <2> QED BY <1>6, <1>d, <2>1, <2>2, <2>3, BeginServes
<1>7. ASSUME NEW n \in Amount, AwardXp(w, n) PROVE Serving(call[w])' /\ Serves
  <2>1. Revises(XpPatch(NonNegative(row.xp + n))) BY DEF Revises
  <2> QED BY <1>1, <1>7, <2>1 DEF AwardXp
<1>8. ASSUME NEW n \in Amount, AdjustLingots(w, n) PROVE Serving(call[w])' /\ Serves
  <2>1. Revises([lingots |-> NonNegative(row.lingots + n)]) BY DEF Revises
  <2> QED BY <1>1, <1>8, <2>1 DEF AdjustLingots
<1>9. CASE BanUser(w)
  <2>1. Revises([status |-> "banned", history |-> Capped(Append(row.history, "open"))])
    BY DEF Revises
  <2> QED BY <1>1, <1>9, <2>1 DEF BanUser
<1>10. CASE UnbanUser(w)
  <2>1. Revises([status |-> "active", history |-> Closed(row.history)]) BY DEF Revises
  <2> QED BY <1>1, <1>10, <2>1 DEF UnbanUser
<1>11. CASE ResetProgress(w)
  <2>1. Revises([xp |-> 0, level |-> 1, lingots |-> 0]) BY DEF Revises
  <2> QED BY <1>1, <1>11, <2>1 DEF ResetProgress
<1>12. CASE UpdateProfile(w)
  <2>1. Revises(Elsewhere) BY DEF Revises
  <2> QED BY <1>1, <1>12, <2>1 DEF UpdateProfile
<1>13. CASE Register(w)
  <2>1. ~row.registered => Registers([registered |-> TRUE]) BY DEF Registers
  <2> QED BY <1>2, <1>13, <2>1 DEF Register
<1>14. CASE Boot(w)
  <2>1. Revises(Elsewhere) BY DEF Revises
  <2> QED BY <1>2, <1>14, <2>1 DEF Boot
<1>15. ASSUME NEW b \in {"active", "banned"}, SetStatus(w, b) PROVE Serving(call[w])' /\ Serves
  <2>1. Revises([status |-> b]) BY DEF Revises
  <2> QED BY <1>1, <1>15, <2>1 DEF SetStatus
<1>16. ASSUME NEW missed \in BOOLEAN, Lesson(w, missed) PROVE Serving(call[w])' /\ Serves
  <2> DEFINE p == [xp |-> row.xp + Gain, level |-> LevelFor(row.xp + Gain),
                   lingots |-> row.lingots + Gain]
             pc == IF missed THEN "freeze" ELSE "put"
  <2>1. row # None /\ row.status # "banned" BY <1>16 DEF Lesson, Admitted
  <2>2. Earns(p) BY <2>1 DEF Earns
  <2>3. pc \in {"put", "freeze"} OBVIOUS
  <2>4. Begin(w, "lesson", [pc |-> pc, base |-> row, patch |-> p]) BY <1>16 DEF Lesson
  <2> HIDE DEF p, pc
  <2> QED BY <1>2, <2>1, <2>2, <2>3, <2>4
<1>17. ASSUME NEW atoms \in SUBSET Atom, Unlock(w, atoms) PROVE Serving(call[w])' /\ Serves
  <2> DEFINE u == [unlocked |-> settings.unlocked \cup atoms]
  <2>1. Rewrites(u) BY <1>17 DEF Unlock, Rewrites
  <2>2. Begin(w, "unlock", [pc |-> "mergeSettings", update |-> u]) BY <1>17 DEF Unlock
  <2> HIDE DEF u
  <2> QED BY <1>3, <2>1, <2>2
<1>18. CASE PatchLearning(w)
  <2> DEFINE u == [unlocked |-> settings.unlocked]
  <2>1. Rewrites(u) BY DEF Rewrites
  <2>2. Begin(w, "learning", [pc |-> "mergeSettings", update |-> u])
    BY <1>18 DEF PatchLearning
  <2> HIDE DEF u
  <2> QED BY <1>3, <2>1, <2>2
<1>19. CASE PatchSettings(w)
  <2>1. Rewrites(Elsewhere) BY DEF Rewrites
  <2>2. Begin(w, "settings", [pc |-> "mergeSettings", update |-> Elsewhere])
    BY <1>19 DEF PatchSettings
  <2> QED BY <1>3, <2>1, <2>2
<1>20. CASE Delete(w) BY <1>6, <1>20 DEF Delete
<1>21. CASE Touch(w) BY <1>6, <1>21 DEF Touch
<1>22. CASE ClaimQuest(w)
  <2> DEFINE l == [pc |-> "reward"]
             k == Merge(Blank, l)
  <2>1. k.pc = "reward" /\ k.ware = None /\ k.base = None /\ k.update = None
    BY DEF Merge, Blank
  <2>2. Begin(w, "quest", l) /\ Admitted BY <1>22 DEF ClaimQuest
  <2> HIDE DEF l
  <2>3. Serving(k) BY <2>1, <2>2 DEF Serving
  <2> QED BY <1>d, <2>1, <2>2, <2>3, BeginServes
<1> QED BY <1>4, <1>5, <1>7, <1>8, <1>9, <1>10, <1>11, <1>12, <1>13, <1>14, <1>15, <1>16,
           <1>17, <1>18, <1>19, <1>20, <1>21, <1>22

LEMMA IdleServes ==
    ASSUME NEW w, call'[w] = Blank
    PROVE  Serving(call[w])'
<1>1. call'[w].pc = "idle" /\ call'[w].ware = None BY DEF Blank
<1> QED BY <1>1 DEF Serving

\* The handler goes on, and nothing is written.
LEMMA GoingOn ==
    ASSUME NEW w, Worker = {w}, row' = row, settings' = settings,
           NEW k, k = call'[w], Serving(k),
           Delivered(k, settings) = Delivered(call[w], settings)
    PROVE  Serving(call[w])' /\ Serves
<1>1. Goods' = Goods BY GoodsOfOne
<1> QED BY <1>1, SameItems, Quiet

LEMMA BuyDecideServes ==
    ASSUME NEW w, Worker = {w}, RowInv, Serving(call[w]), BuyDecide(w)
    PROVE  Serving(call[w])' /\ Serves
<1> DEFINE n == IF row = None THEN 0 ELSE row.lingots
           i == call[w].ware
           k == [Blank EXCEPT !.pc = "merge", !.ware = i, !.patch = [lingots |-> n - Price[i]],
                              !.update = With(settings, i)]
<1>1. /\ call[w].pc \in {"buyRow", "buySettings"}
      /\ Decide(w, settings, n) /\ row' = row /\ settings' = settings
  BY DEF BuyDecide, Serving, At
<1>2. Admitted /\ i \in Wares BY <1>1 DEF Serving
<1>3. Delivered(call[w], settings) = settings BY <1>1 DEF Delivered
<1>4. w \in DOMAIN call BY DEF RowInv
<1>5. CASE Owned(settings, i) \/ n < Price[i]
  <2>1. call'[w] = Blank BY <1>1, <1>4, <1>5 DEF Decide
  <2>2. Blank.pc = "idle" /\ Blank.ware = None BY DEF Blank
  <2>3. Serving(Blank) BY <2>2 DEF Serving
  <2>4. Delivered(Blank, settings) = settings BY <2>2 DEF Delivered
  <2> QED BY <1>1, <1>3, <2>1, <2>3, <2>4, GoingOn
<1>6. CASE ~(Owned(settings, i) \/ n < Price[i])
  <2>1. call'[w] = k BY <1>1, <1>4, <1>6 DEF Decide
  <2>2. /\ k.pc = "merge" /\ k.ware = i /\ k.base = None
        /\ k.patch = [lingots |-> n - Price[i]] /\ k.update = With(settings, i)
    BY DEF Blank
  <2>3. Price[i] \in Nat \ {0} BY <1>2, UserRowConstants
  <2>4. row # None BY <1>6, <2>3
  <2>5. n \in Nat /\ n = row.lingots BY <2>4 DEF RowInv, Sound, Row
  <2>6. n >= Price[i] BY <1>6, <2>3, <2>5
  <2>7. row.status # "banned" BY <1>2, <2>4 DEF Admitted
  <2> HIDE DEF k
  <2>8. Sells(k) BY <1>2, <1>6, <2>2, <2>4, <2>5, <2>6, <2>7 DEF Sells
  <2>9. k.ware # None BY <1>2, <2>2, NoneIsNothing
  <2>10. Serving(k) BY <2>2, <2>8, <2>9 DEF Serving
  <2>11. Delivered(k, settings) = settings BY <2>2 DEF Delivered
  <2> QED BY <1>1, <1>3, <2>1, <2>10, <2>11, GoingOn
<1> QED BY <1>5, <1>6

LEMMA SpendFreezeServes ==
    ASSUME NEW w, Worker = {w}, RowInv, Serving(call[w]), SpendFreeze(w)
    PROVE  Serving(call[w])' /\ Serves
<1> DEFINE c == call[w]
           k == [c EXCEPT
                    !.pc = IF settings.freezes > 0 THEN "mergeSettings" ELSE "put",
                    !.update = IF settings.freezes > 0
                               THEN [owned |-> settings.owned, freezes |-> settings.freezes - 1]
                               ELSE None]
<1>1. /\ c.pc = "freeze" /\ row' = row /\ settings' = settings /\ DOMAIN c = Locals
      /\ w \in DOMAIN call
  BY DEF SpendFreeze, At, RowInv, Good
<1>2. k = call'[w] BY <1>1 DEF SpendFreeze
<1>3. c.ware = None /\ row # None /\ c.base = row /\ c.update = None /\ Earns(c.patch)
  BY <1>1 DEF Serving
<1>4. /\ k.ware = None /\ k.base = row /\ k.patch = c.patch
      /\ k.pc = IF settings.freezes > 0 THEN "mergeSettings" ELSE "put"
      /\ k.update = IF settings.freezes > 0
                    THEN [owned |-> settings.owned, freezes |-> settings.freezes - 1] ELSE None
  BY <1>1, <1>3 DEF Locals
<1>5. Delivered(c, settings) = settings BY <1>1 DEF Delivered
<1> HIDE DEF k
<1>6. Delivered(k, settings) = settings BY <1>4 DEF Delivered
<1>7. Serving(k) BY <1>3, <1>4 DEF Serving, Spends
<1> QED BY <1>1, <1>2, <1>5, <1>6, <1>7, GoingOn

LEMMA RewardQuestServes ==
    ASSUME NEW w, Worker = {w}, RowInv, Serving(call[w]), RewardQuest(w)
    PROVE  Serving(call[w])' /\ Serves
<1> DEFINE c == call[w]
           p == [xp |-> row.xp + Gain, lingots |-> row.lingots + Gain]
           k == [c EXCEPT !.pc = "merge", !.patch = p]
<1>1. /\ c.pc = "reward" /\ row' = row /\ settings' = settings /\ DOMAIN c = Locals
      /\ w \in DOMAIN call
  BY DEF RewardQuest, At, RowInv, Good
<1>2. c.ware = None /\ c.base = None /\ c.update = None /\ Admitted BY <1>1 DEF Serving
<1>3. Delivered(c, settings) = settings BY <1>1 DEF Delivered
<1>4. CASE row = None
  <2>1. call'[w] = Blank BY <1>1, <1>4 DEF RewardQuest
  <2>2. Blank.pc = "idle" /\ Blank.ware = None BY DEF Blank
  <2>3. Serving(Blank) BY <2>2 DEF Serving
  <2>4. Delivered(Blank, settings) = settings BY <2>2 DEF Delivered
  <2> QED BY <1>1, <1>3, <2>1, <2>3, <2>4, GoingOn
<1>5. CASE row # None
  <2>1. k = call'[w] BY <1>1, <1>5 DEF RewardQuest
  <2>2. Revises(p) BY <1>2, <1>5 DEF Revises, Admitted
  <2> HIDE DEF p
  <2>3. /\ k.pc = "merge" /\ k.patch = p
        /\ k.ware = None /\ k.base = None /\ k.update = None
    BY <1>1, <1>2 DEF Locals
  <2> HIDE DEF k
  <2>4. Serving(k) BY <2>2, <2>3 DEF Serving
  <2>5. Delivered(k, settings) = settings BY <2>3 DEF Delivered
  <2> QED BY <1>1, <1>3, <2>1, <2>4, <2>5, GoingOn
<1> QED BY <1>4, <1>5

LEMMA ReadRowServes ==
    ASSUME NEW w, Worker = {w}, RowInv, Serving(call[w]), ReadRow(w)
    PROVE  Serving(call[w])' /\ Serves
<1> DEFINE c == call[w]
           k == [c EXCEPT !.pc = "put", !.base = row]
<1>1. /\ c.pc = "merge" /\ row' = row /\ settings' = settings /\ DOMAIN c = Locals
      /\ w \in DOMAIN call
  BY DEF ReadRow, At, RowInv, Good
<1>2. Delivered(c, settings) = settings BY <1>1 DEF Delivered
<1>3. CASE row = None
  <2>1. call'[w] = Blank BY <1>1, <1>3 DEF ReadRow
  <2>2. Blank.pc = "idle" /\ Blank.ware = None BY DEF Blank
  <2>3. Serving(Blank) BY <2>2 DEF Serving
  <2>4. Delivered(Blank, settings) = settings BY <2>2 DEF Delivered
  <2> QED BY <1>1, <1>2, <2>1, <2>3, <2>4, GoingOn
<1>4. CASE row # None
  <2>1. k = call'[w] BY <1>1, <1>4 DEF ReadRow
  <2>2. /\ k.ware = c.ware /\ k.base = row /\ k.patch = c.patch /\ k.pc = "put"
        /\ k.update = c.update
    BY <1>1 DEF Locals
  <2> HIDE DEF k
  <2>3. CASE c.ware = None
    <3>1. c.update = None /\ Revises(c.patch) BY <1>1, <2>3 DEF Serving
    <3>2. Serving(k) BY <1>4, <2>2, <2>3, <3>1 DEF Serving
    <3>3. Delivered(k, settings) = settings BY <2>2, <3>1 DEF Delivered
    <3> QED BY <1>1, <1>2, <2>1, <3>2, <3>3, GoingOn
  <2>4. CASE c.ware # None
    <3>1. Sells(c) BY <1>1, <2>4 DEF Serving
    <3>2. Sells(k) BY <2>2, <3>1 DEF Sells
    <3>3. Serving(k) BY <1>4, <2>2, <2>4, <3>2 DEF Serving
    <3>4. Delivered(k, settings) = settings BY <2>2, <2>4 DEF Delivered
    <3> QED BY <1>1, <1>2, <2>1, <3>3, <3>4, GoingOn
  <2> QED BY <2>3, <2>4
<1> QED BY <1>3, <1>4

LEMMA ReadSettingsServes ==
    ASSUME NEW w, Worker = {w}, RowInv, Serving(call[w]), ReadSettings(w)
    PROVE  Serving(call[w])' /\ Serves
<1> DEFINE c == call[w]
           k == [c EXCEPT !.pc = "putSettings", !.read = settings]
<1>1. /\ c.pc = "mergeSettings" /\ row' = row /\ settings' = settings /\ DOMAIN c = Locals
      /\ w \in DOMAIN call
  BY DEF ReadSettings, At, RowInv, Good
<1>2. k = call'[w] BY <1>1 DEF ReadSettings
<1>3. /\ k.ware = c.ware /\ k.base = c.base /\ k.patch = c.patch /\ k.update = c.update
      /\ k.pc = "putSettings" /\ k.read = settings
  BY <1>1 DEF Locals
<1> HIDE DEF k
<1>4. Delivered(k, settings) = Delivered(c, settings) BY <1>1, <1>3 DEF Delivered
<1>5. \/ c.ware # None /\ c.base = None
      \/ c.ware = None /\ c.base = None /\ Rewrites(c.update)
      \/ c.ware = None /\ c.base # None /\ Spends(c)
  BY <1>1 DEF Serving
<1>6. Spends(c) => Spends(k) BY <1>3 DEF Spends
<1>7. Serving(k) BY <1>3, <1>5, <1>6 DEF Serving
<1> QED BY <1>1, <1>2, <1>4, <1>7, GoingOn

LEMMA PutRowServes ==
    ASSUME NEW w, Worker = {w}, RowInv, RowInv', Serving(call[w]), PutRow(w)
    PROVE  Serving(call[w])' /\ Serves
<1> DEFINE c == call[w]
<1>1. /\ c.pc = "put" /\ row' = Merge(row, c.patch) /\ settings' = settings
      /\ DOMAIN c = Locals /\ w \in DOMAIN call /\ c.base = row /\ row # None
  BY DEF PutRow, At, RowInv, Good, Serving
<1>2. row \in Row /\ settings \in Settings BY <1>1 DEF RowInv, Sound
<1>3. row' \in Row
  <2>1. SafePatch(c.patch) BY <1>1 DEF RowInv, Good
  <2>2. Sound(row) BY <1>1 DEF RowInv
  <2> QED BY <1>1, <2>1, <2>2 DEF SafePatch, Sound
<1>4. CASE c.ware = None
  <2>1. call'[w] = Blank BY <1>1, <1>4 DEF PutRow
  <2>2. Serving(call[w])' BY <2>1, IdleServes
  <2>3. Goods' = settings BY <1>1, <2>1, GoodsOfOne DEF Delivered, Blank
  <2>4. Goods = Delivered(c, settings) BY GoodsOfOne
  <2>5. CASE Earns(c.patch)
    <3>1. Goods = Goods' \/ Goods = [Goods' EXCEPT !.freezes = @ + 1]
      BY <1>1, <2>3, <2>4 DEF Delivered
    <3> QED BY <1>1, <1>2, <1>3, <2>2, <2>3, <2>5, <3>1, LessonServes
  <2>6. ASSUME c.update = None PROVE Goods' = Goods
    BY <1>1, <2>3, <2>4, <2>6 DEF Delivered
  <2>7. CASE c.update = None /\ Revises(c.patch)
    BY <1>1, <1>2, <1>3, <2>2, <2>6, <2>7, RevisionServes
  <2>8. CASE c.update = None /\ Registers(c.patch)
    BY <1>1, <1>2, <1>3, <2>2, <2>6, <2>8, RegistrationServes
  <2> QED BY <1>1, <1>4, <2>5, <2>7, <2>8 DEF Serving
<1>5. CASE c.ware # None
  <2> DEFINE k == [c EXCEPT !.pc = "mergeSettings", !.base = None]
  <2>1. call'[w] = k BY <1>1, <1>5 DEF PutRow
  <2>2. k.pc = "mergeSettings" /\ k.ware = c.ware /\ k.base = None /\ k.update = c.update
    BY <1>1 DEF Locals
  <2> HIDE DEF k
  <2>3. Serving(call[w])' BY <1>5, <2>1, <2>2 DEF Serving
  <2>4. Sells(c) BY <1>1, <1>5 DEF Serving
  <2>5. Goods = settings BY <1>1, <1>5, GoodsOfOne DEF Delivered
  <2>6. Goods' = Merge(settings, c.update)
    BY <1>1, <1>5, <2>1, <2>2, GoodsOfOne DEF Delivered
  <2> QED BY <1>1, <1>2, <1>3, <2>3, <2>4, <2>5, <2>6, SaleServes
<1> QED BY <1>4, <1>5

LEMMA PutSettingsServes ==
    ASSUME NEW w, Worker = {w}, RowInv, Serving(call[w]), PutSettings(w)
    PROVE  Serving(call[w])' /\ Serves
<1> DEFINE c == call[w]
           k == [c EXCEPT !.pc = "put"]
<1>1. /\ c.pc = "putSettings" /\ row' = row /\ settings' = Merge(settings, c.update)
      /\ DOMAIN c = Locals /\ w \in DOMAIN call
  BY DEF PutSettings, At, RowInv, Good, Serving
<1>2. settings \in Settings /\ (row = None \/ row \in Row) BY DEF RowInv, Sound
<1>3. ASSUME c.base = None
      PROVE  Serving(call[w])' /\ Goods' = Merge(settings, c.update)
  <2>1. call'[w] = Blank BY <1>1, <1>3 DEF PutSettings
  <2>2. Goods' = settings' BY <2>1, GoodsOfOne DEF Delivered, Blank
  <2> QED BY <1>1, <2>1, <2>2, IdleServes
<1>4. CASE c.ware # None /\ c.base = None
  <2>1. Goods = Merge(settings, c.update) BY <1>1, <1>4, GoodsOfOne DEF Delivered
  <2> QED BY <1>1, <1>3, <1>4, <2>1, Quiet
<1>5. CASE c.ware = None /\ c.base = None /\ Rewrites(c.update)
  <2>1. Goods = settings BY <1>1, <1>5, GoodsOfOne DEF Delivered
  <2> QED BY <1>1, <1>2, <1>3, <1>5, <2>1, RewriteServes
<1>6. CASE c.ware = None /\ c.base # None /\ Spends(c)
  <2> DEFINE u == c.update
  <2>1. k = call'[w] BY <1>1, <1>6 DEF PutSettings
  <2>2. /\ k.pc = "put" /\ k.ware = None /\ k.base = c.base /\ k.patch = c.patch
        /\ k.update = u
    BY <1>1, <1>6 DEF Locals
  <2> HIDE DEF k
  <2>3. /\ row # None /\ c.base = row /\ Earns(c.patch)
        /\ u = [owned |-> settings.owned, freezes |-> settings.freezes - 1]
    BY <1>6 DEF Spends
  <2>4. /\ settings.owned \in SUBSET Item /\ settings.freezes \in Nat BY <1>2 DEF Settings
  <2>5. u # None BY <2>3, <2>4, NoneIsNothing
  <2>6. /\ DOMAIN u = {"owned", "freezes"}
        /\ u["owned"] = settings.owned /\ u["freezes"] = settings.freezes - 1
    BY <2>3
  <2>7. settings' = [owned |-> settings.owned, freezes |-> settings.freezes - 1,
                     unlocked |-> settings.unlocked]
    <3>1. settings' = [owned |-> IF "owned" \in DOMAIN u THEN u["owned"] ELSE settings.owned,
              freezes |-> IF "freezes" \in DOMAIN u THEN u["freezes"] ELSE settings.freezes,
              unlocked |-> IF "unlocked" \in DOMAIN u THEN u["unlocked"] ELSE settings.unlocked]
      BY <1>1, <1>2, MergeSettings
    <3> QED BY <2>6, <3>1
  <2>8. Goods' = [settings' EXCEPT !.freezes = @ + 1]
    BY <2>1, <2>2, <2>5, GoodsOfOne DEF Delivered
  <2>9. Goods' = settings BY <2>4, <2>7, <2>8, <1>2 DEF Settings
  <2>10. Goods = settings BY <1>1, <1>6, GoodsOfOne DEF Delivered
  <2>11. Serves BY <1>1, <2>9, <2>10, Quiet
  <2>12. Serving(call[w])'
    <3>1. row' # None /\ call'[w].base = row' /\ call'[w].pc = "put" /\ call'[w].ware = None
      BY <1>1, <2>1, <2>2, <2>3
    <3>2. Earns(call[w].patch)' BY <1>1, <2>1, <2>2, <2>3 DEF Earns
    <3> QED BY <3>1, <3>2 DEF Serving
  <2> QED BY <2>11, <2>12
<1> QED BY <1>1, <1>4, <1>5, <1>6 DEF Serving

LEMMA DeletionServes ==
    ASSUME NEW w, Worker = {w}, RowInv, Serving(call[w]), DeleteRow(w) \/ DeleteSettings(w)
    PROVE  Serving(call[w])' /\ Serves
<1>d. w \in DOMAIN call /\ DOMAIN call[w] = Locals BY DEF RowInv, Good
<1>1. CASE DeleteRow(w)
  <2>1. call[w].pc = "deleteRow" /\ row' = None BY <1>1 DEF DeleteRow, At
  <2>2. row # None /\ call[w].ware = None BY <2>1 DEF Serving
  <2>3. call'[w].pc = "deleteSettings" /\ call'[w].ware = None
    BY <1>d, <1>1, <2>2 DEF DeleteRow, Locals
  <2>4. Goods' = NoSettings BY <2>3, GoodsOfOne DEF Delivered
  <2>5. Serving(call[w])' BY <2>1, <2>3 DEF Serving
  <2> QED BY <2>1, <2>2, <2>4, <2>5, ClosingServes
<1>2. CASE DeleteSettings(w)
  <2>1. /\ call[w].pc = "deleteSettings" /\ row' = row /\ settings' = NoSettings
        /\ call'[w] = Blank
    BY <1>d, <1>2 DEF DeleteSettings, At
  <2>2. Goods = NoSettings BY <2>1, GoodsOfOne DEF Delivered
  <2>3. Goods' = NoSettings BY <2>1, GoodsOfOne DEF Delivered, Blank
  <2> QED BY <2>1, <2>2, <2>3, IdleServes, Quiet
<1> QED BY <1>1, <1>2

LEMMA CreateUserServes ==
    ASSUME NEW w, Worker = {w}, RowInv, Serving(call[w]), CreateUser(w)
    PROVE  Serving(call[w])' /\ Serves
<1>1. /\ call[w].pc = "create" /\ call'[w] = Blank /\ settings' = settings
      /\ row' = IF row = None THEN Placeholder ELSE row
  BY DEF CreateUser, At, RowInv
<1>2. row = None BY <1>1 DEF Serving
<1>3. Placeholder # None BY PlaceholderSound, NoneIsNothing DEF Sound
<1>4. Goods = settings
  <2>1. call[w].ware = None BY <1>1 DEF Serving
  <2> QED BY <1>1, <2>1, GoodsOfOne DEF Delivered
<1>5. Goods' = settings BY <1>1, GoodsOfOne DEF Delivered, Blank
<1> QED BY <1>1, <1>2, <1>3, <1>4, <1>5, IdleServes, OpeningServes

LEMMA StepServes ==
    ASSUME NEW w, Worker = {w}, MaxCrash = 0, RowInv, RowInv', Serving(call[w]), [Next]_vars
    PROVE  Serving(call[w])' /\ Serves
<1>1. CASE UNCHANGED vars
  <2>1. row' = row /\ settings' = settings /\ call' = call BY <1>1 DEF vars
  <2>2. Goods' = Goods BY <2>1, GoodsOfOne
  <2>3. Serving(call[w])' BY <2>1, SameItems
  <2> QED BY <2>1, <2>2, <2>3, Quiet
<1>2. CASE Next
  <2>1. \A v \in Worker : v = w OBVIOUS
  <2>2. ~Crash(w) BY DEF Crash, RowInv
  <2> DEFINE Begins ==
           \/ \E n \in Amount : AwardXp(w, n) \/ AdjustLingots(w, n)
           \/ BanUser(w) \/ UnbanUser(w) \/ ResetProgress(w) \/ UpdateProfile(w)
           \/ Register(w) \/ Boot(w)
           \/ \E status \in {"active", "banned"} : SetStatus(w, status)
           \/ \E missed \in BOOLEAN : Lesson(w, missed)
           \/ \E atoms \in SUBSET Atom : Unlock(w, atoms)
           \/ PatchLearning(w) \/ PatchSettings(w)
           \/ \E i \in Wares : BuyReadSettings(w, i) \/ BuyReadRow(w, i)
           \/ Delete(w) \/ Touch(w) \/ ClaimQuest(w)
  <2>3. \/ Begins
        \/ BuyDecide(w) \/ SpendFreeze(w) \/ ReadRow(w) \/ PutRow(w) \/ ReadSettings(w)
        \/ PutSettings(w) \/ DeleteRow(w) \/ DeleteSettings(w) \/ CreateUser(w)
        \/ RewardQuest(w)
    BY <1>2, <2>1, <2>2 DEF Next
  <2>4. Begins => Serving(call[w])' /\ Serves BY BeginnersServe
  <2> HIDE DEF Begins
  <2> QED BY <2>3, <2>4, BuyDecideServes, SpendFreezeServes, ReadRowServes, PutRowServes,
             ReadSettingsServes, PutSettingsServes, DeletionServes, CreateUserServes,
             RewardQuestServes
<1> QED BY <1>1, <1>2

(* Served by one worker that does not die, each request is one step of the *)
(* account, and a purchase, a bridged lesson and a deletion, which write   *)
(* two items, are one too: the row and the settings implement Ledger.      *)
THEOREM ServedInOrderHolds ==
    ASSUME NEW w, Worker = {w}, MaxCrash = 0
    PROVE  Spec => ServedInOrder
<1>1. Init => Serving(call[w]) /\ Account!Init
  <2> SUFFICES ASSUME Init PROVE Serving(call[w]) /\ Account!Init
    OBVIOUS
  <2>1. call[w] = Blank /\ row = Placeholder /\ settings = NoSettings BY DEF Init
  <2>2. Serving(call[w]) BY <2>1 DEF Serving, Blank
  <2>3. Goods = NoSettings BY <2>1, GoodsOfOne DEF Delivered, Blank
  <2>4. Placeholder # None BY PlaceholderSound, NoneIsNothing DEF Sound
  <2>5. Holder = Placeholder BY <2>1, <2>4 DEF Holder
  <2>6. Account!Init
    BY <2>1, <2>3, <2>4, <2>5 DEF Account!Init, Account!Fresh, Placeholder, NoSettings
  <2> QED BY <2>2, <2>6
<1>2. RowInv /\ RowInv' /\ Serving(call[w]) /\ [Next]_vars
        => Serving(call[w])' /\ [Account!Next]_(Account!account)
  BY StepServes DEF Serves
<1> QED BY <1>1, <1>2, RowInvHolds, PTL DEF Spec, ServedInOrder, Account!Spec
=============================================================================
