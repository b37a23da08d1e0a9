------------------------------- MODULE Ledger -------------------------------
(***************************************************************************)
(* What the writers of UserRow promise when requests come one at a time:   *)
(* each is a single step on an account, and takes effect whole.            *)
(***************************************************************************)
EXTENDS Integers

CONSTANTS Item, Freeze, Price, Atom, Amount, Gain

VARIABLES
    known,       \* the user has an account
    registered,  \* and has picked a name
    banned,
    xp,
    lingots,
    owned,       \* shop items
    freezes,     \* streak freezes in stock
    unlocked     \* atoms

account == <<known, registered, banned, xp, lingots, owned, freezes, unlocked>>
profile == <<known, registered, banned>>
goods == <<owned, freezes, unlocked>>

Fresh ==
    /\ registered = FALSE /\ banned = FALSE
    /\ xp = 0 /\ lingots = 0
    /\ owned = {} /\ freezes = 0 /\ unlocked = {}

Init == known = TRUE /\ Fresh

AtLeastZero(n) == IF n < 0 THEN 0 ELSE n

Award(n) ==
    /\ known
    /\ xp' = AtLeastZero(xp + n)
    /\ UNCHANGED <<profile, lingots, goods>>

Adjust(n) ==
    /\ known
    /\ lingots' = AtLeastZero(lingots + n)
    /\ UNCHANGED <<profile, xp, goods>>

SetBan(b) ==
    /\ known
    /\ banned' = b
    /\ UNCHANGED <<known, registered, xp, lingots, goods>>

Claim ==
    /\ known /\ ~registered
    /\ registered' = TRUE
    /\ UNCHANGED <<known, banned, xp, lingots, goods>>

Reset ==
    /\ known
    /\ xp' = 0 /\ lingots' = 0
    /\ UNCHANGED <<profile, goods>>

\* A lesson earns, and spends a freeze if there is one and it is needed.
Study ==
    /\ known /\ ~banned
    /\ xp' = xp + Gain /\ lingots' = lingots + Gain
    /\ freezes' \in {freezes} \cup (IF freezes > 0 THEN {freezes - 1} ELSE {})
    /\ UNCHANGED <<profile, owned, unlocked>>

\* A quest earns.
Reward ==
    /\ known /\ ~banned
    /\ xp' = xp + Gain /\ lingots' = lingots + Gain
    /\ UNCHANGED <<profile, goods>>

\* Goods are handed out as they are paid, for what they cost.
Buy(i) ==
    /\ known /\ ~banned
    /\ lingots >= Price[i]
    /\ lingots' = lingots - Price[i]
    /\ IF i = Freeze
       THEN freezes' = freezes + 1 /\ UNCHANGED owned
       ELSE i \notin owned /\ owned' = owned \cup {i} /\ UNCHANGED freezes
    /\ UNCHANGED <<profile, xp, unlocked>>

\* Unlocks of a user whose account is gone are kept all the same.
UnlockAtoms(atoms) ==
    /\ ~banned
    /\ unlocked' = unlocked \cup atoms
    /\ UNCHANGED <<profile, xp, lingots, owned, freezes>>

Close == known /\ known' = FALSE /\ Fresh'

Open ==
    /\ ~known
    /\ known' = TRUE
    /\ UNCHANGED <<registered, banned, xp, lingots, goods>>

Next ==
    \/ \E n \in Amount : Award(n) \/ Adjust(n)
    \/ \E b \in BOOLEAN : SetBan(b)
    \/ Claim \/ Reset \/ Study \/ Reward \/ Close \/ Open
    \/ \E i \in Item \cup {Freeze} : Buy(i)
    \/ \E atoms \in SUBSET Atom : UnlockAtoms(atoms)

Spec == Init /\ [][Next]_account

=============================================================================
