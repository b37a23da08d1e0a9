------------------------------ MODULE MCQuests ------------------------------
(* The instance of Quests for TLC: requests that overlap across the end of *)
(* a day, or requests one after another over the end of a week.            *)
EXTENDS Quests, TLC

\* What a behaviour is about. A user whose requests overlap stays where the days
\* end first.
VARIABLE about

MCInit ==
    /\ Init
    /\ about \in {"overlap", "days"}
    /\ about = "overlap" => \A z \in Zone : z <= zone

Alone(r) == \A s \in Worker \ {r} : At(s, "idle")

\* The quests of a slot and type differ in nothing else: one is bumped and claimed,
\* whatever others are listed and minted beside it.
Overlap(r) ==
    /\ Bump(r) \/ Claim(r) \/ List(r) \/ Refresh(r) \/ Crash(r)
    /\ call'[r].quest \in {None} \cup {q \in QuestId : KindOf(q) = "daily" /\ q[2] = 1}

InTurn(r) == Alone(r) /\ (Bump(r) \/ Claim(r) \/ List(r) \/ Boot(r))

MCNext ==
    /\ \/ about = "overlap" /\ \E r \in Worker : Overlap(r)
       \/ about = "overlap" /\ now < 1 /\ Tick
       \/ about = "days" /\ \E r \in Worker : InTurn(r)
       \/ about = "days" /\ Tick
    /\ UNCHANGED about

MCSpec == MCInit /\ [][MCNext]_<<vars, about>>

OneEach == [k \in Kind |-> {1}]
TwoDailies == [k \in Kind |-> IF k = "daily" THEN {1, 2} ELSE {1}]

\* The clock ticks every half hour.
HalfHours == [k \in Kind |-> 48]

\* A day of two ticks in a week of four, and zones a day apart.
DayAndWeek == [k \in Kind |-> IF k = "daily" THEN 2 ELSE 4]
ADayApart == {-1, 1}

Workers == Permutations(Worker)
=============================================================================
