---------------------------- MODULE Leaderboards ----------------------------
(***************************************************************************)
(* The boards of the social page.  Another service adds up the XP of each  *)
(* user in a bucket, an item a user; a board is read from it in several    *)
(* queries, while the XP goes on changing.                                 *)
(***************************************************************************)
EXTENDS Naturals, Sequences, FiniteSets

CONSTANTS
    Player,     \* users, as numbers in the order of their user names
    Leaver,     \* those among them that may delete their accounts
    MaxXp,
    Threshold,  \* the least XP of each league but the first, ascending
    MaxEarned   \* how many times XP is added

ASSUME LeaderboardsConstants ==
    /\ Player \subseteq Nat /\ Leaver \subseteq Player /\ MaxXp \in Nat /\ MaxEarned \in Nat
    /\ IsFiniteSet(Player)
    /\ Threshold \in Seq(Nat)
    /\ \A i, j \in DOMAIN Threshold : i < j => Threshold[i] < Threshold[j]

VARIABLES
    xp,      \* the bucket: the XP of each player, 0 if there is no item
    window,  \* the XP of the last days, by the day rollups
    users,   \* the players whose user row is there
    board,   \* the request that is served
    earned,  \* how many times XP was added
    calm     \* history: nothing has changed since the request began

boardVars == <<xp, window, users, board, earned, calm>>

-----------------------------------------------------------------------------
(* Queries.                                                                *)

InBucket == {p \in Player : xp[p] > 0}

\* The index is sorted by XP; those with the same XP are in any order.
Descending(s) == \A i, j \in DOMAIN s : i < j => xp[s[i]] >= xp[s[j]]

Orders(S) ==
    {s \in [1..Cardinality(S) -> S] :
        /\ \A i, j \in DOMAIN s : i # j => s[i] # s[j]
        /\ Descending(s)}

TopN(n) ==
    LET upto(s) == SubSeq(s, 1, IF n < Len(s) THEN n ELSE Len(s))
    IN  {[i \in DOMAIN upto(s) |-> [user |-> s[i], xp |-> xp[s[i]]]] : s \in Orders(InBucket)}

\* Mutant: those with the same XP come first.
RankFromAtLeast(x) == 1 + Cardinality({p \in InBucket : xp[p] >= x})

RankForXp(x) == 1 + Cardinality({p \in InBucket : xp[p] > x})

\* [league, promotion_threshold, demotion_threshold], 0 for none.
LeagueForWeeklyXp(x) ==
    LET reached == {i \in DOMAIN Threshold : Threshold[i] <= x}
        n == Cardinality(reached)
    IN  [league |-> n + 1,
         promotion |-> IF n < Len(Threshold) THEN Threshold[n + 1] ELSE 0,
         demotion |-> IF n > 0 THEN Threshold[n] ELSE 0]

-----------------------------------------------------------------------------
(* A request for a board, or the spotlight, which is a board of three and  *)
(* the caller's league.  The queries run side by side, so each may be the  *)
(* first; the rank waits for the caller's own item.                        *)

NoBoard == [at |-> "idle", me |-> 0, offset |-> 0, limit |-> 0,
            left |-> {}, rows |-> <<>>, total |-> 0, mine |-> 0, rank |-> 0,
            league |-> LeagueForWeeklyXp(0), names |-> {}]

Reads(query) == board.at = "reading" /\ query \in board.left

Read(query, with) ==
    /\ board' = [with EXCEPT !.left = @ \ {query}]
    /\ UNCHANGED <<xp, window, users, earned, calm>>

GlobalBoard(me, limit, offset) ==
    /\ board.at \in {"idle", "answered"}
    /\ board' = [NoBoard EXCEPT !.at = "reading", !.me = me, !.limit = limit,
                    !.offset = offset, !.left = {"top", "size", "entry"}]
    /\ calm' = TRUE
    /\ UNCHANGED <<xp, window, users, earned>>

\* The league is that of the caller's XP, which is read before the board is.
LeagueSpotlight(me) ==
    /\ board.at \in {"idle", "answered"}
    /\ board' = [NoBoard EXCEPT !.at = "reading", !.me = me, !.limit = 3,
                    !.left = {"top", "size", "entry"},
                    !.league = LeagueForWeeklyXp(xp[me])]
    /\ calm' = TRUE
    /\ UNCHANGED <<xp, window, users, earned>>

ReadTop ==
    /\ Reads("top")
    /\ \E rows \in TopN(board.offset + board.limit) :
          Read("top", [board EXCEPT !.rows = rows])

ReadSize ==
    /\ Reads("size")
    /\ Read("size", [board EXCEPT !.total = Cardinality(InBucket)])

ReadEntry ==
    /\ Reads("entry")
    /\ Read("entry", [board EXCEPT !.mine = xp[board.me]])

\* The rank, once the three are read; then nobody is left to ask for but the names.
ReadRank ==
    /\ board.at = "reading" /\ board.left = {}
    /\ board' = [board EXCEPT !.at = "answered", !.names = users,
                    !.rank = IF board.mine > 0 THEN RankForXp(board.mine) ELSE 0]
    /\ UNCHANGED <<xp, window, users, earned, calm>>

\* The page: a player without a user row is left out, and keeps the rank.
Entries ==
    LET at == {i \in DOMAIN board.rows : i > board.offset /\ board.rows[i].user \in board.names}
    IN  {[user |-> board.rows[i].user, xp |-> board.rows[i].xp, rank |-> i] : i \in at}

-----------------------------------------------------------------------------
(* The board of one's friends is ranked here, by the day rollups.          *)

Before(p, q) == window[p] > window[q] \/ (window[p] = window[q] /\ p < q)

FriendsBoard(cohort) ==
    {[user |-> p, xp |-> window[p],
      rank |-> 1 + Cardinality({q \in cohort \cap users : Before(q, p)})] :
        p \in cohort \cap users}

-----------------------------------------------------------------------------

\* An attempt counts in the rollups at once and in the bucket later, if at all.
Earn(p) ==
    /\ earned < MaxEarned /\ window[p] < MaxXp
    /\ window' = [window EXCEPT ![p] = @ + 1]
    /\ earned' = earned + 1
    /\ UNCHANGED <<xp, users, board, calm>>

Publish(p) ==
    /\ xp[p] < window[p]
    /\ xp' = [xp EXCEPT ![p] = window[p]]
    /\ calm' = FALSE
    /\ UNCHANGED <<window, users, board, earned>>

\* delete_user leaves the items of the bucket.
LoseUser(p) ==
    /\ p \in users \cap Leaver
    /\ users' = users \ {p}
    /\ calm' = FALSE
    /\ UNCHANGED <<xp, window, board, earned>>

BoardsInit ==
    /\ xp = [p \in Player |-> 0]
    /\ window = [p \in Player |-> 0]
    /\ users = Player
    /\ board = NoBoard
    /\ earned = 0
    /\ calm = TRUE

BoardsNext ==
    \/ \E p \in Player : Earn(p) \/ Publish(p) \/ LoseUser(p)
    \/ \E me \in users, offset \in 0..1 : GlobalBoard(me, 2 - offset, offset)
    \/ \E me \in users : LeagueSpotlight(me)
    \/ ReadTop \/ ReadSize \/ ReadEntry \/ ReadRank

BoardsSpec == BoardsInit /\ [][BoardsNext]_boardVars

-----------------------------------------------------------------------------
(* Properties.                                                             *)

Among(ranked) ==
    /\ \A e, f \in ranked : e.rank < f.rank => e.xp >= f.xp
    /\ \A e, f \in ranked : e.rank = f.rank => e = f

\* The parts of an answer come from queries that know nothing of each other: the
\* page is ranked by position, the caller by a count, the league by a threshold.
\* They agree, if nothing changed meanwhile: the caller is shown first among those
\* with the same XP, behind all that have more, and in the league of the row that
\* is on the page.  The friends' board has no ties at all (_build_leaderboard,
\* _build_global_leaderboard, _build_league_spotlight, rank_for_xp).
BoardAgrees ==
    /\ \A cohort \in SUBSET Player : Among(FriendsBoard(cohort))
    /\ board.at = "answered" =>
          LET entries == Entries
              mine == {e \in entries : e.user = board.me}
          IN  /\ Among(entries)
              /\ calm =>
                    /\ \A e \in entries : e.rank <= board.total
                    /\ board.rank > 0 => \A e \in entries :
                          /\ e.rank < board.rank <=> e.xp > board.mine
                          /\ e.xp < board.mine => e.rank > board.rank
                    /\ \A e \in mine : board.limit = 3 =>
                          LET league == board.league
                          IN  /\ e.xp >= league.demotion
                              /\ league.promotion > 0 => e.xp < league.promotion
=============================================================================
