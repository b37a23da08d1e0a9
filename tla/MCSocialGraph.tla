--------------------------- MODULE MCSocialGraph ---------------------------
(* Instances of SocialGraph and Leaderboards for TLC.  The groups of       *)
(* endpoints share no item, so a behaviour is about one of them: about is  *)
(* the group.  Two pairs of users share no item either, so friends and     *)
(* threads are about one pair.                                             *)
EXTENDS SocialGraph, Leaderboards, TLC

CONSTANT Acquainted

VARIABLE about

MCInit == Init /\ BoardsInit /\ about \in {"friends", "invites", "threads", "boards"}

OnePair == \A w \in Worker : UNION call'[w].on \subseteq Acquainted

GraphNext ==
    \E w \in Worker :
        \/ about = "friends" /\ FriendsNext(w) /\ OnePair
        \/ about = "invites" /\ InvitesNext(w)
        \/ about = "threads" /\ ThreadsNext(w) /\ OnePair
        \/ Work(w)

MCNext ==
    /\ \/ GraphNext /\ UNCHANGED boardVars
       \/ about = "boards" /\ BoardsNext /\ UNCHANGED vars
    /\ UNCHANGED about

MCSpec == MCInit /\ [][MCNext]_<<vars, boardVars, about>>

Leagues == <<2>>

Symmetric ==
    UNION {Permutations(S) : S \in {Worker, Code, Acquainted}}
=============================================================================
