---------------------------- MODULE MCCommunity ----------------------------
(* Instances of Community, and of the two pairs of repositories, for TLC.  *)
(* Forum and addons share no item, and a reply touches no attribute of its *)
(* thread that views, edits and votes of the thread do, and a new thread   *)
(* is nobody's until it is there: so a behaviour is about one of the four, *)
(* or calls some methods of both repositories.                             *)
EXTENDS Community, SocialStores, ForumStores, TLC

VARIABLE about

mcVars == <<vars, storeVars, forumVars, about>>

MCInit ==
    /\ Init /\ StoresInit /\ ForumInit
    /\ about \in {"creation", "threads", "posts", "addons", "edges", "requests", "blocks",
                 "codes", "talk", "thread calls", "post calls", "addon calls"}

CommunityNext ==
    \E w \in Worker :
        \/ about = "creation" /\ CreateNext(w)
        \/ about = "threads" /\ (ThreadsNext(w) \/ VotesNext(w))
        \/ about = "posts" /\ (PostsNext(w) \/ VotesNext(w))
        \/ about = "addons" /\ AddonsNext(w)
        \/ Work(w)

SocialNext ==
    \/ about = "edges" /\ EdgesNext
    \/ about = "requests" /\ RequestsNext
    \/ about = "blocks" /\ BlocksNext
    \/ about = "codes" /\ CodesNext
    \/ about = "talk" /\ TalkNext

CallsNext ==
    \/ about = "thread calls" /\ ThreadCalls
    \/ about = "post calls" /\ PostCalls
    \/ about = "addon calls" /\ AddonCalls

MCNext ==
    /\ \/ CommunityNext /\ UNCHANGED <<storeVars, forumVars>>
       \/ SocialNext /\ UNCHANGED <<vars, forumVars>>
       \/ CallsNext /\ UNCHANGED <<vars, storeVars>>
    /\ UNCHANGED about

MCSpec == MCInit /\ [][MCNext]_mcVars

Symmetric == Permutations(Worker) \cup Permutations(User)
=============================================================================
