----------------------------- MODULE MCContent -----------------------------
(* Instances of Content, of its two pairs of repositories, and of Accounts *)
(* for TLC.  What a deck is made of, its tags, what can be subscribed to   *)
(* and the vocabulary are apart in the code, but for the deck itself, and  *)
(* accounts, lessons and lists are apart from all of them: a behaviour is  *)
(* about one of the seven, or calls some methods of both repositories.     *)
EXTENDS Content, Accounts, LibraryStores, LessonHistory, Listings, TLC

VARIABLE about

\* Only for what becomes of a deck does it matter who has made it.
ContentInit ==
    /\ Init
    /\ about \in {"decks", "tags", "library", "vocabulary"}
    /\ (items[Deck(0)].author = items[Story(0)].author) <=> (about # "decks")
    /\ cache = NobodyKnown /\ raced = {}

MCInit ==
    /\ \/ ContentInit
       \/ AccountsInit /\ about = "accounts" /\ gone = {} /\ unclaimed = {}
       \/ /\ about = "lessons" /\ gone = {} /\ unclaimed = {} /\ cache = NobodyKnown /\ raced = {}
          /\ TableInit(<<>>)
       \/ /\ TableInit(<<>>) /\ gone = {} /\ unclaimed = {} /\ cache = NobodyKnown /\ raced = {}
          /\ about \in {"deck calls", "tag calls", "story calls", "subscription calls", "lists"}
    /\ LibraryInit /\ sqlRows = <<>> /\ mixed = FALSE
    /\ ListingsInit /\ (stock = <<>> \/ about = "lists")

ContentSteps(w) ==
    /\ \/ /\ \/ about = "decks" /\ (DecksNext(w) \/ ApprovalNext(w) \/ UpsertNext(w))
             \/ about = "tags" /\ (TagsNext(w) \/ UpsertNext(w))
             \/ about = "library" /\ (StoriesNext(w) \/ SubscriptionsNext(w))
             \/ /\ about = "vocabulary"
                /\ \/ VocabNext(w) \/ UpsertNext(w) \/ CountOrDelete(w)
                   \/ \E u \in User, d \in Existing(Deck) : UpdateDeck(w, u, d, <<>>, {})
          /\ UNCHANGED History
       \/ about \notin {"accounts", "lessons"} /\ Work(w)
    /\ UNCHANGED <<cache, raced>>

LibraryCalls ==
    \/ about = "deck calls" /\ DeckCalls
    \/ about = "tag calls" /\ TagCalls
    \/ about = "story calls" /\ StoryCalls
    \/ about = "subscription calls" /\ SubscriptionCalls

MCNext ==
    /\ \/ /\ \/ \E w \in Worker : ContentSteps(w)
             \/ about = "accounts" /\ AccountsNext /\ UNCHANGED History
          /\ UNCHANGED <<libraryVars, sqlRows, mixed, listingVars>>
       \/ /\ about = "lessons" /\ HistoryNext
          /\ UNCHANGED <<History, cache, raced, libraryVars, listingVars>>
       \/ LibraryCalls /\ UNCHANGED <<vars, cache, raced, sqlRows, mixed, listingVars>>
       \/ /\ about = "lists" /\ ListingsNext
          /\ UNCHANGED <<vars, cache, raced, libraryVars, sqlRows, mixed>>
    /\ UNCHANGED about

MCSpec == MCInit /\ [][MCNext]_<<vars, cache, raced, libraryVars, sqlRows, mixed, listingVars, about>>

Symmetric ==
    Permutations(Worker) \cup Permutations(User) \cup Permutations(Identity)
        \cup Permutations(Lesson)
=============================================================================
