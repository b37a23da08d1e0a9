------------------------------ MODULE Content ------------------------------
(***************************************************************************)
(* Decks with their votes and tags, stories, and the subscriptions of the  *)
(* users to them.  A deck or a story is read, changed in memory and put    *)
(* back whole; what refers to it lies in other tables.                     *)
(***************************************************************************)
EXTENDS Table

CONSTANTS
    User,
    Card,
    Tag

VARIABLES
    gone,      \* history: the keys that were deleted, and not made anew since
    unclaimed  \* history: the decks that had no author to begin with

vars == <<tableVars, gone, unclaimed>>

-----------------------------------------------------------------------------
(* Items.  Decks and stories are named by the request that created them; 0 *)
(* was there before.  A request's subjects are the keys it is about.       *)

Id == 0..MaxRequests

Deck(d) == <<"DECK", d>>
DeckVote(d, u) == <<"DECK_VOTE", d, u>>
TagRow(g) == <<"TAG", g>>
DeckTag(d, g) == <<"DECK_TAG", d, g>>
Story(s) == <<"STORY", s>>
Sub(u, kind, i) == <<"SUB", u, kind, i>>

Nobody == "nobody"  \* the author of an official deck

ASSUME SomeoneKnown == Nobody \notin User

\* A name that holds "my vocab" makes a deck a user's vocabulary.
NewDeck(u, vocab) == [author |-> u, status |-> "draft", cards |-> {}, vocab |-> vocab]

Arg(w, i) == call[w].arg[i]
Actor(w) == Arg(w, 1)
Subject(w) == Arg(w, 2)

\* The record with the fields of the patch.
Patched(record, patch) == Updated(record, [set |-> patch, add |-> <<>>])

History == <<gone, unclaimed>>

-----------------------------------------------------------------------------
(* Decks.  A request has its user, the deck, the tags it asks for -- {} to *)
(* leave them alone, {T} to set them to T --, its patch, and, once it has  *)
(* read the deck, the manifest it will put.                                *)

Asked(w) == UNION Arg(w, 3)
Patch(w) == Arg(w, 4)
Manifest(w) == Arg(w, 5)

AboutDeck(d, tags) == {Deck(d)} \cup {TagRow(g) : g \in UNION tags}

CreateDeck(w, u, tags) ==
    LET d == requests + 1
    IN  Begin(w, "create", AboutDeck(d, tags),
              <<u, d, tags, <<>>, NewDeck(u, FALSE)>>, "tags")

\* update_deck, and update_deck_status with the status for a patch.
UpdateDeck(w, u, d, patch, tags) ==
    Begin(w, "update", AboutDeck(d, tags), <<u, d, tags, patch>>, "read")

AdminUpdateDeckStatus(w, u, d, status) ==
    Begin(w, "approve", {Deck(d)}, <<u, d, {}, [status |-> status]>>, "read")

AddCardsToDeck(w, u, d, cards) ==
    Begin(w, "add", {Deck(d)}, <<u, d, {}, [cards |-> cards]>>, "read")

\* The first to update a deck without an author becomes its author.
PatchDeck(deck, u, patch) ==
    [Patched(deck, patch) EXCEPT !.author = IF @ = Nobody THEN u ELSE @]

\* The manifest a request puts, from the deck it reads.
ReadDeck(w) ==
    LET u == Actor(w)
        deck == items[Deck(Subject(w))]
        there == Has(Deck(Subject(w)))
    IN  \/ /\ At(w, "update", "read")
           /\ IF there /\ deck.author \in {u, Nobody}
              THEN Keep(w, PatchDeck(deck, u, Patch(w)), "tags")
              ELSE Answer(w)
        \/ /\ At(w, "approve", "read")
           /\ IF there THEN Keep(w, Patched(deck, Patch(w)), "upsert") ELSE Answer(w)
        \/ /\ At(w, "add", "read")
           /\ IF there /\ deck.author = u
              THEN Keep(w, [deck EXCEPT !.cards = @ \cup Patch(w).cards], "upsert")
              ELSE Answer(w)

\* A row without its slug cannot be read: the request raises.
TagThere(g) == Has(TagRow(g)) /\ "slug" \in DOMAIN items[TagRow(g)]

RealTags == {g \in Tag : TagThere(g)}

\* Every tag must be there before the deck is written.
ResolveTags(w) ==
    /\ At(w, "create", "tags") \/ At(w, "update", "tags")
    /\ IF Arg(w, 3) = {} THEN Goto(w, "upsert")
       ELSE IF Asked(w) \subseteq RealTags THEN Goto(w, "set")
       ELSE Answer(w)

\* set_deck_tags asks again, and writes the difference to what is set.
SetDeckTags(w) ==
    LET d == Subject(w)
        current == {g \in Tag : Has(DeckTag(d, g))}
    IN  \/ /\ At(w, "create", "set") \/ At(w, "update", "set")
           /\ IF Asked(w) \subseteq RealTags THEN Goto(w, "difference") ELSE Answer(w)
        \/ /\ At(w, "create", "difference") \/ At(w, "update", "difference")
           /\ Proceed(w, Batch({Put(DeckTag(d, g), TRUE) : g \in Asked(w) \ current}
                               \cup {Delete(DeckTag(d, g)) : g \in current \ Asked(w)}),
                      "upsert")

\* Mutant: the author is the one who calls.
PutAsCaller(w) ==
    LET key == Deck(Subject(w))
    IN  /\ \E op \in {"create", "update", "approve", "add"} : At(w, op, "upsert")
        /\ Plan(w, <<{Put(key, [Manifest(w) EXCEPT !.author = Actor(w)])}>>)

\* upsert_deck reads the deck once more, for the author of a manifest without one,
\* and puts the manifest whether the deck is still there or not.
UpsertDeck(w) ==
    LET key == Deck(Subject(w))
    IN  /\ \E op \in {"create", "update", "approve", "add"} : At(w, op, "upsert")
        /\ Plan(w, <<{Put(key, [Manifest(w) EXCEPT !.author =
                         IF @ = Nobody /\ Has(key) THEN items[key].author ELSE @])}>>)

VoteOnDeck(w, u, d, add) == Begin(w, "vote", {Deck(d)}, <<u, d, add>>, "read")

AdminDeleteDeck(w, u, d) == Begin(w, "delete", {Deck(d)}, <<u, d>>, "read")

VotesOf(d) == {u \in User : Has(DeckVote(d, u))}

\* Mutant: the votes stay.
DeleteDeckOnly(d) == <<>>

CascadeVotes(d) == Batch({Delete(DeckVote(d, u)) : u \in VotesOf(d)})

\* A vote is put if it is not there; a deleted deck takes its votes with it.
CountOrDelete(w) ==
    LET d == Subject(w)
        vote == DeckVote(d, Actor(w))
    IN  \/ /\ At(w, "vote", "read")
           /\ IF Has(Deck(d))
              THEN Plan(w, <<{IF Arg(w, 3) THEN PutNew(vote, TRUE) ELSE Delete(vote)}>>)
              ELSE Answer(w)
        \/ /\ At(w, "delete", "read")
           /\ IF Has(Deck(d)) THEN Proceed(w, <<{Delete(Deck(d))}>>, "votes")
                              ELSE Answer(w)
        \/ At(w, "delete", "votes") /\ Plan(w, CascadeVotes(d))

-----------------------------------------------------------------------------
(* Tags.                                                                   *)

WholeTag == [slug |-> TRUE, color |-> "none"]

CreateTag(w, g) == Begin(w, "newTag", {TagRow(g)}, <<g>>, "put")
UpdateTag(w, g) == Begin(w, "recolor", {TagRow(g)}, <<g>>, "read")
DeleteTag(w, g) == Begin(w, "dropTag", {TagRow(g)}, <<g>>, "read")

\* Mutant: an update does not look whether the tag is there.
RecolorUnread(g) == <<{Update(TagRow(g), [color |-> "red"], <<>>)}>>

Recolor(g) == IF TagThere(g) THEN <<{Update(TagRow(g), [color |-> "red"], <<>>)}>>
                             ELSE <<>>

\* The row of the tag goes first, then those of the decks that have it.  An update
\* writes the attributes of its patch, whether or not the row is still there.
WriteTag(w) ==
    LET g == Arg(w, 1)
    IN  \/ At(w, "newTag", "put") /\ Plan(w, <<{PutNew(TagRow(g), WholeTag)}>>)
        \/ At(w, "recolor", "read") /\ Plan(w, Recolor(g))
        \/ /\ At(w, "dropTag", "read")
           /\ IF TagThere(g) THEN Proceed(w, <<{Delete(TagRow(g))}>>, "mirrors")
                             ELSE Answer(w)
        \/ /\ At(w, "dropTag", "mirrors")
           /\ Plan(w, Batch({Delete(DeckTag(d, g)) :
                                d \in {e \in Id : Has(DeckTag(e, g))}}))

-----------------------------------------------------------------------------
(* Stories.                                                                *)

CreateStory(w, u) ==
    LET s == requests + 1
    IN  Begin(w, "story", {Story(s)}, <<u, s>>, "put")

UpdateStory(w, u, s, patch) == Begin(w, "edit", {Story(s)}, <<u, s, patch>>, "read")

AdminUpdateStory(w, u, s, patch) ==
    Begin(w, "review", {Story(s)}, <<u, s, patch>>, "read")

AdminDeleteStory(w, u, s) == Begin(w, "remove", {Story(s)}, <<u, s>>, "read")

MergeStory(key, patch) == Put(key, Patched(items[key], patch))

\* The author, or an administrator; then the story is read again, merged, and put
\* whole.
WriteStory(w) ==
    LET key == Story(Subject(w))
    IN  \/ /\ At(w, "story", "put")
           /\ Plan(w, <<{Put(key, [author |-> Actor(w), status |-> "draft"])}>>)
        \/ /\ At(w, "edit", "read")
           /\ IF Has(key) /\ items[key].author = Actor(w) THEN Goto(w, "merge")
                                                          ELSE Answer(w)
        \/ /\ At(w, "review", "read")
           /\ IF Has(key) THEN Goto(w, "merge") ELSE Answer(w)
        \/ /\ At(w, "edit", "merge") \/ At(w, "review", "merge")
           /\ IF Has(key) THEN Plan(w, <<{MergeStory(key, Arg(w, 3))}>>) ELSE Answer(w)
        \/ /\ At(w, "remove", "read")
           /\ IF Has(key) THEN Plan(w, <<{Delete(key)}>>) ELSE Answer(w)

-----------------------------------------------------------------------------
(* Subscriptions, and the vocabulary deck, which subscribes its user.      *)

AddSubscription(w, u, kind, i) ==
    Begin(w, "subscribe", {Sub(u, kind, i)}, <<kind, u, i>>, "validate")
UpdateSubscription(w, u, kind, i) ==
    Begin(w, "adjust", {Sub(u, kind, i)}, <<kind, u, i>>, "read")
RemoveSubscription(w, u, kind, i) ==
    Begin(w, "unsubscribe", {Sub(u, kind, i)}, <<kind, u, i>>, "go")

ValidateSubscription(kind, i) ==
    CASE kind = "deck" -> Has(Deck(i))
      [] kind = "story" -> Has(Story(i)) /\ items[Story(i)].status = "published"
      [] kind = "addon" -> TRUE

\* Mutant: settings are put, subscribed or not.
PutSettings(key) == <<{Put(key, "disabled")}>>

\* Settings are read and put back whole.
UpdateSettings(key) == IF Has(key) THEN <<{Put(key, "disabled")}>> ELSE <<>>

WriteSubscription(w) ==
    LET key == Sub(Arg(w, 2), Arg(w, 1), Arg(w, 3))
    IN  \/ /\ At(w, "subscribe", "validate")
           /\ IF ValidateSubscription(Arg(w, 1), Arg(w, 3))
              THEN Plan(w, <<{PutNew(key, "enabled")}>>)
              ELSE Answer(w)
        \/ At(w, "adjust", "read") /\ Plan(w, UpdateSettings(key))
        \/ At(w, "unsubscribe", "go") /\ Plan(w, <<{Delete(key)}>>)

Vocab(u) == <<"vocab", u>>  \* the subject of what is asked for a vocabulary

GetMyVocabDeck(w, u) == Begin(w, "vocab", {Vocab(u), Deck(requests + 1)}, <<Vocab(u)>>, "list")

VocabDecks(u) ==
    {d \in Id : Has(Deck(d)) /\ items[Deck(d)].author = u /\ items[Deck(d)].vocab}

CreateVocab(w, u) ==
    LET d == call[w].id
    IN  Plan(w, <<{Put(Deck(d), [NewDeck(u, TRUE) EXCEPT !.status = "published"])},
                  {PutNew(Sub(u, "deck", d), "enabled")}>>)

\* Mutant: only a vocabulary one is subscribed to is found again.
ListSubscribed(u) == {d \in VocabDecks(u) : Has(Sub(u, "deck", d))}

ListVocab(u) == VocabDecks(u)

\* The first of the listed decks that is still there.
MyVocab(w) ==
    LET u == Arg(w, 1)[2]
        listed == Arg(w, Len(call[w].arg))
    IN  \/ At(w, "vocab", "list") /\ Keep(w, ListVocab(u), "deck")
        \/ /\ At(w, "vocab", "deck")
           /\ \/ listed = {} /\ CreateVocab(w, u)
              \/ \E d \in listed :
                    IF Has(Deck(d)) THEN Plan(w, <<{PutNew(Sub(u, "deck", d), "enabled")}>>)
                                    ELSE Keep(w, listed \ {d}, "deck")

-----------------------------------------------------------------------------

Statuses == {[status |-> "draft"], [status |-> "published"]}
Patches == {<<>>, [status |-> "draft"]} \cup {[cards |-> cards] : cards \in SUBSET Card}

Existing(Key(_)) == {i \in Id : Has(Key(i))}

DecksNext(w) ==
    \/ \E u \in User, d \in Existing(Deck) :
          \/ \E patch \in Patches : UpdateDeck(w, u, d, patch, {})
          \/ AddCardsToDeck(w, u, d, Card)
          \/ VoteOnDeck(w, u, d, TRUE) \/ VoteOnDeck(w, u, d, FALSE)
    \/ \E u \in User : CreateDeck(w, u, {})
    \/ CountOrDelete(w)

ApprovalNext(w) ==
    \E u \in User, d \in Existing(Deck) :
        AdminUpdateDeckStatus(w, u, d, "published") \/ AdminDeleteDeck(w, u, d)

UpsertNext(w) == ReadDeck(w) \/ ResolveTags(w) \/ SetDeckTags(w) \/ UpsertDeck(w)

TagsNext(w) ==
    \/ \E u \in User, tags \in SUBSET Tag :
          \/ CreateDeck(w, u, {tags})
          \/ \E d \in Existing(Deck) : UpdateDeck(w, u, d, <<>>, {tags})
    \/ \E g \in Tag : CreateTag(w, g) \/ UpdateTag(w, g) \/ DeleteTag(w, g)
    \/ WriteTag(w)

StoriesNext(w) ==
    \/ \E u \in User : CreateStory(w, u)
    \/ \E u \in User, s \in Existing(Story) :
          \/ \E patch \in Statuses : UpdateStory(w, u, s, patch) \/ AdminUpdateStory(w, u, s, patch)
          \/ AdminDeleteStory(w, u, s)
    \/ WriteStory(w)

Content == {<<"addon", 0>>} \cup {<<"deck", d>> : d \in Existing(Deck)}
                            \cup {<<"story", s>> : s \in Existing(Story)}

SubscriptionsNext(w) ==
    \/ \E u \in User, c \in Content :
          AddSubscription(w, u, c[1], c[2]) \/ UpdateSubscription(w, u, c[1], c[2])
    \/ \E u \in User, c \in {"deck", "story", "addon"}, i \in Id :
          Has(Sub(u, c, i)) /\ RemoveSubscription(w, u, c, i)
    \/ WriteSubscription(w)

VocabNext(w) ==
    \/ \E u \in User : GetMyVocabDeck(w, u) \/ CreateDeck(w, u, {})
    \/ \E u \in User, d \in Existing(Deck) : AdminDeleteDeck(w, u, d)
    \/ MyVocab(w)

\* A deck with or without an author, a published story, and no tag.
Init ==
    /\ \E author \in User \cup {Nobody}, writer \in User :
          /\ TableInit([k \in {Deck(0), Story(0)} |->
                IF k = Deck(0) THEN [NewDeck(author, FALSE) EXCEPT !.cards = Card]
                               ELSE [author |-> writer, status |-> "published"]])
          /\ unclaimed = IF author = Nobody THEN {0} ELSE {}
    /\ gone = {}

\* The requests that make an item anew when it is not there.
Makes(w) == call[w].op \in {"newTag", "subscribe", "vocab"}

Work(w) ==
    /\ \/ /\ Write(w)
          /\ gone' = (gone \cup (DOMAIN items \ DOMAIN items'))
                        \ (IF Makes(w) THEN DOMAIN items' ELSE {})
       \/ Crash(w) /\ UNCHANGED gone
    /\ UNCHANGED unclaimed

ContentNext(w) ==
    /\ \/ DecksNext(w) \/ ApprovalNext(w) \/ UpsertNext(w)
       \/ TagsNext(w) \/ StoriesNext(w) \/ SubscriptionsNext(w) \/ VocabNext(w)
    /\ UNCHANGED History

Next == \E w \in Worker : ContentNext(w) \/ Work(w)

Spec == Init /\ [][Next]_vars

-----------------------------------------------------------------------------
(* Properties.                                                             *)

\* Items are whole; the row of a tag, which is the only one written attribute by
\* attribute, unless an update of it overlapped with a deletion (update_tag).
TypeOK ==
    /\ \A d \in Id : Has(Deck(d)) =>
          items[Deck(d)] \in [author : User \cup {Nobody}, status : {"draft", "published"},
                              cards : SUBSET Card, vocab : BOOLEAN]
    /\ \A s \in Id : Has(Story(s)) =>
          items[Story(s)] \in [author : User, status : {"draft", "published"}]
    /\ \A g \in Tag : Has(TagRow(g)) /\ "slug" \notin DOMAIN items[TagRow(g)] =>
          TagRow(g) \in shared

\* A deck that had no author can change hands, when two users claimed it at once.
AuthorStays(d) ==
    items'[Deck(d)].author # items[Deck(d)].author =>
        /\ d \in unclaimed
        /\ items[Deck(d)].author = Nobody \/ Deck(d) \in shared

\* Cards go by an update that names them, or by a put that another has overtaken.
CardsStay(d) ==
    ~(items[Deck(d)].cards \subseteq items'[Deck(d)].cards) =>
        \/ Deck(d) \in shared
        \/ \E w \in Worker :
              call[w].op = "update" /\ Subject(w) = d /\ "cards" \in DOMAIN Patch(w)

\* Every write of a deck puts the whole deck, and what it was not asked to change
\* survives: the author through every put of a stale manifest, by the author or an
\* administrator, and the cards through a change of status or of tags, unless two
\* requests were served at once (update_deck, upsert_deck, add_cards_to_deck).
UpdatesKeepTheRest ==
    [][\A d \in Id : Has(Deck(d)) /\ Has(Deck(d))' => AuthorStays(d) /\ CardsStay(d)]_vars

\* What was deleted is not brought back by a put that was prepared before, unless
\* the two overlapped: a deck, a story, a tag, a subscription (upsert_deck,
\* update_story, update_tag, update_settings).
GoneStaysGone ==
    \A k \in gone \cap DOMAIN items :
        k[1] \in {"DECK", "STORY", "TAG", "SUB"} => k \in shared

\* A vote has its deck, and a deck's tag is a tag: a deletion takes along what
\* refers to it, unless a request overlapped or the deletion ended in the middle
\* (delete_deck, delete_tag, set_deck_tags).
NoOrphans ==
    /\ \A d \in Id : AtRest(Deck(d)) /\ Orderly(Deck(d)) /\ VotesOf(d) # {} => Has(Deck(d))
    /\ \A d \in Id, g \in Tag :
          AtRest(TagRow(g)) /\ Orderly(TagRow(g)) /\ Has(DeckTag(d, g)) => Has(TagRow(g))

\* A user has one vocabulary, unless it was asked for twice at once: one that was
\* made before its asking ended in the middle is found again.  Beside it there may
\* be one that was deleted and brought back, by a put of two requests for it at
\* once (get_my_vocab_deck, upsert_deck).
OneVocabulary ==
    \A u \in User : Vocab(u) \notin shared =>
        Cardinality({d \in VocabDecks(u) : Deck(d) \notin shared}) <= 1
=============================================================================
