--------------------------- MODULE LibraryStores ---------------------------
(***************************************************************************)
(* The repositories of decks, tags, stories and subscriptions, in DynamoDB *)
(* and in SQLite, called side by side, one call at a time.  What DynamoDB  *)
(* writes is what Content writes, with the attributes the listings need;   *)
(* the tables of SQLite are sets of rows.                                  *)
(***************************************************************************)
EXTENDS Integers, Sequences, FiniteSets

LOCAL INSTANCE SequencesExt

CONSTANTS
    Reader,    \* users
    Topic,     \* slugs of tags
    Tongue,    \* languages
    MaxClock   \* how many calls are made

ASSUME LibraryStoresConstants == MaxClock \in Nat

VARIABLES
    shelf,  \* the items of DynamoDB
    rows,   \* the tables of SQLite
    clock   \* the number of calls: the time, and the id of what is created

libraryVars == <<shelf, rows, clock>>

Lib == INSTANCE Content
          WITH User <- Reader, Card <- {}, Tag <- Topic, Worker <- {},
               MaxRequests <- MaxClock, MaxCrash <- 0, items <- shelf, call <- <<>>,
               requests <- clock, crashes <- 0, shared <- {}, torn <- {}, gone <- {},
               unclaimed <- {}

OnShelf(key) == key \in DOMAIN shelf

\* A table of rows with an id, and the row of an id.
With(table, row) == {r \in table : r.id # row.id} \cup {row}
RowsOf(table, id) == {r \in table : r.id = id}

NoRows ==
    [decks |-> {}, votes |-> {}, tags |-> {}, deckTags |-> {}, stories |-> {}, subs |-> {}]

LibraryInit ==
    /\ shelf = <<>>
    /\ rows = NoRows
    /\ clock = 0

\* A call: what it writes to the items, and the tables after it.
Stored(todo, after) ==
    /\ clock < MaxClock
    /\ clock' = clock + 1
    /\ shelf' = Lib!AfterAll(todo)
    /\ rows' = after

-----------------------------------------------------------------------------
(* Decks and their votes.  A manifest may come without an author; it is     *)
(* then the one it had: DynamoDB reads it first, SQLite coalesces.          *)

Kept(new, old) ==
    Lib!Patched(new, [author |-> IF new.author = Lib!Nobody THEN old.author ELSE new.author,
                      born |-> old.born])

\* The stored deck: what is there, if anything, gives the author and the time it
\* was created.
Stowed(new, old) == IF old = {} THEN new ELSE Kept(new, CHOOSE x \in old : TRUE)

UpsertDecks(d, manifest) ==
    LET key == Lib!Deck(d)
        new == Lib!Patched(manifest, [id |-> d, at |-> clock + 1, born |-> clock + 1])
    IN  Stored(<<{Lib!Put(key, Stowed(new, {shelf[k] : k \in {key} \cap DOMAIN shelf}))}>>,
               [rows EXCEPT !.decks = With(@, Stowed(new, RowsOf(@, d)))])

DeleteDecks(d) ==
    Stored(<<{Lib!Delete(Lib!Deck(d))}>> \o Lib!CascadeVotes(d),
           [rows EXCEPT !.decks = @ \ RowsOf(@, d), !.votes = {v \in @ : v[1] # d}])

AddVotes(d, u) ==
    Stored(<<{Lib!PutNew(Lib!DeckVote(d, u), TRUE)}>>, [rows EXCEPT !.votes = @ \cup {<<d, u>>}])

RemoveVotes(d, u) ==
    Stored(<<{Lib!Delete(Lib!DeckVote(d, u))}>>, [rows EXCEPT !.votes = @ \ {<<d, u>>}])

Manifests ==
    [author : Reader \cup {Lib!Nobody}, tongue : Tongue, status : {"draft", "published"},
     companion : BOOLEAN]

DeckCalls ==
    \/ \E m \in Manifests, d \in 1..(clock + 1) : UpsertDecks(d, m)
    \/ \E d \in 1..clock :
          /\ OnShelf(Lib!Deck(d))
          /\ \/ DeleteDecks(d)
             \/ \E u \in Reader : AddVotes(d, u) \/ RemoveVotes(d, u)

-----------------------------------------------------------------------------
(* Tags.  The router has made sure that a deck's tags are there.           *)

CreateTags(g) ==
    Stored(<<{Lib!PutNew(Lib!TagRow(g), Lib!WholeTag)}>>,
           [rows EXCEPT !.tags =
              IF RowsOf(@, g) = {} THEN @ \cup {[id |-> g, color |-> "none"]} ELSE @])

UpdateTags(g) ==
    Stored(Lib!Recolor(g),
           [rows EXCEPT !.tags = {IF r.id = g THEN [r EXCEPT !.color = "red"] ELSE r : r \in @}])

\* DynamoDB does nothing for a tag that is not there, SQLite deletes the tag's
\* decks all the same.
DeleteTags(g) ==
    Stored(IF Lib!TagThere(g)
           THEN <<{Lib!Delete(Lib!TagRow(g))},
                  {Lib!Delete(k) : k \in {Lib!DeckTag(d, g) : d \in 1..clock} \cap DOMAIN shelf}>>
           ELSE <<>>,
           [rows EXCEPT !.tags = @ \ RowsOf(@, g), !.deckTags = {p \in @ : p[2] # g}])

\* DynamoDB writes the difference, SQLite wipes and inserts.
SetTags(d, tags) ==
    LET current == {g \in Topic : OnShelf(Lib!DeckTag(d, g))}
    IN  /\ tags \subseteq Lib!RealTags
        /\ Stored(<<{Lib!Put(Lib!DeckTag(d, g), TRUE) : g \in tags \ current}
                      \cup {Lib!Delete(Lib!DeckTag(d, g)) : g \in current \ tags}>>,
                  [rows EXCEPT !.deckTags = {p \in @ : p[1] # d} \cup ({d} \X tags)])

TagCalls ==
    \E g \in Topic :
        \/ CreateTags(g) \/ UpdateTags(g) \/ DeleteTags(g)
        \/ \E d \in 1..2, tags \in SUBSET Topic : SetTags(d, tags)

-----------------------------------------------------------------------------
(* Stories.  The index of a language is sorted by status and time: an      *)
(* attribute of its own, written with every change.                        *)

PutStories(u, tongue, status) ==
    LET s == clock + 1
        story == [author |-> u, tongue |-> tongue, status |-> status, at |-> s]
    IN  Stored(<<{Lib!Put(Lib!Story(s), Lib!Patched(story, [statusAt |-> <<status, s>>]))}>>,
               [rows EXCEPT !.stories = @ \cup {Lib!Patched(story, [id |-> s])}])

\* Mutant: the status the index has stays.
MergedOnly(story, patch, t) ==
    Lib!Patched(Lib!Patched(story, patch),
                [at |-> t, statusAt |-> <<story.statusAt[1], t>>])

Merged(story, patch, t) ==
    LET new == Lib!Patched(story, patch)
    IN  Lib!Patched(new, [at |-> t, statusAt |-> <<new.status, t>>])

PatchStories(s, patch) ==
    LET key == Lib!Story(s)
        row(r) == [Lib!Patched(r, patch) EXCEPT !.at = clock + 1]
    IN  Stored(IF OnShelf(key) THEN <<{Lib!Put(key, Merged(shelf[key], patch, clock + 1))}>> ELSE <<>>,
               [rows EXCEPT !.stories = {IF r.id = s THEN row(r) ELSE r : r \in @}])

DeleteStories(s) ==
    Stored(<<{Lib!Delete(Lib!Story(s))}>>, [rows EXCEPT !.stories = @ \ RowsOf(@, s)])

StoryCalls ==
    \/ \E u \in Reader, tongue \in Tongue, status \in {"draft", "published"} :
          PutStories(u, tongue, status)
    \/ \E s \in 1..clock :
          \/ \E status \in {"draft", "published"} : PatchStories(s, [status |-> status])
          \/ \E tongue \in Tongue : PatchStories(s, [tongue |-> tongue])
          \/ DeleteStories(s)

-----------------------------------------------------------------------------
(* Subscriptions.                                                          *)

Subscribe(u, kind, i) ==
    Stored(<<{Lib!PutNew(Lib!Sub(u, kind, i), "enabled")}>>,
           [rows EXCEPT !.subs =
              IF \E r \in @ : r.id = <<u, kind, i>> THEN @
              ELSE @ \cup {[id |-> <<u, kind, i>>, val |-> "enabled"]}])

ChangeSettings(u, kind, i) ==
    Stored(Lib!UpdateSettings(Lib!Sub(u, kind, i)),
           [rows EXCEPT !.subs =
              {IF r.id = <<u, kind, i>> THEN [r EXCEPT !.val = "disabled"] ELSE r : r \in @}])

Unsubscribe(u, kind, i) ==
    Stored(<<{Lib!Delete(Lib!Sub(u, kind, i))}>>,
           [rows EXCEPT !.subs = @ \ RowsOf(@, <<u, kind, i>>)])

SubscriptionCalls ==
    \E u \in Reader, kind \in {"deck", "story"}, i \in 1..2 :
        Subscribe(u, kind, i) \/ ChangeSettings(u, kind, i) \/ Unsubscribe(u, kind, i)

-----------------------------------------------------------------------------

LibraryNext == DeckCalls \/ TagCalls \/ StoryCalls \/ SubscriptionCalls

LibrarySpec == LibraryInit /\ [][LibraryNext]_libraryVars

-----------------------------------------------------------------------------
(* Listings.  A filter is "any", or what is asked for.                     *)

Asks(filter, x) == filter \in {"any", x}

Sorted(found, At(_)) == SetToSortSeq(found, LAMBDA x, y : At(x) > At(y))

Ids(list) == [i \in DOMAIN list |-> list[i].id]

\* An author's decks, those of a status, or all, and what is left of the filters.
ListManifests(u, tongue, status, exclude) ==
    LET row(d) == shelf[Lib!Deck(d)]
    IN  Sorted({d \in 1..clock :
                  /\ OnShelf(Lib!Deck(d))
                  /\ Asks(u, row(d).author) /\ Asks(tongue, row(d).tongue)
                  /\ Asks(status, row(d).status)
                  /\ exclude => ~row(d).companion},
               LAMBDA d : row(d).at)

SqlManifests(u, tongue, status, exclude) ==
    Ids(Sorted({r \in rows.decks :
                  /\ Asks(u, r.author) /\ Asks(tongue, r.tongue) /\ Asks(status, r.status)
                  /\ exclude => ~r.companion},
               LAMBDA r : r.at))

\* In a language the status is what the index has, else what the story has.
ListStories(u, tongue, status) ==
    LET row(s) == shelf[Lib!Story(s)]
    IN  Sorted({s \in 1..clock :
                  /\ OnShelf(Lib!Story(s))
                  /\ Asks(u, row(s).author) /\ Asks(tongue, row(s).tongue)
                  /\ Asks(status, IF tongue = "any" THEN row(s).status ELSE row(s).statusAt[1])},
               LAMBDA s : row(s).at)

SqlStories(u, tongue, status) ==
    Ids(Sorted({r \in rows.stories :
                  Asks(u, r.author) /\ Asks(tongue, r.tongue) /\ Asks(status, r.status)},
               LAMBDA r : r.at))

GetManifest(d) == {shelf[k] : k \in {Lib!Deck(d)} \cap DOMAIN shelf}

SqlVotesOf(d) == {u \in Reader : <<d, u>> \in rows.votes}

ListTagsOf(d) == {g \in Topic : OnShelf(Lib!DeckTag(d, g))}
SqlTagsOf(d) == {g \in Topic : <<d, g>> \in rows.deckTags}

\* The index of the same rows by tag.
ListDecksWith(g) == {d \in 1..2 : OnShelf(Lib!DeckTag(d, g))}
SqlDecksWith(g) == {d \in 1..2 : <<d, g>> \in rows.deckTags}

GetTag(g) ==
    {[id |-> g, color |-> shelf[k].color] : k \in {Lib!TagRow(g)} \cap DOMAIN shelf}

\* A kind of content is a prefix of the key.
ListSubs(u, kinds) ==
    {[id |-> Tail(k), val |-> shelf[k]] :
        k \in {x \in DOMAIN shelf : x[1] = "SUB" /\ x[2] = u /\ x[3] \in kinds}}
SqlSubs(u, kinds) == {r \in rows.subs : r.id[1] = u /\ r.id[2] \in kinds}

\* The two repositories list the same decks and the same stories, in the same
\* order, whatever is asked for; they have the same manifests, with the same authors
\* and times of creation; the same votes and tags of every deck, decks of every tag,
\* and tags; and the same subscriptions.  DynamoDB reads before it puts, writes
\* differences, and picks an index by what is asked for; SQLite has one statement
\* for each (mirrors SQLite).
LibraryAgree ==
    \/ shelf = <<>> /\ rows = NoRows  \* nothing to list
    \/ /\ \A u \in Reader \cup {"any"}, tongue \in Tongue \cup {"any"},
             status \in {"draft", "published", "any"} :
             /\ \A exclude \in BOOLEAN :
                   ListManifests(u, tongue, status, exclude) = SqlManifests(u, tongue, status, exclude)
             /\ ListStories(u, tongue, status) = SqlStories(u, tongue, status)
       /\ \A d \in 1..MaxClock :
             /\ GetManifest(d) = RowsOf(rows.decks, d)
             /\ Lib!VotesOf(d) = SqlVotesOf(d)
             /\ ListTagsOf(d) = SqlTagsOf(d)
       /\ \A g \in Topic :
             GetTag(g) = RowsOf(rows.tags, g) /\ ListDecksWith(g) = SqlDecksWith(g)
       /\ \A u \in Reader, kinds \in {{"deck"}, {"deck", "story"}} :
             ListSubs(u, kinds) = SqlSubs(u, kinds)
=============================================================================
