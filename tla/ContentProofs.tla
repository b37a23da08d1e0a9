--------------------------- MODULE ContentProofs ---------------------------
(***************************************************************************)
(* The library of decks, tags, stories and subscriptions, the lesson rows, *)
(* and the accounts: their properties for any number of workers, users,    *)
(* requests and crashes.                                                   *)
(*                                                                         *)
(* A request of the library writes what it has read some calls ago.  So    *)
(* the invariant, ContentInv, says of every request in each of its phases  *)
(* what it may hold (Request), and what of it is still so in the table, if *)
(* nobody else is in a request about the same (Fresh).  A step of a worker *)
(* keeps the part of its own request by what it reads or writes, and that  *)
(* of the others because their subjects then become shared.                *)
(***************************************************************************)
EXTENDS Content, LessonHistory, Accounts, TableProofs, FiniteSetTheorems

Status == {"draft", "published"}

DeckRows == [author : User \cup {Nobody}, status : Status, cards : SUBSET Card, vocab : BOOLEAN]
StoryRows == [author : User, status : Status]

DeckWriter(k) == k.op \in {"create", "update", "approve", "add"}
StoryWriter(k) == k.op \in {"story", "edit", "review"}

GoodPatch(p) ==
    /\ DOMAIN p \subseteq {"status", "cards"}
    /\ "status" \in DOMAIN p => p.status \in Status
    /\ "cards" \in DOMAIN p => p.cards \subseteq Card

AskedVocab(k) == k.arg[1][2]
NewVocab(u) == [NewDeck(u, TRUE) EXCEPT !.status = "published"]
SubOf(k) == Sub(k.arg[2], k.arg[1], k.arg[3])

-----------------------------------------------------------------------------
(* What a request is about and has planned, whatever the others do.        *)

FourOf(s) == s = <<s[1], s[2], s[3], s[4]>>

DeckRequest(k) ==
    DeckWriter(k) =>
        /\ k.at \in {"read", "tags", "set", "difference", "upsert", "done"}
        /\ k.arg[1] \in User /\ k.arg[2] \in 0..requests /\ Deck(k.arg[2]) \in k.on
        /\ UNION k.arg[3] \subseteq Tag /\ \A g \in UNION k.arg[3] : TagRow(g) \in k.on
        /\ GoodPatch(k.arg[4])
        /\ k.op = "approve" => k.arg[3] = {} /\ "cards" \notin DOMAIN k.arg[4]
        /\ k.op = "add" => k.arg[3] = {} /\ k.arg[4].cards \subseteq Card
        /\ IF k.at = "read" THEN k.op # "create" /\ FourOf(k.arg)
                            ELSE k.arg[5] \in DeckRows /\ (k.arg[5].vocab => k.arg[5].author # Nobody)
        /\ k.at = "upsert" =>
              \A x \in Planned(k.todo) : \E g \in Tag :
                  \/ x = Delete(DeckTag(k.arg[2], g))
                  \/ x = Put(DeckTag(k.arg[2], g), TRUE) /\ g \in UNION k.arg[3]
        /\ k.at = "done" =>
              \A x \in Planned(k.todo) : /\ x = Put(Deck(k.arg[2]), x.val)
                                         /\ x.val \in DeckRows /\ x.val.vocab = k.arg[5].vocab
                                         /\ (k.arg[5].author # Nobody => x.val.author = k.arg[5].author)
        /\ k.at \notin {"upsert", "done"} => k.todo = <<>>

OtherDeckRequest(k) ==
    k.op \in {"vote", "delete"} =>
        /\ k.at \in (IF k.op = "vote" THEN {"read", "done"} ELSE {"read", "votes", "done"})
        /\ k.arg[1] \in User /\ k.arg[2] \in 0..requests /\ Deck(k.arg[2]) \in k.on
        /\ (k.at = "read" => k.todo = <<>>)
        /\ \A x \in Planned(k.todo) :
              \/ /\ k.op = "vote"
                 /\ \/ x = PutNew(DeckVote(k.arg[2], k.arg[1]), TRUE)
                    \/ x = Delete(DeckVote(k.arg[2], k.arg[1]))
              \/ k.op = "delete" /\ k.at = "votes" /\ x = Delete(Deck(k.arg[2]))
              \/ k.op = "delete" /\ k.at = "done" /\ \E u \in User : x = Delete(DeckVote(k.arg[2], u))

TagRequest(k) ==
    k.op \in {"newTag", "recolor", "dropTag"} =>
        /\ k.at \in (CASE k.op = "newTag" -> {"put", "done"}
                       [] k.op = "recolor" -> {"read", "done"}
                       [] k.op = "dropTag" -> {"read", "mirrors", "done"})
        /\ k.arg[1] \in Tag /\ TagRow(k.arg[1]) \in k.on
        /\ k.at \in {"read", "put"} => k.todo = <<>>
        /\ \A x \in Planned(k.todo) :
              \/ k.op = "newTag" /\ x = PutNew(TagRow(k.arg[1]), WholeTag)
              \/ k.op = "recolor" /\ x = Update(TagRow(k.arg[1]), [color |-> "red"], <<>>)
              \/ k.op = "dropTag" /\ k.at = "mirrors" /\ x = Delete(TagRow(k.arg[1]))
              \/ k.op = "dropTag" /\ k.at = "done" /\ \E d \in Id : x = Delete(DeckTag(d, k.arg[1]))

StoryRequest(k) ==
    StoryWriter(k) \/ k.op = "remove" =>
        /\ k.at \in {"put", "read", "merge", "done"}
        /\ k.arg[1] \in User /\ k.arg[2] \in 0..requests /\ Story(k.arg[2]) \in k.on
        /\ k.op \in {"edit", "review"} => k.arg[3] \in Statuses
        /\ k.at # "done" => k.todo = <<>>
        /\ \A x \in Planned(k.todo) :
              \/ StoryWriter(k) /\ x = Put(Story(k.arg[2]), x.val) /\ x.val \in StoryRows
              \/ k.op = "remove" /\ x = Delete(Story(k.arg[2]))

SubRequest(k) ==
    k.op \in {"subscribe", "adjust", "unsubscribe"} =>
        /\ k.at \in {"validate", "read", "go", "done"}
        /\ SubOf(k) \in k.on
        /\ k.at # "done" => k.todo = <<>>
        /\ \A x \in Planned(k.todo) :
              \/ k.op = "subscribe" /\ x = PutNew(SubOf(k), "enabled")
              \/ k.op = "adjust" /\ x = Put(SubOf(k), "disabled")
              \/ k.op = "unsubscribe" /\ x = Delete(SubOf(k))

VocabRequest(k) ==
    k.op = "vocab" =>
        /\ k.at \in {"list", "deck", "done"}
        /\ k.arg[1] = Vocab(AskedVocab(k)) /\ AskedVocab(k) \in User /\ Sequence(k.arg)
        /\ k.arg # <<>>
        /\ k.id \in 1..requests /\ Deck(k.id) \in k.on /\ Vocab(AskedVocab(k)) \in k.on
        /\ k.at # "done" => k.todo = <<>>
        /\ Distinct(k.todo)
        /\ k.at = "deck" => k.arg[Len(k.arg)] \subseteq Id
        /\ \A x \in Planned(k.todo) :
              \/ x.key = Deck(k.id) /\ x = Put(Deck(k.id), NewVocab(AskedVocab(k)))
              \/ \E d : /\ x.key = Sub(AskedVocab(k), "deck", d)
                        /\ x = PutNew(Sub(AskedVocab(k), "deck", d), "enabled")

\* Most requests end with one write.
Once(k) ==
    k.at = "done" /\ k.op \notin {"delete", "dropTag", "vocab"} => \E x : k.todo = <<{x}>>

Ops == {"create", "update", "approve", "add", "vote", "delete", "newTag", "recolor", "dropTag",
        "story", "edit", "review", "remove", "subscribe", "adjust", "unsubscribe", "vocab"}

Request(k) ==
    k.op # "idle" =>
        /\ k.op \in Ops
        /\ DeckRequest(k) /\ OtherDeckRequest(k) /\ TagRequest(k)
        /\ StoryRequest(k) /\ SubRequest(k) /\ VocabRequest(k) /\ Once(k)

-----------------------------------------------------------------------------
(* What a request relies on, unless its subject is shared.                 *)

NotGone(key) == key \in gone => key \in shared

\* A row that may be put for a deck: it keeps the rest of what is there.
Keeps(k, row, was) ==
    /\ row.vocab = was.vocab
    /\ row.author = was.author \/ was.author = Nobody
    /\ was.cards \subseteq row.cards \/ (k.op = "update" /\ "cards" \in DOMAIN k.arg[4])

DeckFresh(k) ==
    DeckWriter(k) /\ k.at # "read" =>
        /\ NotGone(Deck(k.arg[2]))
        /\ k.op = "create" => ~k.arg[5].vocab /\ (Has(Deck(k.arg[2])) => Deck(k.arg[2]) \in shared)
        /\ k.op # "create" /\ Deck(k.arg[2]) \notin shared =>
              /\ Has(Deck(k.arg[2])) /\ Keeps(k, k.arg[5], items[Deck(k.arg[2])])
              /\ (k.at = "done" => \A x \in Planned(k.todo) : Keeps(k, x.val, items[Deck(k.arg[2])]))
        /\ k.at \in {"difference", "upsert"} =>
              \A g \in UNION k.arg[3] : Has(TagRow(g)) \/ TagRow(g) \in shared

VoteFresh(k) ==
    k.op = "vote" /\ k.at = "done" => Has(Deck(k.arg[2])) \/ Deck(k.arg[2]) \in shared

TagFresh(k) ==
    k.op = "recolor" /\ k.todo # <<>> =>
        NotGone(TagRow(k.arg[1])) /\ (TagThere(k.arg[1]) \/ TagRow(k.arg[1]) \in shared)

StoryFresh(k) ==
    k.op = "story" \/ (StoryWriter(k) /\ k.todo # <<>>) => NotGone(Story(k.arg[2]))

SubFresh(k) == k.op = "adjust" /\ k.todo # <<>> => NotGone(SubOf(k))

\* The vocabularies of a user that nobody else was about.
Vocabularies(u) == {d \in VocabDecks(u) : Deck(d) \notin shared}

VocabFresh(k) ==
    k.op = "vocab" =>
        /\ k.at # "done" \/ (\E x \in Planned(k.todo) : x.do = "put") =>
              (Has(Deck(k.id)) => Deck(k.id) \in shared)
        /\ Vocab(AskedVocab(k)) \notin shared =>
              /\ k.at = "deck" => Vocabularies(AskedVocab(k)) \subseteq k.arg[Len(k.arg)]
              /\ (\E x \in Planned(k.todo) : x.do = "put") => Vocabularies(AskedVocab(k)) = {}

Fresh(k) ==
    DeckFresh(k) /\ VoteFresh(k) /\ TagFresh(k) /\ StoryFresh(k) /\ SubFresh(k) /\ VocabFresh(k)

-----------------------------------------------------------------------------

Overlaps == \A v, w \in Worker : v # w => call[v].on \cap call[w].on \subseteq shared

Rows ==
    /\ \A d : Has(Deck(d)) \/ Deck(d) \in gone => d \in 0..requests
    /\ \A s : Has(Story(s)) \/ Story(s) \in gone => s \in 0..requests
    /\ \A d : Has(Deck(d)) => /\ items[Deck(d)] \in DeckRows
                              /\ (items[Deck(d)].vocab => items[Deck(d)].author # Nobody)
    /\ \A s : Has(Story(s)) => items[Story(s)] \in StoryRows
    /\ \A g \in Tag : Has(TagRow(g)) /\ "slug" \notin DOMAIN items[TagRow(g)] => TagRow(g) \in shared

\* The authors a request may give a deck.
Authors(k, d) ==
    (IF DeckWriter(k) /\ k.at # "read" /\ k.arg[2] = d THEN {k.arg[5].author} ELSE {})
        \cup (IF k.op = "vocab" /\ k.id = d THEN {AskedVocab(k)} ELSE {})

OneAuthor(d) ==
    \E a \in User : /\ Has(Deck(d)) => items[Deck(d)].author = a
                    /\ \A w \in Worker : Authors(call[w], d) \subseteq {a}

ClearsVote(k, d, u) ==
    /\ k.op = "delete" /\ k.arg[2] = d
    /\ k.at = "votes" \/ Delete(DeckVote(d, u)) \in Planned(k.todo)

ClearsTag(k, d, g) ==
    /\ k.op = "dropTag" /\ k.arg[1] = g
    /\ k.at = "mirrors" \/ Delete(DeckTag(d, g)) \in Planned(k.todo)

Orphans ==
    /\ \A d \in Id, u \in User :
          Has(DeckVote(d, u)) /\ ~Has(Deck(d)) /\ Orderly(Deck(d)) =>
              \E w \in Worker : ClearsVote(call[w], d, u)
    /\ \A d \in Id, g \in Tag :
          Has(DeckTag(d, g)) /\ ~Has(TagRow(g)) /\ Orderly(TagRow(g)) =>
              \E w \in Worker : ClearsTag(call[w], d, g)

AtMostOne(S) == \A x, y \in S : x = y

ContentInv ==
    /\ CallsOK /\ requests \in Nat /\ Overlaps /\ Rows /\ GoneStaysGone /\ Orphans
    /\ \A w \in Worker : Request(call[w]) /\ Fresh(call[w])
    /\ \A d : d \notin unclaimed => OneAuthor(d)
    /\ \A u \in User : Vocab(u) \notin shared => AtMostOne(Vocabularies(u))
    /\ User # {}

-----------------------------------------------------------------------------

LEMMA Keys ==
    /\ \A d, e : /\ Deck(d) = Deck(e) => d = e
                 /\ Story(d) = Story(e) => d = e
                 /\ TagRow(d) = TagRow(e) => d = e
                 /\ Deck(d) # Story(e) /\ Deck(d) # TagRow(e) /\ Story(d) # TagRow(e)
    /\ \A d, e, u, v : DeckVote(d, u) # DeckTag(e, v)
    /\ \A d, e, u : /\ Deck(d) # DeckVote(e, u) /\ Deck(d) # DeckTag(e, u)
                    /\ Story(d) # DeckVote(e, u) /\ Story(d) # DeckTag(e, u)
                    /\ TagRow(d) # DeckVote(e, u) /\ TagRow(d) # DeckTag(e, u)
    /\ \A u, c, i, d : Sub(u, c, i) # Deck(d) /\ Sub(u, c, i) # Story(d) /\ Sub(u, c, i) # TagRow(d)
    /\ \A u, c, i, d, v : Sub(u, c, i) # DeckVote(d, v) /\ Sub(u, c, i) # DeckTag(d, v)
    /\ \A u, d : Vocab(u) # Deck(d) /\ Vocab(u) # Story(d) /\ Vocab(u) # TagRow(d)
    /\ \A u, c, i, v : Sub(u, c, i) # Vocab(v)
BY DEF Deck, Story, TagRow, DeckVote, DeckTag, Sub, Vocab

\* The kinds of keys that GoneStaysGone is about.
Lasting(key) == key[1] \in {"DECK", "STORY", "TAG", "SUB"}

LEMMA Kinds ==
    /\ \A d, u : ~Lasting(DeckVote(d, u)) /\ ~Lasting(DeckTag(d, u))
    /\ \A d : Lasting(Deck(d)) /\ Lasting(Story(d)) /\ Lasting(TagRow(d))
    /\ \A u, c, i : Lasting(Sub(u, c, i))
BY DEF Lasting, Deck, Story, TagRow, DeckVote, DeckTag, Sub

-----------------------------------------------------------------------------
(* The writes there are.                                                   *)

DeckPut(k, x) ==
    /\ DeckWriter(k) /\ k.at = "done" /\ x.do = "put" /\ x.key = Deck(k.arg[2])
    /\ k.arg[2] \in 0..requests /\ x.key \in k.on
    /\ x.val \in DeckRows /\ x.val.vocab = k.arg[5].vocab
    /\ k.arg[5].author # Nobody => x.val.author = k.arg[5].author
    /\ k.arg[5].vocab => k.arg[5].author # Nobody

VocabPut(k, x) ==
    /\ k.op = "vocab" /\ k.at = "done" /\ x.do = "put" /\ x.key = Deck(k.id)
    /\ k.id \in 1..requests /\ x.key \in k.on
    /\ x.val = NewVocab(AskedVocab(k)) /\ AskedVocab(k) \in User

DeckDrop(k, x) ==
    /\ k.op = "delete" /\ k.at = "votes" /\ x.do = "delete" /\ x.key = Deck(k.arg[2])
    /\ x.key \in k.on

VotePut(k, x) ==
    /\ k.op = "vote" /\ k.at = "done" /\ x.do = "putNew" /\ x.key = DeckVote(k.arg[2], k.arg[1])

VoteDrop(k, x) ==
    /\ k.op \in {"vote", "delete"} /\ k.at = "done" /\ x.do = "delete"
    /\ \E u \in User : x = Delete(DeckVote(k.arg[2], u))

DeckTagPut(k, x) ==
    /\ DeckWriter(k) /\ k.at = "upsert" /\ x.do = "put"
    /\ \E g \in UNION k.arg[3] : x.key = DeckTag(k.arg[2], g)

DeckTagDrop(k, x) == x.do = "delete" /\ \E d, g : x = Delete(DeckTag(d, g))

TagPut(k, x) ==
    /\ k.op = "newTag" /\ x.do = "putNew" /\ x.key = TagRow(k.arg[1]) /\ x.key \in k.on
    /\ x.val = WholeTag

TagUpdate(k, x) ==
    /\ k.op = "recolor" /\ x.do = "update" /\ x.key = TagRow(k.arg[1]) /\ x.key \in k.on
    /\ x.val = [set |-> [color |-> "red"], add |-> <<>>]

TagDrop(k, x) ==
    /\ k.op = "dropTag" /\ k.at = "mirrors" /\ x.do = "delete"
    /\ x.key = TagRow(k.arg[1]) /\ x.key \in k.on

StoryPut(k, x) ==
    /\ StoryWriter(k) /\ x.do = "put" /\ x.key = Story(k.arg[2]) /\ x.key \in k.on
    /\ k.arg[2] \in 0..requests /\ x.val \in StoryRows

StoryDrop(k, x) ==
    k.op = "remove" /\ x.do = "delete" /\ x.key = Story(k.arg[2]) /\ x.key \in k.on

SubPutNew(k, x) ==
    k.op \in {"subscribe", "vocab"} /\ x.do = "putNew" /\ \E u, c, i : x.key = Sub(u, c, i)

SubPut(k, x) == k.op = "adjust" /\ x.do = "put" /\ x.key = SubOf(k)

SubDrop(k, x) == k.op = "unsubscribe" /\ x.do = "delete" /\ x.key = SubOf(k) /\ x.key \in k.on

WriteOf(k, x) ==
    \/ DeckPut(k, x) \/ VocabPut(k, x) \/ DeckDrop(k, x)
    \/ VotePut(k, x) \/ VoteDrop(k, x) \/ DeckTagPut(k, x) \/ DeckTagDrop(k, x)
    \/ TagPut(k, x) \/ TagUpdate(k, x) \/ TagDrop(k, x)
    \/ StoryPut(k, x) \/ StoryDrop(k, x)
    \/ SubPutNew(k, x) \/ SubPut(k, x) \/ SubDrop(k, x)

LEMMA WriteKinds ==
    ASSUME NEW k, Request(k), k.op # "idle", NEW x \in Planned(k.todo)
    PROVE  WriteOf(k, x)
<1>0. k.todo # <<>> BY NoPlan
<1>d. \A key : Delete(key).do = "delete" /\ Delete(key).key = key BY DEF Delete
<1>p. \A key, val : /\ Put(key, val).do = "put" /\ Put(key, val).key = key /\ Put(key, val).val = val
                    /\ PutNew(key, val).do = "putNew" /\ PutNew(key, val).key = key
                    /\ PutNew(key, val).val = val
  BY DEF Put, PutNew
<1>u. \A key, set, add : /\ Update(key, set, add).do = "update" /\ Update(key, set, add).key = key
                         /\ Update(key, set, add).val = [set |-> set, add |-> add]
  BY DEF Update
<1>1. CASE DeckWriter(k)
  <2>1. k.at \in {"upsert", "done"} BY <1>0, <1>1 DEF Request, DeckRequest
  <2>2. CASE k.at = "done"
    <3>1. DeckPut(k, x) BY <1>1, <1>p, <2>2 DEF Request, DeckRequest, DeckPut
    <3> QED BY <3>1 DEF WriteOf
  <2>3. CASE k.at = "upsert"
    <3>1. PICK g \in Tag : \/ x = Delete(DeckTag(k.arg[2], g))
                           \/ x = Put(DeckTag(k.arg[2], g), TRUE) /\ g \in UNION k.arg[3]
      BY <1>1, <2>3 DEF Request, DeckRequest
    <3>2. CASE x = Delete(DeckTag(k.arg[2], g))
      <4>1. DeckTagDrop(k, x) BY <1>d, <3>2 DEF DeckTagDrop
      <4> QED BY <4>1 DEF WriteOf
    <3>3. CASE x = Put(DeckTag(k.arg[2], g), TRUE) /\ g \in UNION k.arg[3]
      <4>1. x.do = "put" /\ x.key = DeckTag(k.arg[2], g) BY <1>p, <3>3
      <4>2. DeckTagPut(k, x) BY <1>1, <2>3, <3>3, <4>1 DEF DeckTagPut
      <4> QED BY <4>2 DEF WriteOf
    <3> QED BY <3>1, <3>2, <3>3
  <2> QED BY <2>1, <2>2, <2>3
<1>2. CASE k.op \in {"vote", "delete"}
  <2>1. k.at \in {"votes", "done"} /\ Deck(k.arg[2]) \in k.on /\ k.arg[1] \in User
    BY <1>0, <1>2 DEF Request, OtherDeckRequest
  <2>2. \/ /\ k.op = "vote" /\ k.at = "done"
           /\ \/ x = PutNew(DeckVote(k.arg[2], k.arg[1]), TRUE)
              \/ x = Delete(DeckVote(k.arg[2], k.arg[1]))
        \/ k.op = "delete" /\ k.at = "votes" /\ x = Delete(Deck(k.arg[2]))
        \/ k.op = "delete" /\ k.at = "done" /\ \E u \in User : x = Delete(DeckVote(k.arg[2], u))
    BY <1>0, <1>2 DEF Request, OtherDeckRequest
  <2>3. CASE x = PutNew(DeckVote(k.arg[2], k.arg[1]), TRUE) /\ k.op = "vote" /\ k.at = "done"
    <3>1. x.do = "putNew" /\ x.key = DeckVote(k.arg[2], k.arg[1]) BY <2>3 DEF PutNew
    <3> QED BY <2>3, <3>1 DEF WriteOf, VotePut
  <2>4. CASE k.at = "done" /\ \E u \in User : x = Delete(DeckVote(k.arg[2], u))
    <3>1. x.do = "delete" BY <1>d, <2>4
    <3>2. VoteDrop(k, x) BY <1>2, <2>4, <3>1 DEF VoteDrop
    <3> QED BY <3>2 DEF WriteOf
  <2>5. CASE k.op = "delete" /\ k.at = "votes" /\ x = Delete(Deck(k.arg[2]))
    <3>1. x.do = "delete" /\ x.key = Deck(k.arg[2]) BY <1>d, <2>5
    <3> QED BY <2>1, <2>5, <3>1 DEF WriteOf, DeckDrop
  <2> QED BY <2>1, <2>2, <2>3, <2>4, <2>5
<1>3. CASE k.op \in {"newTag", "recolor", "dropTag"}
  <2>1. /\ TagRow(k.arg[1]) \in k.on
        /\ \/ k.op = "newTag" /\ x = PutNew(TagRow(k.arg[1]), WholeTag)
           \/ k.op = "recolor" /\ x = Update(TagRow(k.arg[1]), [color |-> "red"], <<>>)
           \/ k.op = "dropTag" /\ k.at = "mirrors" /\ x = Delete(TagRow(k.arg[1]))
           \/ k.op = "dropTag" /\ k.at = "done" /\ \E d \in Id : x = Delete(DeckTag(d, k.arg[1]))
    BY <1>3 DEF Request, TagRequest
  <2>2. TagPut(k, x) \/ TagUpdate(k, x) \/ TagDrop(k, x) \/ DeckTagDrop(k, x)
    BY <1>d, <1>p, <1>u, <2>1 DEF TagPut, TagUpdate, TagDrop, DeckTagDrop
  <2> QED BY <2>2 DEF WriteOf
<1>4. CASE StoryWriter(k) \/ k.op = "remove"
  <2>1. StoryPut(k, x) \/ StoryDrop(k, x)
    BY <1>4, <1>d, <1>p DEF Request, StoryRequest, StoryPut, StoryDrop
  <2> QED BY <2>1 DEF WriteOf
<1>5. CASE k.op \in {"subscribe", "adjust", "unsubscribe"}
  <2>1. /\ SubOf(k) \in k.on
        /\ \/ k.op = "subscribe" /\ x = PutNew(SubOf(k), "enabled")
           \/ k.op = "adjust" /\ x = Put(SubOf(k), "disabled")
           \/ k.op = "unsubscribe" /\ x = Delete(SubOf(k))
    BY <1>5 DEF Request, SubRequest
  <2>2. \E u, c, i : SubOf(k) = Sub(u, c, i) BY DEF SubOf
  <2>3. SubPutNew(k, x) \/ SubPut(k, x) \/ SubDrop(k, x)
    BY <1>d, <1>p, <2>1, <2>2 DEF SubPutNew, SubPut, SubDrop
  <2> QED BY <2>3 DEF WriteOf
<1>6. CASE k.op = "vocab"
  <2>1. /\ k.at = "done" /\ k.id \in 1..requests /\ Deck(k.id) \in k.on /\ AskedVocab(k) \in User
        /\ \/ x = Put(Deck(k.id), NewVocab(AskedVocab(k)))
           \/ \E d : x = PutNew(Sub(AskedVocab(k), "deck", d), "enabled")
    BY <1>0, <1>6 DEF Request, VocabRequest
  <2>2. VocabPut(k, x) \/ SubPutNew(k, x)
    BY <1>6, <1>d, <1>p, <2>1 DEF VocabPut, SubPutNew
  <2> QED BY <2>2 DEF WriteOf
<1> QED BY <1>1, <1>2, <1>3, <1>4, <1>5, <1>6 DEF Request, Ops, DeckWriter, StoryWriter

-----------------------------------------------------------------------------
(* The items after a write.                                                *)

\* Deletions and the rows of decks, stories and tags are the subjects of requests.
LEMMA OwnSubject ==
    ASSUME NEW k, NEW x, WriteOf(k, x),
           \/ \E d : x.key = Deck(d) \/ x.key = Story(d) \/ x.key = TagRow(d)
           \/ x.do = "delete" /\ Lasting(x.key)
    PROVE  x.key \in k.on
<1>1. CASE \/ DeckPut(k, x) \/ VocabPut(k, x) \/ DeckDrop(k, x) \/ TagPut(k, x) \/ TagUpdate(k, x)
           \/ TagDrop(k, x) \/ StoryPut(k, x) \/ StoryDrop(k, x) \/ SubDrop(k, x)
  BY <1>1 DEF DeckPut, VocabPut, DeckDrop, TagPut, TagUpdate, TagDrop, StoryPut, StoryDrop, SubDrop
<1>2. ASSUME NEW d, NEW u, x.key = DeckVote(d, u) \/ x.key = DeckTag(d, u) PROVE FALSE
  BY <1>2, Keys, Kinds
<1>3. ASSUME NEW u, NEW c, NEW i, x.key = Sub(u, c, i), x.do # "delete" PROVE FALSE
  BY <1>3, Keys
<1>4. ~VotePut(k, x) /\ ~VoteDrop(k, x) /\ ~DeckTagPut(k, x) /\ ~DeckTagDrop(k, x)
  BY <1>2 DEF VotePut, VoteDrop, DeckTagPut, DeckTagDrop, Delete
<1>5. ~SubPutNew(k, x) /\ ~SubPut(k, x) BY <1>3 DEF SubPutNew, SubPut, SubOf
<1> QED BY <1>1, <1>4, <1>5 DEF WriteOf

\* What a write does to the items.
Wrote(x) ==
    /\ \A key : key # x.key => (key \in DOMAIN items' <=> key \in DOMAIN items)
    /\ \A key : key # x.key /\ key \in DOMAIN items => items'[key] = items[key]
    /\ x.do = "put" => x.key \in DOMAIN items' /\ items'[x.key] = x.val
    /\ x.do = "putNew" =>
          /\ x.key \in DOMAIN items'
          /\ x.key \in DOMAIN items => items'[x.key] = items[x.key]
          /\ x.key \notin DOMAIN items => items'[x.key] = x.val
    /\ x.do = "delete" => x.key \notin DOMAIN items'
    /\ x.do = "update" => x.key \in DOMAIN items'

LEMMA WroteBy ==
    ASSUME NEW x, x.do \in {"put", "putNew", "delete", "update"}, items' = After(x)
    PROVE  Wrote(x)
<1>1. CASE x.do = "put" BY <1>1, PutFacts DEF Wrote
<1>2. CASE x.do = "putNew" BY <1>2, PutNewFacts DEF Wrote
<1>3. CASE x.do = "delete" BY <1>3, DeleteFacts DEF Wrote
<1>4. CASE x.do = "update"
  <2>1. UpdatesItem(x) BY <1>4, UpdateFacts
  <2> QED BY <1>4, <2>1 DEF Wrote, UpdatesItem
<1> QED BY <1>1, <1>2, <1>3, <1>4

LEMMA WritesDo ==
    ASSUME NEW k, NEW x, WriteOf(k, x)
    PROVE  x.do \in {"put", "putNew", "delete", "update"}
BY DEF WriteOf, DeckPut, VocabPut, DeckDrop, VotePut, VoteDrop, DeckTagPut, DeckTagDrop, TagPut,
       TagUpdate, TagDrop, StoryPut, StoryDrop, SubPutNew, SubPut, SubDrop

\* The attributes of a tag that an update sets.
LEMMA Recolored ==
    ASSUME NEW k, NEW x, TagUpdate(k, x), items' = After(x)
    PROVE  /\ TagThere(k.arg[1]) => TagThere(k.arg[1])'
           /\ Has(x.key)'
<1>1. x.do = "update" /\ x.key = TagRow(k.arg[1]) BY DEF TagUpdate
<1>2. UpdatesItem(x) BY <1>1, UpdateFacts
<1>3. x.val = [set |-> [color |-> "red"], add |-> <<>>] BY DEF TagUpdate
<1>4. ASSUME TagThere(k.arg[1]) PROVE TagThere(k.arg[1])'
  <2> DEFINE old == items[x.key]
  <2>1. x.key \in DOMAIN items /\ "slug" \in DOMAIN old BY <1>1, <1>4 DEF TagThere, Has
  <2>2. items'[x.key] = Updated(old, [set |-> [color |-> "red"], add |-> <<>>])
    BY <1>2, <1>3, <2>1 DEF UpdatesItem
  <2>3. Overlaid(items'[x.key], old, [color |-> "red"]) BY <2>2, OverlaidAt
  <2>4. "slug" \in DOMAIN items'[x.key] BY <2>1, <2>3 DEF Overlaid
  <2> QED BY <1>1, <1>2, <2>4 DEF TagThere, Has, UpdatesItem
<1> QED BY <1>2, <1>4 DEF UpdatesItem, Has

\* A planned write, and where it leaves the request.
Writes(w, k, n, x) ==
    /\ k = call[w] /\ k.op # "idle" /\ k.todo # <<>> /\ x \in Head(k.todo)
    /\ x \in Planned(k.todo) /\ WriteOf(k, x)
    /\ n = call'[w] /\ n = Onward(k, Rest(k.todo, x), k.at)
    /\ \A v \in Worker \ {w} : call'[v] = call[v]
    /\ items' = After(x) /\ Wrote(x)
    /\ requests' = requests /\ shared' = shared /\ torn' = torn /\ unclaimed' = unclaimed
    /\ gone' = (gone \cup (DOMAIN items \ DOMAIN items')) \ (IF Makes(w) THEN DOMAIN items' ELSE {})

LEMMA WritesFrom ==
    ASSUME ContentInv, NEW w \in Worker, Write(w), unclaimed' = unclaimed,
           gone' = (gone \cup (DOMAIN items \ DOMAIN items'))
                      \ (IF Makes(w) THEN DOMAIN items' ELSE {})
    PROVE  CallsOK' /\ \E k, n, x : Writes(w, k, n, x)
<1>1. PICK k : k = call[w] OBVIOUS
<1>2. PICK n : n = call'[w] OBVIOUS
<1>3. CallsOK /\ Request(k) BY <1>1 DEF ContentInv
<1>4. PICK x \in Head(k.todo) : /\ items' = After(x)
                                /\ n = Onward(k, Rest(k.todo, x), k.at)
  BY <1>1, <1>2, <1>3, WriteFacts
<1>5. /\ CallsOK' /\ k.op # "idle" /\ k.todo # <<>>
      /\ \A v \in Worker \ {w} : call'[v] = call[v]
      /\ requests' = requests /\ shared' = shared /\ torn' = torn
  BY <1>1, <1>3, WriteFacts
<1>6. x \in Planned(k.todo) BY <1>1, <1>3, <1>5, RestOf DEF CallsOK
<1>7. WriteOf(k, x) BY <1>3, <1>5, <1>6, WriteKinds
<1>8. Wrote(x) BY <1>4, <1>7, WritesDo, WroteBy
<1>9. Writes(w, k, n, x) BY <1>1, <1>2, <1>4, <1>5, <1>6, <1>7, <1>8 DEF Writes
<1> QED BY <1>5, <1>9

LEMMA GoneAfter ==
    ASSUME NEW w, NEW k, NEW n, NEW x, Writes(w, k, n, x), NEW key \in gone'
    PROVE  key \in gone \/ (key = x.key /\ x.do = "delete" /\ key \in DOMAIN items)
<1>1. key \in gone \/ (key \in DOMAIN items /\ key \notin DOMAIN items') BY DEF Writes
<1>2. x.do \in {"put", "putNew", "delete", "update"} BY WritesDo DEF Writes
<1>3. Wrote(x) BY DEF Writes
<1>4. ASSUME key \in DOMAIN items, key \notin DOMAIN items' PROVE key = x.key /\ x.do = "delete"
  <2>1. key = x.key BY <1>3, <1>4 DEF Wrote
  <2>2. x.do = "put" \/ x.do = "putNew" \/ x.do = "update" => x.key \in DOMAIN items'
    BY <1>3 DEF Wrote
  <2> QED BY <1>2, <1>4, <2>1, <2>2
<1> QED BY <1>1, <1>4

\* What another request is about is left alone, or shared.
LEMMA Undisturbed ==
    ASSUME ContentInv, NEW w \in Worker, NEW k, NEW n, NEW x, Writes(w, k, n, x),
           NEW v \in Worker \ {w}, NEW key \in call[v].on, key \notin shared, Lasting(key)
    PROVE  /\ key \in gone' => key \in gone
           /\ (\E d : key = Deck(d) \/ key = Story(d) \/ key = TagRow(d)) => x.key # key
<1>1. key \notin k.on BY DEF ContentInv, Overlaps, Writes
<1>2. ASSUME key \in gone' PROVE key \in gone
  <2>1. key \in gone \/ (key = x.key /\ x.do = "delete") BY <1>2, GoneAfter
  <2>2. WriteOf(k, x) BY DEF Writes
  <2> QED BY <1>1, <2>1, <2>2, OwnSubject
<1>3. ASSUME x.key = key, \E d : key = Deck(d) \/ key = Story(d) \/ key = TagRow(d)
      PROVE  FALSE
  BY <1>1, <1>3, OwnSubject DEF Writes
<1> QED BY <1>2, <1>3

-----------------------------------------------------------------------------
(* What a write keeps.                                                     *)

\* Some facts about one kind of key, as the write leaves it.
LEMMA DeckAfter ==
    ASSUME NEW w, NEW k, NEW n, NEW x, Writes(w, k, n, x), NEW d
    PROVE  \/ x.key # Deck(d) /\ (Has(Deck(d))' <=> Has(Deck(d)))
              /\ (Has(Deck(d)) => items'[Deck(d)] = items[Deck(d)])
           \/ DeckPut(k, x) /\ d = k.arg[2] /\ Has(Deck(d))' /\ items'[Deck(d)] = x.val
           \/ VocabPut(k, x) /\ d = k.id /\ Has(Deck(d))' /\ items'[Deck(d)] = x.val
           \/ DeckDrop(k, x) /\ d = k.arg[2] /\ ~Has(Deck(d))'
<1>1. Wrote(x) /\ WriteOf(k, x) BY DEF Writes
<1>2. CASE x.key # Deck(d) BY <1>1, <1>2 DEF Wrote, Has
<1>3. CASE x.key = Deck(d)
  <2>1. ~VotePut(k, x) /\ ~VoteDrop(k, x) /\ ~DeckTagPut(k, x) /\ ~DeckTagDrop(k, x)
    BY <1>3, Keys DEF VotePut, VoteDrop, DeckTagPut, DeckTagDrop, Delete
  <2>2. ~TagPut(k, x) /\ ~TagUpdate(k, x) /\ ~TagDrop(k, x) /\ ~StoryPut(k, x) /\ ~StoryDrop(k, x)
    BY <1>3, Keys DEF TagPut, TagUpdate, TagDrop, StoryPut, StoryDrop
  <2>3. ~SubPutNew(k, x) /\ ~SubPut(k, x) /\ ~SubDrop(k, x)
    BY <1>3, Keys DEF SubPutNew, SubPut, SubDrop, SubOf
  <2>4. CASE DeckPut(k, x)
    <3>1. x.do = "put" /\ d = k.arg[2] BY <1>3, <2>4, Keys DEF DeckPut
    <3> QED BY <1>1, <1>3, <2>4, <3>1 DEF Wrote, Has
  <2>5. CASE VocabPut(k, x)
    <3>1. x.do = "put" /\ d = k.id BY <1>3, <2>5, Keys DEF VocabPut
    <3> QED BY <1>1, <1>3, <2>5, <3>1 DEF Wrote, Has
  <2>6. CASE DeckDrop(k, x)
    <3>1. x.do = "delete" /\ d = k.arg[2] BY <1>3, <2>6, Keys DEF DeckDrop
    <3> QED BY <1>1, <1>3, <2>6, <3>1 DEF Wrote, Has
  <2> QED BY <1>1, <2>1, <2>2, <2>3, <2>4, <2>5, <2>6 DEF WriteOf
<1> QED BY <1>2, <1>3

LEMMA StoryAfter ==
    ASSUME NEW w, NEW k, NEW n, NEW x, Writes(w, k, n, x), NEW d
    PROVE  \/ x.key # Story(d) /\ (Has(Story(d))' <=> Has(Story(d)))
              /\ (Has(Story(d)) => items'[Story(d)] = items[Story(d)])
           \/ StoryPut(k, x) /\ d = k.arg[2] /\ Has(Story(d))' /\ items'[Story(d)] = x.val
           \/ StoryDrop(k, x) /\ d = k.arg[2] /\ ~Has(Story(d))'
<1>1. Wrote(x) /\ WriteOf(k, x) BY DEF Writes
<1>2. CASE x.key # Story(d) BY <1>1, <1>2 DEF Wrote, Has
<1>3. CASE x.key = Story(d)
  <2>1. ~VotePut(k, x) /\ ~VoteDrop(k, x) /\ ~DeckTagPut(k, x) /\ ~DeckTagDrop(k, x)
    BY <1>3, Keys DEF VotePut, VoteDrop, DeckTagPut, DeckTagDrop, Delete
  <2>2. ~TagPut(k, x) /\ ~TagUpdate(k, x) /\ ~TagDrop(k, x)
        /\ ~DeckPut(k, x) /\ ~VocabPut(k, x) /\ ~DeckDrop(k, x)
    BY <1>3, Keys DEF TagPut, TagUpdate, TagDrop, DeckPut, VocabPut, DeckDrop
  <2>3. ~SubPutNew(k, x) /\ ~SubPut(k, x) /\ ~SubDrop(k, x)
    BY <1>3, Keys DEF SubPutNew, SubPut, SubDrop, SubOf
  <2>4. CASE StoryPut(k, x)
    <3>1. x.do = "put" /\ d = k.arg[2] BY <1>3, <2>4, Keys DEF StoryPut
    <3> QED BY <1>1, <1>3, <2>4, <3>1 DEF Wrote, Has
  <2>6. CASE StoryDrop(k, x)
    <3>1. x.do = "delete" /\ d = k.arg[2] BY <1>3, <2>6, Keys DEF StoryDrop
    <3> QED BY <1>1, <1>3, <2>6, <3>1 DEF Wrote, Has
  <2> QED BY <1>1, <2>1, <2>2, <2>3, <2>4, <2>6 DEF WriteOf
<1> QED BY <1>2, <1>3

LEMMA TagAfter ==
    ASSUME NEW w, NEW k, NEW n, NEW x, Writes(w, k, n, x), NEW g
    PROVE  \/ x.key # TagRow(g) /\ (Has(TagRow(g))' <=> Has(TagRow(g)))
              /\ (Has(TagRow(g)) => items'[TagRow(g)] = items[TagRow(g)])
              /\ (TagThere(g)' <=> TagThere(g))
           \/ TagPut(k, x) /\ g = k.arg[1] /\ Has(TagRow(g))' /\ (TagThere(g)' <=> TagThere(g) \/ ~Has(TagRow(g)))
           \/ TagUpdate(k, x) /\ g = k.arg[1] /\ Has(TagRow(g))' /\ (TagThere(g) => TagThere(g)')
           \/ TagDrop(k, x) /\ g = k.arg[1] /\ ~Has(TagRow(g))'
<1>1. Wrote(x) /\ WriteOf(k, x) BY DEF Writes
<1>2. CASE x.key # TagRow(g) BY <1>1, <1>2 DEF Wrote, Has, TagThere
<1>3. CASE x.key = TagRow(g)
  <2>1. ~VotePut(k, x) /\ ~VoteDrop(k, x) /\ ~DeckTagPut(k, x) /\ ~DeckTagDrop(k, x)
    BY <1>3, Keys DEF VotePut, VoteDrop, DeckTagPut, DeckTagDrop, Delete
  <2>2. /\ ~StoryPut(k, x) /\ ~StoryDrop(k, x)
        /\ ~DeckPut(k, x) /\ ~VocabPut(k, x) /\ ~DeckDrop(k, x)
    BY <1>3, Keys DEF StoryPut, StoryDrop, DeckPut, VocabPut, DeckDrop
  <2>3. ~SubPutNew(k, x) /\ ~SubPut(k, x) /\ ~SubDrop(k, x)
    BY <1>3, Keys DEF SubPutNew, SubPut, SubDrop, SubOf
  <2>4. CASE TagPut(k, x)
    <3>1. x.do = "putNew" /\ g = k.arg[1] /\ x.val = WholeTag BY <1>3, <2>4, Keys DEF TagPut
    <3>2. "slug" \in DOMAIN WholeTag BY DEF WholeTag
    <3>3. /\ TagRow(g) \in DOMAIN items'
          /\ TagRow(g) \in DOMAIN items => items'[TagRow(g)] = items[TagRow(g)]
          /\ TagRow(g) \notin DOMAIN items => items'[TagRow(g)] = WholeTag
      BY <1>1, <1>3, <3>1 DEF Wrote
    <3> QED BY <2>4, <3>1, <3>2, <3>3 DEF Has, TagThere
  <2>5. CASE TagUpdate(k, x)
    <3>1. g = k.arg[1] /\ items' = After(x) BY ZenonT(60), <1>3, <2>5, Keys DEF TagUpdate, Writes
    <3>2. (TagThere(g) => TagThere(g)') /\ Has(TagRow(g))' BY <1>3, <2>5, <3>1, Recolored
    <3> QED BY <2>5, <3>1, <3>2
  <2>6. CASE TagDrop(k, x)
    <3>1. x.do = "delete" /\ g = k.arg[1] BY <1>3, <2>6, Keys DEF TagDrop
    <3> QED BY <1>1, <1>3, <2>6, <3>1 DEF Wrote, Has
  <2> QED BY <1>1, <2>1, <2>2, <2>3, <2>4, <2>5, <2>6 DEF WriteOf
<1> QED BY <1>2, <1>3

LEMMA RowsKept ==
    ASSUME ContentInv, NEW w \in Worker, NEW k, NEW n, NEW x, Writes(w, k, n, x)
    PROVE  Rows'
<1>1. Rows /\ requests' = requests /\ shared' = shared /\ Fresh(k) /\ k.todo # <<>>
  BY DEF ContentInv, Writes
<1>2. ASSUME NEW d, Has(Deck(d))' \/ Deck(d) \in gone'
      PROVE  d \in 0..requests
  <2>1. CASE Has(Deck(d))'
    BY <1>1, <2>1, DeckAfter DEF Rows, DeckPut, VocabPut, ContentInv
  <2>2. CASE Deck(d) \in gone' BY <1>1, <2>2, GoneAfter DEF Rows, Has
  <2> QED BY <1>2, <2>1, <2>2
<1>3. ASSUME NEW d, Has(Story(d))' \/ Story(d) \in gone'
      PROVE  d \in 0..requests
  <2>1. CASE Has(Story(d))'
    BY <1>1, <2>1, StoryAfter DEF Rows, StoryPut
  <2>2. CASE Story(d) \in gone' BY <1>1, <2>2, GoneAfter DEF Rows, Has
  <2> QED BY <1>3, <2>1, <2>2
<1>4. ASSUME NEW d, Has(Deck(d))'
      PROVE  /\ items'[Deck(d)] \in DeckRows
             /\ items'[Deck(d)].vocab => items'[Deck(d)].author # Nobody
  <2>1. CASE Has(Deck(d)) /\ items'[Deck(d)] = items[Deck(d)] BY <1>1, <2>1 DEF Rows
  <2>2. CASE DeckPut(k, x) /\ items'[Deck(d)] = x.val BY <2>2 DEF DeckPut
  <2>3. CASE VocabPut(k, x) /\ items'[Deck(d)] = x.val
    BY ZenonT(60), <2>3, SomeoneKnown DEF VocabPut, NewVocab, NewDeck, DeckRows, Status
  <2> QED BY <1>4, <2>1, <2>2, <2>3, DeckAfter
<1>5. ASSUME NEW d, Has(Story(d))' PROVE items'[Story(d)] \in StoryRows
  BY <1>1, <1>5, StoryAfter DEF Rows, StoryPut
<1>6. ASSUME NEW g \in Tag, Has(TagRow(g))', "slug" \notin DOMAIN items'[TagRow(g)]
      PROVE  TagRow(g) \in shared
  <2>1. ~TagThere(g)' BY <1>6 DEF TagThere
  <2>2. Has(TagRow(g)) /\ ~TagThere(g) => TagRow(g) \in shared BY <1>1 DEF Rows, TagThere
  <2>3. TagThere(g) => Has(TagRow(g)) BY DEF TagThere
  <2>4. TagUpdate(k, x) /\ g = k.arg[1] => TagThere(g) \/ TagRow(g) \in shared
    BY <1>1 DEF TagUpdate, Fresh, TagFresh
  <2>5. TagDrop(k, x) /\ g = k.arg[1] => Has(TagRow(g))' BY <1>6
  <2> QED BY <1>6, <2>1, <2>2, <2>3, <2>4, <2>5, TagAfter
<1> QED BY <1>1, <1>2, <1>3, <1>4, <1>5, <1>6 DEF Rows

LEMMA GoneKept ==
    ASSUME ContentInv, NEW w \in Worker, NEW k, NEW n, NEW x, Writes(w, k, n, x)
    PROVE  GoneStaysGone'
<1> SUFFICES ASSUME NEW key \in gone', key \in DOMAIN items', Lasting(key)
             PROVE  key \in shared
  BY DEF GoneStaysGone, Lasting, Writes
<1>0. Wrote(x) /\ WriteOf(k, x) /\ Fresh(k) /\ k.todo # <<>> /\ k = call[w]
  BY DEF Writes, ContentInv
<1>1. key \in gone
  <2>1. x.do = "delete" => x.key \notin DOMAIN items' BY <1>0 DEF Wrote
  <2> QED BY <2>1, GoneAfter
<1>2. CASE key \in DOMAIN items
  BY <1>1, <1>2 DEF ContentInv, GoneStaysGone, Lasting
<1>3. CASE key \notin DOMAIN items
  <2>1. key = x.key BY <1>0, <1>3 DEF Wrote
  <2>2. x.do # "delete" BY <1>0, <2>1 DEF Wrote
  <2>3. k.op \notin {"newTag", "subscribe", "vocab"} BY <1>0 DEF Writes, Makes
  <2>4. DeckPut(k, x) \/ StoryPut(k, x) \/ SubPut(k, x) \/ TagUpdate(k, x)
    <3>1. ~VotePut(k, x) /\ ~DeckTagPut(k, x)
      BY <2>1, Kinds DEF VotePut, DeckTagPut
    <3>2. ~TagPut(k, x) /\ ~SubPutNew(k, x) /\ ~VocabPut(k, x)
      BY <2>3 DEF TagPut, SubPutNew, VocabPut
    <3>3. /\ ~DeckDrop(k, x) /\ ~VoteDrop(k, x) /\ ~DeckTagDrop(k, x)
          /\ ~TagDrop(k, x) /\ ~StoryDrop(k, x) /\ ~SubDrop(k, x)
      BY <2>2 DEF DeckDrop, VoteDrop, DeckTagDrop, TagDrop, StoryDrop, SubDrop
    <3> QED BY <1>0, <3>1, <3>2, <3>3 DEF WriteOf
  <2>5. NotGone(key)
    <3>1. CASE DeckPut(k, x) BY <1>0, <2>1, <3>1 DEF DeckPut, Fresh, DeckFresh
    <3>2. CASE StoryPut(k, x) BY <1>0, <2>1, <3>2 DEF StoryPut, Fresh, StoryFresh
    <3>3. CASE SubPut(k, x) BY <1>0, <2>1, <3>3 DEF SubPut, Fresh, SubFresh
    <3>4. CASE TagUpdate(k, x) BY <1>0, <2>1, <3>4 DEF TagUpdate, Fresh, TagFresh
    <3> QED BY <2>4, <3>1, <3>2, <3>3, <3>4
  <2> QED BY <1>1, <2>5 DEF NotGone
<1> QED BY <1>2, <1>3

\* A request after one of its writes.
LEMMA Continues ==
    ASSUME ContentInv, NEW w \in Worker, NEW k, NEW n, NEW x, Writes(w, k, n, x)
    PROVE  /\ Sequence(n.todo) /\ Planned(n.todo) \subseteq Planned(k.todo)
           /\ Planned(k.todo) \subseteq Planned(n.todo) \cup {x}
           /\ Distinct(k.todo) => Distinct(n.todo) /\ x \notin Planned(n.todo)
           /\ n = Idle \/ n = With(k, n.todo, k.at)
           /\ n = Idle <=> n.todo = <<>> /\ k.at = "done"
           /\ (\E y : k.todo = <<{y}>>) => n.todo = <<>>
<1> DEFINE rest == Rest(k.todo, x)
<1>1. CallsOK /\ Shaped(k) /\ Sequence(k.todo) /\ k.todo # <<>> /\ k.op # "idle"
  BY DEF ContentInv, CallsOK, Writes
<1>2. /\ Sequence(rest) /\ Planned(rest) \subseteq Planned(k.todo)
      /\ Planned(k.todo) \subseteq Planned(rest) \cup {x}
      /\ Distinct(k.todo) => Distinct(rest) /\ x \notin Planned(rest)
  BY <1>1, RestOf DEF Writes
<1>3. (\E y : k.todo = <<{y}>>) => rest = <<>>
  <2> SUFFICES ASSUME NEW y, k.todo = <<{y}>> PROVE rest = <<>>
    OBVIOUS
  <2> DEFINE S == {y}
  <2>1. Head(<<S>>) = S BY OneSet
  <2>2. x \in Head(k.todo) BY DEF Writes
  <2>3. S \ {x} = {} BY <2>1, <2>2
  <2> HIDE DEF S
  <2>4. Rest(<<S>>, x) = <<>> BY <2>3, RestOfOne
  <2> QED BY <2>4 DEF S
<1>4. n = Onward(k, rest, k.at) BY DEF Writes
<1> HIDE DEF rest
<1>5. CASE rest = <<>> /\ k.at = "done"
  <2>1. n = Idle BY <1>4, <1>5 DEF Onward
  <2> QED BY <1>2, <1>5, <2>1, IdleCall
<1>6. CASE ~(rest = <<>> /\ k.at = "done")
  <2>1. n = With(k, rest, k.at) BY <1>1, <1>4, <1>6, OnwardWith
  <2>2. n.todo = rest /\ n.op = k.op BY <2>1 DEF With
  <2>3. n # Idle BY <1>1, <2>2, IdleCall
  <2> QED BY <1>2, <1>3, <1>6, <2>1, <2>2, <2>3
<1> QED BY <1>5, <1>6

LEMMA WithSame ==
    ASSUME NEW k, NEW n, NEW todo, NEW at, n = With(k, todo, at)
    PROVE  n.op = k.op /\ n.on = k.on /\ n.arg = k.arg /\ n.id = k.id /\ n.at = at /\ n.todo = todo
BY DEF With

LEMMA OrphansKept ==
    ASSUME ContentInv, NEW w \in Worker, NEW k, NEW n, NEW x, Writes(w, k, n, x)
    PROVE  Orphans'
<1>0. /\ Wrote(x) /\ WriteOf(k, x) /\ Fresh(k) /\ Request(k) /\ k = call[w] /\ n = call'[w]
      /\ k.op # "idle" /\ Orphans /\ shared' = shared /\ torn' = torn
      /\ \A v \in Worker \ {w} : call'[v] = call[v]
  BY DEF Writes, ContentInv
<1>1. /\ n = Idle \/ n = With(k, n.todo, k.at)
      /\ Planned(k.todo) \subseteq Planned(n.todo) \cup {x}
      /\ n = Idle <=> n.todo = <<>> /\ k.at = "done"
  BY Continues
<1>2. n # Idle => n.op = k.op /\ n.arg = k.arg /\ n.at = k.at BY <1>1, WithSame
<1>3. n = Idle => Planned(n.todo) = {} BY <1>1, NoPlan
<1>4. ASSUME NEW d \in Id, NEW u \in User, Has(DeckVote(d, u))', ~Has(Deck(d))', Orderly(Deck(d))
      PROVE  \E v \in Worker : ClearsVote(call'[v], d, u)
  <2>1. CASE Has(DeckVote(d, u)) /\ ~Has(Deck(d))
    <3>1. PICK v \in Worker : ClearsVote(call[v], d, u) BY <1>0, <1>4, <2>1 DEF Orphans
    <3>2. CASE v # w
      <4>1. call'[v] = call[v] BY <1>0, <3>2
      <4> QED BY <3>1, <4>1
    <3>3. CASE v = w
      <4>1. ClearsVote(k, d, u) BY <1>0, <3>1, <3>3
      <4>2. x # Delete(DeckVote(d, u))
        <5>1. x.do = "delete" => ~Has(x.key)' BY <1>0 DEF Wrote, Has
        <5> QED BY <1>4, <5>1 DEF Delete
      <4>3. CASE k.at = "votes"
        <5>1. n # Idle BY <1>1, <4>3
        <5> QED BY <1>0, <1>2, <4>1, <4>3, <5>1 DEF ClearsVote
      <4>4. CASE Delete(DeckVote(d, u)) \in Planned(k.todo)
        <5>1. Delete(DeckVote(d, u)) \in Planned(n.todo) BY <1>1, <4>2, <4>4
        <5>2. n # Idle BY <1>3, <5>1
        <5> QED BY <1>0, <1>2, <4>1, <5>1, <5>2 DEF ClearsVote
      <4> QED BY <4>1, <4>3, <4>4 DEF ClearsVote
    <3> QED BY <3>2, <3>3
  <2>2. CASE Has(Deck(d))
    <3>1. DeckDrop(k, x) /\ d = k.arg[2] BY <1>4, <2>2, DeckAfter
    <3>2. k.op = "delete" /\ k.at = "votes" BY <3>1 DEF DeckDrop
    <3>3. n # Idle BY <1>1, <3>2
    <3> QED BY <1>0, <1>2, <3>1, <3>2, <3>3 DEF ClearsVote
  <2>3. CASE ~Has(DeckVote(d, u)) /\ ~Has(Deck(d))
    <3>1. x.key = DeckVote(d, u) /\ x.do # "delete" BY <1>0, <1>4, <2>3 DEF Wrote, Has
    <3>2. VotePut(k, x)
      <4>1. /\ ~DeckPut(k, x) /\ ~VocabPut(k, x) /\ ~DeckDrop(k, x) /\ ~DeckTagPut(k, x)
            /\ ~TagPut(k, x) /\ ~TagUpdate(k, x) /\ ~TagDrop(k, x) /\ ~StoryPut(k, x)
        BY <3>1, Keys DEF DeckPut, VocabPut, DeckDrop, DeckTagPut, TagPut, TagUpdate, TagDrop, StoryPut
      <4>2. ~SubPutNew(k, x) /\ ~SubPut(k, x) BY <3>1, Keys DEF SubPutNew, SubPut, SubOf
      <4>3. ~VoteDrop(k, x) /\ ~DeckTagDrop(k, x) /\ ~StoryDrop(k, x) /\ ~SubDrop(k, x)
        BY <3>1 DEF VoteDrop, DeckTagDrop, StoryDrop, SubDrop
      <4> QED BY <1>0, <4>1, <4>2, <4>3 DEF WriteOf
    <3>3. d = k.arg[2] /\ k.op = "vote" /\ k.at = "done" 
      <4>1. DeckVote(d, u) = DeckVote(k.arg[2], k.arg[1]) /\ k.op = "vote" /\ k.at = "done"
        BY <3>1, <3>2 DEF VotePut
      <4> QED BY <4>1 DEF DeckVote
    <3>4. Has(Deck(d)) \/ Deck(d) \in shared BY <1>0, <3>3 DEF Fresh, VoteFresh
    <3> QED BY <1>4, <2>3, <3>4 DEF Orderly
  <2> QED BY <2>1, <2>2, <2>3
<1>5. ASSUME NEW d \in Id, NEW g \in Tag, Has(DeckTag(d, g))', ~Has(TagRow(g))', Orderly(TagRow(g))
      PROVE  \E v \in Worker : ClearsTag(call'[v], d, g)
  <2>1. CASE Has(DeckTag(d, g)) /\ ~Has(TagRow(g))
    <3>1. PICK v \in Worker : ClearsTag(call[v], d, g) BY <1>0, <1>5, <2>1 DEF Orphans
    <3>2. CASE v # w
      <4>1. call'[v] = call[v] BY <1>0, <3>2
      <4> QED BY <3>1, <4>1
    <3>3. CASE v = w
      <4>1. ClearsTag(k, d, g) BY <1>0, <3>1, <3>3
      <4>2. x # Delete(DeckTag(d, g))
        <5>1. x.do = "delete" => ~Has(x.key)' BY <1>0 DEF Wrote, Has
        <5> QED BY <1>5, <5>1 DEF Delete
      <4>3. CASE k.at = "mirrors"
        <5>1. n # Idle BY <1>1, <4>3
        <5> QED BY <1>0, <1>2, <4>1, <4>3, <5>1 DEF ClearsTag
      <4>4. CASE Delete(DeckTag(d, g)) \in Planned(k.todo)
        <5>1. Delete(DeckTag(d, g)) \in Planned(n.todo) BY <1>1, <4>2, <4>4
        <5>2. n # Idle BY <1>3, <5>1
        <5> QED BY <1>0, <1>2, <4>1, <5>1, <5>2 DEF ClearsTag
      <4> QED BY <4>1, <4>3, <4>4 DEF ClearsTag
    <3> QED BY <3>2, <3>3
  <2>2. CASE Has(TagRow(g))
    <3>1. TagDrop(k, x) /\ g = k.arg[1] BY <1>5, <2>2, TagAfter
    <3>2. k.op = "dropTag" /\ k.at = "mirrors" BY <3>1 DEF TagDrop
    <3>3. n # Idle BY <1>1, <3>2
    <3> QED BY <1>0, <1>2, <3>1, <3>2, <3>3 DEF ClearsTag
  <2>3. CASE ~Has(DeckTag(d, g)) /\ ~Has(TagRow(g))
    <3>1. x.key = DeckTag(d, g) /\ x.do # "delete" BY <1>0, <1>5, <2>3 DEF Wrote, Has
    <3>2. DeckTagPut(k, x)
      <4>1. /\ ~DeckPut(k, x) /\ ~VocabPut(k, x) /\ ~DeckDrop(k, x) /\ ~VotePut(k, x)
            /\ ~TagPut(k, x) /\ ~TagUpdate(k, x) /\ ~TagDrop(k, x) /\ ~StoryPut(k, x)
        BY <3>1, Keys DEF DeckPut, VocabPut, DeckDrop, VotePut, TagPut, TagUpdate, TagDrop, StoryPut
      <4>2. ~SubPutNew(k, x) /\ ~SubPut(k, x) BY <3>1, Keys DEF SubPutNew, SubPut, SubOf
      <4>3. ~VoteDrop(k, x) /\ ~DeckTagDrop(k, x) /\ ~StoryDrop(k, x) /\ ~SubDrop(k, x)
        BY <3>1 DEF VoteDrop, DeckTagDrop, StoryDrop, SubDrop
      <4> QED BY <1>0, <4>1, <4>2, <4>3 DEF WriteOf
    <3>3. g \in UNION k.arg[3] /\ DeckWriter(k) /\ k.at = "upsert"
      <4>1. PICK h \in UNION k.arg[3] : DeckTag(d, g) = DeckTag(k.arg[2], h)
        BY <3>1, <3>2 DEF DeckTagPut
      <4>2. g = h BY <4>1 DEF DeckTag
      <4> QED BY <3>2, <4>2 DEF DeckTagPut
    <3>4. Has(TagRow(g)) \/ TagRow(g) \in shared BY <1>0, <3>3 DEF Fresh, DeckFresh
    <3> QED BY <1>5, <2>3, <3>4 DEF Orderly
  <2> QED BY <2>1, <2>2, <2>3
<1>6. \A key : Orderly(key)' <=> Orderly(key) BY <1>0 DEF Orderly
<1> QED BY <1>4, <1>5, <1>6 DEF Orphans

LEMMA AuthorKept ==
    ASSUME ContentInv, NEW w \in Worker, NEW k, NEW n, NEW x, Writes(w, k, n, x),
           NEW d, d \notin unclaimed
    PROVE  OneAuthor(d)'
<1>0. /\ k = call[w] /\ n = call'[w] /\ \A v \in Worker \ {w} : call'[v] = call[v]
      /\ Request(k) /\ k.op # "idle"
  BY DEF Writes, ContentInv
<1>1. PICK a \in User : /\ Has(Deck(d)) => items[Deck(d)].author = a
                        /\ \A v \in Worker : Authors(call[v], d) \subseteq {a}
  BY DEF ContentInv, OneAuthor
<1>2. Authors(n, d) \subseteq Authors(k, d)
  <2>1. n = Idle \/ n = With(k, n.todo, k.at) BY Continues
  <2>2. CASE n = Idle
    <3>1. n.op = "idle" BY <2>2, IdleCall
    <3> QED BY <3>1 DEF Authors, DeckWriter
  <2>3. CASE n = With(k, n.todo, k.at)
    <3>1. n.op = k.op /\ n.at = k.at /\ n.arg = k.arg /\ n.id = k.id BY <2>3, WithSame
    <3> QED BY <3>1 DEF Authors, DeckWriter, AskedVocab
  <2> QED BY <2>1, <2>2, <2>3
<1>3. \A v \in Worker : Authors(call'[v], d) \subseteq {a} BY <1>0, <1>1, <1>2
<1>4. Has(Deck(d))' => items'[Deck(d)].author = a
  <2> SUFFICES ASSUME Has(Deck(d))' PROVE items'[Deck(d)].author = a
    OBVIOUS
  <2>1. CASE DeckPut(k, x) /\ d = k.arg[2] /\ items'[Deck(d)] = x.val
    <3>1. k.arg[5].author \in Authors(k, d) BY <2>1 DEF DeckPut, Authors
    <3>2. k.arg[5].author = a BY <1>0, <1>1, <3>1
    <3>3. a # Nobody BY SomeoneKnown
    <3>4. k.arg[5].author # Nobody => x.val.author = k.arg[5].author BY <2>1 DEF DeckPut
    <3> QED BY <2>1, <3>2, <3>3, <3>4
  <2>2. CASE VocabPut(k, x) /\ d = k.id /\ items'[Deck(d)] = x.val
    <3>1. AskedVocab(k) \in Authors(k, d) BY <2>2 DEF VocabPut, Authors
    <3>2. AskedVocab(k) = a BY <1>0, <1>1, <3>1
    <3>3. x.val.author = AskedVocab(k) BY <2>2 DEF VocabPut, NewVocab, NewDeck
    <3> QED BY <2>2, <3>2, <3>3
  <2> QED BY <1>1, <2>1, <2>2, DeckAfter
<1> QED BY <1>3, <1>4 DEF OneAuthor

\* A user gets a vocabulary from the one who asks for it.
LEMMA VocabularyAfter ==
    ASSUME ContentInv, NEW w \in Worker, NEW k, NEW n, NEW x, Writes(w, k, n, x), NEW u,
           NEW d \in Vocabularies(u)', d \notin Vocabularies(u)
    PROVE  VocabPut(k, x) /\ AskedVocab(k) = u /\ d = k.id
<1>0. Request(k) /\ Fresh(k) /\ Rows /\ k.op # "idle" /\ shared' = shared
  BY DEF Writes, ContentInv
<1>1. /\ d \in Id /\ Has(Deck(d))' /\ Deck(d) \notin shared
      /\ items'[Deck(d)].author = u /\ items'[Deck(d)].vocab
  BY <1>0 DEF Vocabularies, VocabDecks
<1>2. ~(Has(Deck(d)) /\ items[Deck(d)].author = u /\ items[Deck(d)].vocab)
  BY <1>1 DEF Vocabularies, VocabDecks
<1>3. CASE DeckPut(k, x) /\ d = k.arg[2] /\ items'[Deck(d)] = x.val
  <2>1. DeckWriter(k) /\ k.at = "done" /\ x.val.vocab = k.arg[5].vocab BY <1>3 DEF DeckPut
  <2>2. k.op # "create" BY <1>0, <1>1, <1>3, <2>1 DEF Fresh, DeckFresh
  <2>3. x \in Planned(k.todo) BY DEF Writes
  <2>4. Has(Deck(d)) /\ Keeps(k, x.val, items[Deck(d)])
    BY <1>0, <1>1, <1>3, <2>1, <2>2, <2>3 DEF Fresh, DeckFresh
  <2>5. items[Deck(d)].vocab /\ items[Deck(d)].author = u
    BY <1>0, <1>1, <1>3, <2>4 DEF Keeps, Rows
  <2> QED BY <1>2, <2>4, <2>5
<1>4. CASE VocabPut(k, x) /\ d = k.id /\ items'[Deck(d)] = x.val
  <2>1. x.val.author = AskedVocab(k) BY <1>4 DEF VocabPut, NewVocab, NewDeck
  <2> QED BY <1>1, <1>4, <2>1
<1> QED BY <1>1, <1>2, <1>3, <1>4, DeckAfter

LEMMA VocabKept ==
    ASSUME ContentInv, NEW w \in Worker, NEW k, NEW n, NEW x, Writes(w, k, n, x),
           NEW u \in User, Vocab(u) \notin shared
    PROVE  AtMostOne(Vocabularies(u)')
<1>0. Request(k) /\ Fresh(k) /\ k.op # "idle" /\ x \in Planned(k.todo)
  BY DEF Writes, ContentInv
<1>1. AtMostOne(Vocabularies(u)) BY DEF ContentInv
<1>2. CASE VocabPut(k, x) /\ AskedVocab(k) = u
  <2>1. Vocabularies(u) = {} BY <1>0, <1>2 DEF Fresh, VocabFresh, VocabPut
  <2>2. \A d \in Vocabularies(u)' : d = k.id BY <2>1, VocabularyAfter
  <2> QED BY <2>2 DEF AtMostOne
<1>3. CASE ~(VocabPut(k, x) /\ AskedVocab(k) = u)
  <2>1. Vocabularies(u)' \subseteq Vocabularies(u) BY <1>3, VocabularyAfter
  <2> QED BY <1>1, <2>1 DEF AtMostOne
<1> QED BY <1>2, <1>3

\* Another request still relies on what it did.
LEMMA OthersFresh ==
    ASSUME ContentInv, NEW w \in Worker, NEW k, NEW n, NEW x, Writes(w, k, n, x),
           NEW v \in Worker \ {w}, NEW m, m = call[v]
    PROVE  Fresh(m)'
<1>0. Request(m) /\ Fresh(m) /\ shared' = shared /\ k = call[w] BY DEF ContentInv, Writes
<1>1. CASE m.op = "idle"
  BY <1>1 DEF Fresh, DeckFresh, VoteFresh, TagFresh, StoryFresh, SubFresh, VocabFresh, DeckWriter,
              StoryWriter
<1>2. CASE m.op # "idle"
  <2>g. ASSUME NEW key \in m.on, Lasting(key), NotGone(key) PROVE NotGone(key)'
    BY <2>g, <1>0, Undisturbed DEF NotGone
  <2>d. ASSUME NEW d, Deck(d) \in m.on, Deck(d) \notin shared
        PROVE  (Has(Deck(d))' <=> Has(Deck(d))) /\ (Has(Deck(d)) => items'[Deck(d)] = items[Deck(d)])
    <3>1. x.key # Deck(d) BY <1>0, <2>d, Kinds, Undisturbed
    <3> QED BY <3>1 DEF Writes, Wrote, Has
  <2>t. ASSUME NEW g, TagRow(g) \in m.on, TagRow(g) \notin shared
        PROVE  (Has(TagRow(g))' <=> Has(TagRow(g))) /\ (TagThere(g)' <=> TagThere(g))
    <3>1. x.key # TagRow(g) BY <1>0, <2>t, Kinds, Undisturbed
    <3> QED BY <3>1 DEF Writes, Wrote, Has, TagThere
  <2>1. DeckFresh(m)'
    <3> SUFFICES ASSUME DeckWriter(m), m.at # "read" PROVE DeckFresh(m)'
      BY DEF DeckFresh
    <3> DEFINE d == m.arg[2]
    <3>1. Deck(d) \in m.on /\ \A g \in UNION m.arg[3] : TagRow(g) \in m.on
      BY <1>0, <1>2 DEF Request, DeckRequest
    <3>2. NotGone(Deck(d))' BY <1>0, <2>g, <3>1, Kinds DEF Fresh, DeckFresh
    <3>3. m.op = "create" => ~m.arg[5].vocab /\ (Has(Deck(d))' => Deck(d) \in shared)
      BY <1>0, <2>d, <3>1 DEF Fresh, DeckFresh
    <3>4. m.op # "create" /\ Deck(d) \notin shared =>
              /\ Has(Deck(d))' /\ Keeps(m, m.arg[5], items'[Deck(d)])
              /\ (m.at = "done" => \A y \in Planned(m.todo) : Keeps(m, y.val, items'[Deck(d)]))
      BY <1>0, <2>d, <3>1 DEF Fresh, DeckFresh
    <3>5. m.at \in {"difference", "upsert"} =>
              \A g \in UNION m.arg[3] : Has(TagRow(g))' \/ TagRow(g) \in shared
      BY <1>0, <2>t, <3>1 DEF Fresh, DeckFresh
    <3>6. \A row, was : Keeps(m, row, was)' = Keeps(m, row, was) BY DEF Keeps
    <3> QED BY <1>0, <3>2, <3>3, <3>4, <3>5 DEF DeckFresh
  <2>2. VoteFresh(m)'
    BY <1>0, <1>2, <2>d DEF Fresh, VoteFresh, Request, OtherDeckRequest
  <2>3. TagFresh(m)'
    BY <1>0, <1>2, <2>g, <2>t, Kinds DEF Fresh, TagFresh, Request, TagRequest
  <2>4. StoryFresh(m)'
    <3> SUFFICES ASSUME m.op = "story" \/ (StoryWriter(m) /\ m.todo # <<>>)
                 PROVE  NotGone(Story(m.arg[2]))'
      BY DEF StoryFresh, StoryWriter
    <3>1. StoryWriter(m) BY DEF StoryWriter
    <3>2. Story(m.arg[2]) \in m.on BY <1>0, <1>2, <3>1 DEF Request, StoryRequest
    <3> QED BY <1>0, <2>g, <3>2, Kinds DEF Fresh, StoryFresh
  <2>5. SubFresh(m)'
    <3> SUFFICES ASSUME m.op = "adjust", m.todo # <<>> PROVE NotGone(SubOf(m))'
      BY DEF SubFresh, SubOf
    <3>1. SubOf(m) \in m.on /\ Lasting(SubOf(m)) BY <1>0, <1>2, Kinds DEF Request, SubRequest, SubOf
    <3> QED BY <1>0, <2>g, <3>1 DEF Fresh, SubFresh
  <2>6. VocabFresh(m)'
    <3> SUFFICES ASSUME m.op = "vocab" PROVE VocabFresh(m)'
      BY DEF VocabFresh
    <3> DEFINE u == AskedVocab(m)
    <3>1. Deck(m.id) \in m.on /\ Vocab(u) \in m.on BY <1>0, <1>2 DEF Request, VocabRequest
    <3>2. Vocab(u) \notin shared => Vocabularies(u)' \subseteq Vocabularies(u)
      <4> SUFFICES ASSUME Vocab(u) \notin shared, NEW d \in Vocabularies(u)', d \notin Vocabularies(u)
                   PROVE  FALSE
        OBVIOUS
      <4>1. VocabPut(k, x) /\ AskedVocab(k) = u BY VocabularyAfter
      <4>2. Request(k) /\ k.op = "vocab" BY <4>1 DEF VocabPut, ContentInv, Writes
      <4>3. Vocab(u) \in k.on BY <4>1, <4>2 DEF Request, VocabRequest
      <4> QED BY <1>0, <3>1, <4>3 DEF ContentInv, Overlaps
    <3>3. Has(Deck(m.id))' => Has(Deck(m.id)) \/ Deck(m.id) \in shared BY <2>d, <3>1
    <3>4. VocabFresh(m) BY <1>0 DEF Fresh
    <3> QED BY <1>0, <3>2, <3>3, <3>4 DEF VocabFresh, AskedVocab
  <2> QED BY <2>1, <2>2, <2>3, <2>4, <2>5, <2>6 DEF Fresh
<1> QED BY <1>1, <1>2

\* The request itself goes on, or has ended.
LEMMA OwnKept ==
    ASSUME ContentInv, NEW w \in Worker, NEW k, NEW n, NEW x, Writes(w, k, n, x)
    PROVE  Request(n)' /\ Fresh(n)'
<1>0. /\ Request(k) /\ Fresh(k) /\ k.op # "idle" /\ x \in Planned(k.todo) /\ k.todo # <<>>
      /\ WriteOf(k, x) /\ shared' = shared /\ requests' = requests
  BY DEF Writes, ContentInv
<1>1. /\ Sequence(n.todo) /\ Planned(n.todo) \subseteq Planned(k.todo)
      /\ Distinct(k.todo) => Distinct(n.todo) /\ x \notin Planned(n.todo)
      /\ n = Idle \/ n = With(k, n.todo, k.at)
      /\ n = Idle <=> n.todo = <<>> /\ k.at = "done"
      /\ (\E y : k.todo = <<{y}>>) => n.todo = <<>>
  BY Continues
<1>2. CASE n = Idle
  <2>1. n.op = "idle" BY <1>2, IdleCall
  <2>2. Request(n)' BY <2>1 DEF Request
  <2> QED BY <2>1, <2>2 DEF Fresh, DeckFresh, VoteFresh, TagFresh, StoryFresh, SubFresh, VocabFresh,
                            DeckWriter, StoryWriter
<1>3. CASE n # Idle
  <2>1. /\ n.op = k.op /\ n.on = k.on /\ n.arg = k.arg /\ n.id = k.id /\ n.at = k.at
    BY <1>1, <1>3, WithSame
  <2>2. k.at # "done" \/ k.op \in {"delete", "dropTag", "vocab"}
    BY <1>0, <1>1, <1>3 DEF Request, Once
  <2>3. Request(n)'
    <3>1. DeckRequest(n)'
      BY <1>0, <1>1, <2>1 DEF Request, DeckRequest, DeckWriter
    <3>2. OtherDeckRequest(n)'
      BY <1>0, <1>1, <2>1 DEF Request, OtherDeckRequest
    <3>3. TagRequest(n)'
      BY <1>0, <1>1, <2>1 DEF Request, TagRequest
    <3>4. StoryRequest(n)'
      BY <1>0, <1>1, <2>1 DEF Request, StoryRequest, StoryWriter
    <3>5. SubRequest(n)'
      BY <1>0, <1>1, <2>1 DEF Request, SubRequest, SubOf
    <3>6. VocabRequest(n)'
      BY <1>0, <1>1, <2>1 DEF Request, VocabRequest, AskedVocab
    <3>7. Once(n)' BY <2>1, <2>2 DEF Once
    <3> QED BY <1>0, <2>1, <3>1, <3>2, <3>3, <3>4, <3>5, <3>6, <3>7 DEF Request
  <2>4. CASE DeckWriter(k)
    <3>1. k.at = "upsert" BY <1>0, <2>2, <2>4 DEF Request, DeckRequest, DeckWriter
    <3>2. \E d, g : x.key = DeckTag(d, g)
      BY <1>0, <2>4, <3>1 DEF Request, DeckRequest, Delete, Put
    <3>3. Wrote(x) /\ gone' \subseteq gone \cup {x.key}
      <4>1. Wrote(x) BY DEF Writes
      <4>2. \A key \in gone' : key \in gone \cup {x.key} BY GoneAfter
      <4> QED BY <4>1, <4>2
    <3>4. \A d : /\ x.key # Deck(d) /\ x.key # TagRow(d)
      BY <3>2, Keys
    <3>5. \A d : Has(Deck(d))' <=> Has(Deck(d)) BY <3>3, <3>4 DEF Wrote, Has
    <3>6. \A d : Has(Deck(d)) => items'[Deck(d)] = items[Deck(d)] BY <3>3, <3>4 DEF Wrote, Has
    <3>7. \A g : Has(TagRow(g))' <=> Has(TagRow(g)) BY <3>3, <3>4 DEF Wrote, Has
    <3>8. \A d : NotGone(Deck(d)) => NotGone(Deck(d))' BY <1>0, <3>3, <3>4 DEF NotGone
    <3>9. \A row, was : Keeps(n, row, was) = Keeps(k, row, was) BY <2>1 DEF Keeps
    <3>10. DeckFresh(n)'
      <4> DEFINE d == k.arg[2]
      <4>1. DeckFresh(k) /\ n.at # "done" /\ k.at # "read" BY <1>0, <2>1, <3>1 DEF Fresh
      <4>2. NotGone(Deck(d))' BY <2>4, <3>8, <4>1 DEF DeckFresh
      <4>3. k.op = "create" => ~k.arg[5].vocab /\ (Has(Deck(d))' => Deck(d) \in shared)
        BY <2>4, <3>5, <4>1 DEF DeckFresh
      <4>4. k.op # "create" /\ Deck(d) \notin shared =>
                Has(Deck(d))' /\ Keeps(n, k.arg[5], items'[Deck(d)])
        BY <2>4, <3>5, <3>6, <3>9, <4>1 DEF DeckFresh
      <4>5. \A g \in UNION k.arg[3] : Has(TagRow(g))' \/ TagRow(g) \in shared
        BY <2>4, <3>1, <3>7, <4>1 DEF DeckFresh
      <4> QED BY <1>0, <2>1, <4>1, <4>2, <4>3, <4>4, <4>5 DEF DeckFresh
    <3> QED BY <2>1, <2>3, <2>4, <3>10
            DEF Fresh, DeckWriter, VoteFresh, TagFresh, StoryFresh, SubFresh, VocabFresh, StoryWriter
  <2>5. CASE k.op \in {"delete", "dropTag"}
    BY <2>1, <2>3, <2>5
       DEF Fresh, DeckWriter, DeckFresh, VoteFresh, TagFresh, StoryFresh, SubFresh, VocabFresh, StoryWriter
  <2>6. CASE k.op = "vocab"
    <3>1. k.at = "done" /\ Distinct(k.todo) BY <1>0, <2>6 DEF Request, VocabRequest
    <3>2. VocabFresh(n)'
      <4> DEFINE u == AskedVocab(k)
                 Puts(m) == \E y \in Planned(m.todo) : y.do = "put"
      <4> SUFFICES ASSUME Puts(n)
                   PROVE  /\ Has(Deck(k.id))' => Deck(k.id) \in shared
                          /\ Vocab(u) \notin shared => Vocabularies(u)' = {}
        BY <1>0, <2>1, <2>6, <3>1 DEF VocabFresh, AskedVocab
      <4>1. PICK y \in Planned(n.todo) : y.do = "put" OBVIOUS
      <4>2. y = Put(Deck(k.id), NewVocab(u)) /\ y # x
        <5>1. y # x BY <1>1, <3>1
        <5>2. \/ y = Put(Deck(k.id), NewVocab(u))
              \/ \E d : y = PutNew(Sub(u, "deck", d), "enabled")
          BY <1>0, <1>1, <2>6 DEF Request, VocabRequest
        <5> QED BY <4>1, <5>1, <5>2 DEF PutNew
      <4>3. \E d : x = PutNew(Sub(u, "deck", d), "enabled")
        BY <1>0, <2>6, <4>2 DEF Request, VocabRequest
      <4>4. ~VocabPut(k, x) BY <4>3 DEF VocabPut, PutNew
      <4>5. Vocabularies(u)' \subseteq Vocabularies(u) BY <4>4, VocabularyAfter
      <4>6. x.key # Deck(k.id) BY <4>3, Keys DEF PutNew
      <4>7. Has(Deck(k.id))' => Has(Deck(k.id)) BY <4>6 DEF Writes, Wrote, Has
      <4>8. Puts(k) BY <1>1, <4>1
      <4> QED BY <1>0, <2>6, <4>5, <4>7, <4>8 DEF Fresh, VocabFresh
    <3> QED BY <2>1, <2>3, <2>6, <3>2
            DEF Fresh, DeckWriter, DeckFresh, VoteFresh, TagFresh, StoryFresh, SubFresh, StoryWriter
  <2>7. DeckWriter(k) \/ k.op \in {"delete", "dropTag", "vocab"}
    BY <1>0, <2>2 DEF Request, Ops, DeckWriter, OtherDeckRequest, TagRequest, StoryRequest, SubRequest,
                      StoryWriter
  <2> QED BY <2>4, <2>5, <2>6, <2>7, <2>3
<1> QED BY <1>2, <1>3

LEMMA WriteKept ==
    ASSUME ContentInv, NEW w \in Worker, NEW k, NEW n, NEW x, Writes(w, k, n, x), CallsOK'
    PROVE  ContentInv'
<1>0. /\ k = call[w] /\ n = call'[w] /\ \A v \in Worker \ {w} : call'[v] = call[v]
      /\ requests' = requests /\ shared' = shared /\ unclaimed' = unclaimed
  BY DEF Writes
<1>1. \A v \in Worker : Request(call[v])' /\ Fresh(call[v])'
  <2> SUFFICES ASSUME NEW v \in Worker PROVE Request(call[v])' /\ Fresh(call[v])'
    OBVIOUS
  <2>1. CASE v = w BY <1>0, <2>1, OwnKept
  <2>2. CASE v # w
    <3>1. PICK m : m = call[v] OBVIOUS
    <3>2. m = call'[v] /\ Request(m) BY <1>0, <2>2, <3>1 DEF ContentInv
    <3>3. Fresh(m)' BY <2>2, <3>1, OthersFresh
    <3>4. Request(m)'
      BY <1>0, <3>2 DEF Request, DeckRequest, OtherDeckRequest, TagRequest, StoryRequest, SubRequest,
                        VocabRequest, Once, DeckWriter, StoryWriter, SubOf, AskedVocab
    <3> QED BY <3>2, <3>3, <3>4
  <2> QED BY <2>1, <2>2
<1>2. Overlaps'
  <2>1. n.on \subseteq k.on
    <3>1. n = Idle \/ n = With(k, n.todo, k.at) BY Continues
    <3> QED BY <3>1, WithSame, IdleCall
  <2> QED BY <1>0, <2>1 DEF Overlaps, ContentInv
<1>3. \A d : d \notin unclaimed' => OneAuthor(d)' BY <1>0, AuthorKept
<1>4. \A u \in User : Vocab(u)' \notin shared' => AtMostOne(Vocabularies(u)')
  <2>1. \A u : Vocab(u)' = Vocab(u) BY DEF Vocab
  <2> QED BY <1>0, <2>1, VocabKept
<1> QED BY <1>0, <1>1, <1>2, <1>3, <1>4, RowsKept, GoneKept, OrphansKept DEF ContentInv, AtMostOne

-----------------------------------------------------------------------------
(* Steps that write nothing.                                               *)

\* The request of one worker goes on, begins or ends.
Moves(w, k, n) ==
    /\ k = call[w] /\ n = call'[w]
    /\ CallsOK' /\ \A v \in Worker \ {w} : call'[v] = call[v]
    /\ items' = items /\ gone' = gone /\ unclaimed' = unclaimed
    /\ requests' = requests \/ requests' = requests + 1
    /\ shared \subseteq shared' /\ torn \subseteq torn'

LEMMA FreshStays ==
    ASSUME items' = items, gone' = gone, shared \subseteq shared', NEW m, Fresh(m)
    PROVE  Fresh(m)'
<1>1. \A key : Has(key)' <=> Has(key) BY DEF Has
<1>2. \A key : NotGone(key) => NotGone(key)' BY DEF NotGone
<1>3. \A g : TagThere(g)' <=> TagThere(g) BY <1>1 DEF TagThere
<1>4. \A row, was : Keeps(m, row, was)' <=> Keeps(m, row, was) BY DEF Keeps
<1>5. DeckFresh(m)'
  <2> SUFFICES ASSUME DeckWriter(m), m.at # "read" PROVE DeckFresh(m)'
    BY DEF DeckFresh
  <2> DEFINE d == m.arg[2]
  <2>1. NotGone(Deck(d))' BY <1>2 DEF Fresh, DeckFresh
  <2>2. m.op = "create" => ~m.arg[5].vocab /\ (Has(Deck(d))' => Deck(d) \in shared')
    BY <1>1 DEF Fresh, DeckFresh
  <2>3. m.op # "create" /\ Deck(d) \notin shared' =>
            /\ Has(Deck(d))' /\ Keeps(m, m.arg[5], items'[Deck(d)])
            /\ (m.at = "done" => \A y \in Planned(m.todo) : Keeps(m, y.val, items'[Deck(d)]))
    BY <1>1 DEF Fresh, DeckFresh
  <2>4. m.at \in {"difference", "upsert"} =>
            \A g \in UNION m.arg[3] : Has(TagRow(g))' \/ TagRow(g) \in shared'
    BY <1>1 DEF Fresh, DeckFresh
  <2> QED BY <1>4, <2>1, <2>2, <2>3, <2>4 DEF DeckFresh
<1>6. VoteFresh(m)' BY <1>1 DEF Fresh, VoteFresh
<1>7. TagFresh(m)' BY <1>2, <1>3 DEF Fresh, TagFresh
<1>8. StoryFresh(m)' BY <1>2 DEF Fresh, StoryFresh
<1>9. SubFresh(m)' BY <1>2 DEF Fresh, SubFresh, SubOf
<1>10. VocabFresh(m)'
  <2> SUFFICES ASSUME m.op = "vocab" PROVE VocabFresh(m)'
    BY DEF VocabFresh
  <2> DEFINE u == AskedVocab(m)
  <2>1. VocabFresh(m) BY DEF Fresh
  <2>2. Vocabularies(u)' \subseteq Vocabularies(u) BY <1>1 DEF Vocabularies, VocabDecks
  <2>3. m.at # "done" \/ (\E y \in Planned(m.todo) : y.do = "put") =>
            (Has(Deck(m.id))' => Deck(m.id) \in shared')
    BY <1>1, <2>1 DEF VocabFresh
  <2>4. Vocab(u) \notin shared' =>
            /\ m.at = "deck" => Vocabularies(u)' \subseteq m.arg[Len(m.arg)]
            /\ (\E y \in Planned(m.todo) : y.do = "put") => Vocabularies(u)' = {}
    BY <2>1, <2>2 DEF VocabFresh
  <2> QED BY <2>3, <2>4 DEF VocabFresh, AskedVocab
<1> QED BY <1>5, <1>6, <1>7, <1>8, <1>9, <1>10 DEF Fresh

LEMMA RequestStays ==
    ASSUME requests \in Nat, requests' = requests \/ requests' = requests + 1, NEW m, Request(m)
    PROVE  Request(m)'
<1>1. \A i : i \in 0..requests => i \in 0..requests' OBVIOUS
<1>2. \A i : i \in 1..requests => i \in 1..requests' OBVIOUS
<1>3. CASE m.op = "idle" BY <1>3 DEF Request
<1>4. CASE m.op # "idle"
  <2>1. DeckRequest(m)' BY <1>1, <1>4 DEF Request, DeckRequest, DeckWriter
  <2>2. OtherDeckRequest(m)' BY <1>1, <1>4 DEF Request, OtherDeckRequest
  <2>3. TagRequest(m)' BY <1>4 DEF Request, TagRequest
  <2>4. StoryRequest(m)' BY <1>1, <1>4 DEF Request, StoryRequest, StoryWriter
  <2>5. SubRequest(m)' BY <1>4 DEF Request, SubRequest, SubOf
  <2>6. VocabRequest(m)' BY <1>2, <1>4 DEF Request, VocabRequest, AskedVocab
  <2>7. Once(m)' BY <1>4 DEF Request, Once
  <2> QED BY <1>4, <2>1, <2>2, <2>3, <2>4, <2>5, <2>6, <2>7 DEF Request
<1> QED BY <1>3, <1>4

\* Nothing that refers to a deleted item is forgotten.
StillClears(k, n) ==
    /\ \A d \in Id, u \in User :
          ClearsVote(k, d, u) /\ Has(DeckVote(d, u)) /\ Orderly(Deck(d))' => ClearsVote(n, d, u)
    /\ \A d \in Id, g \in Tag :
          ClearsTag(k, d, g) /\ Has(DeckTag(d, g)) /\ Orderly(TagRow(g))' => ClearsTag(n, d, g)

LEMMA MoveKept ==
    ASSUME ContentInv, NEW w \in Worker, NEW k, NEW n, Moves(w, k, n),
           Request(n)', Fresh(n)',
           \A v \in Worker \ {w} : n.on \cap call[v].on \subseteq shared',
           \A d : d \notin unclaimed => OneAuthor(d)',
           StillClears(k, n)
    PROVE  ContentInv'
<1>0. /\ k = call[w] /\ n = call'[w] /\ \A v \in Worker \ {w} : call'[v] = call[v]
      /\ items' = items /\ gone' = gone /\ unclaimed' = unclaimed /\ requests \in Nat
      /\ shared \subseteq shared' /\ torn \subseteq torn'
      /\ requests' = requests \/ requests' = requests + 1
  BY DEF Moves, ContentInv
<1>1. \A v \in Worker : Request(call[v])' /\ Fresh(call[v])'
  <2> SUFFICES ASSUME NEW v \in Worker PROVE Request(call[v])' /\ Fresh(call[v])'
    OBVIOUS
  <2>1. CASE v = w BY <1>0, <2>1
  <2>2. CASE v # w
    <3>1. PICK m : m = call[v] OBVIOUS
    <3>2. m = call'[v] /\ Request(m) /\ Fresh(m) BY <1>0, <2>2, <3>1 DEF ContentInv
    <3> QED BY <1>0, <3>2, FreshStays, RequestStays
  <2> QED BY <2>1, <2>2
<1>2. Overlaps'
  <2> SUFFICES ASSUME NEW u \in Worker, NEW v \in Worker, u # v
               PROVE  call'[u].on \cap call'[v].on \subseteq shared'
    BY DEF Overlaps
  <2>1. CASE u # w /\ v # w BY <1>0, <2>1 DEF ContentInv, Overlaps
  <2>2. CASE u = w BY <1>0, <2>2
  <2>3. CASE v = w BY <1>0, <2>3
  <2> QED BY <2>1, <2>2, <2>3
<1>3. Rows'
  <2>1. \A d : Has(Deck(d))' \/ Deck(d) \in gone' => d \in 0..requests'
    BY <1>0 DEF ContentInv, Rows, Has
  <2>2. \A d : Has(Story(d))' \/ Story(d) \in gone' => d \in 0..requests'
    BY <1>0 DEF ContentInv, Rows, Has
  <2>3. \A d : Has(Deck(d))' => /\ items'[Deck(d)] \in DeckRows
                                /\ (items'[Deck(d)].vocab => items'[Deck(d)].author # Nobody)
    BY <1>0 DEF ContentInv, Rows, Has
  <2>4. \A d : Has(Story(d))' => items'[Story(d)] \in StoryRows BY <1>0 DEF ContentInv, Rows, Has
  <2>5. \A g \in Tag : Has(TagRow(g))' /\ "slug" \notin DOMAIN items'[TagRow(g)]
                           => TagRow(g) \in shared'
    BY <1>0 DEF ContentInv, Rows, Has
  <2> QED BY <2>1, <2>2, <2>3, <2>4, <2>5 DEF Rows
<1>4. GoneStaysGone' BY <1>0 DEF ContentInv, GoneStaysGone
<1>5. Orphans'
  <2>0. \A key : Orderly(key)' => Orderly(key) BY <1>0 DEF Orderly
  <2>1. ASSUME NEW d \in Id, NEW u \in User, Has(DeckVote(d, u)), ~Has(Deck(d)), Orderly(Deck(d))'
        PROVE  \E v \in Worker : ClearsVote(call'[v], d, u)
    <3>1. Orderly(Deck(d)) BY <2>0, <2>1
    <3>2. PICK v \in Worker : ClearsVote(call[v], d, u) BY <2>1, <3>1 DEF ContentInv, Orphans
    <3>3. CASE v = w
      <4>1. ClearsVote(n, d, u) BY <1>0, <2>1, <3>2, <3>3 DEF StillClears
      <4> QED BY <1>0, <4>1
    <3>4. CASE v # w
      <4>1. call'[v] = call[v] BY <1>0, <3>4
      <4> QED BY <3>2, <4>1
    <3> QED BY <3>3, <3>4
  <2>2. ASSUME NEW d \in Id, NEW g \in Tag, Has(DeckTag(d, g)), ~Has(TagRow(g)), Orderly(TagRow(g))'
        PROVE  \E v \in Worker : ClearsTag(call'[v], d, g)
    <3>1. Orderly(TagRow(g)) BY <2>0, <2>2
    <3>2. PICK v \in Worker : ClearsTag(call[v], d, g) BY <2>2, <3>1 DEF ContentInv, Orphans
    <3>3. CASE v = w
      <4>1. ClearsTag(n, d, g) BY <1>0, <2>2, <3>2, <3>3 DEF StillClears
      <4> QED BY <1>0, <4>1
    <3>4. CASE v # w
      <4>1. call'[v] = call[v] BY <1>0, <3>4
      <4> QED BY <3>2, <4>1
    <3> QED BY <3>3, <3>4
  <2>3. \A key : Has(key)' <=> Has(key) BY <1>0 DEF Has
  <2> QED BY <2>1, <2>2, <2>3 DEF Orphans
<1>6. \A u \in User : Vocab(u)' \notin shared' => AtMostOne(Vocabularies(u)')
  <2> SUFFICES ASSUME NEW u \in User, Vocab(u) \notin shared' PROVE AtMostOne(Vocabularies(u)')
    BY DEF Vocab
  <2>1. Vocabularies(u)' \subseteq Vocabularies(u) BY <1>0 DEF Vocabularies, VocabDecks, Has
  <2>2. AtMostOne(Vocabularies(u)) BY <1>0 DEF ContentInv
  <2> QED BY <2>1, <2>2 DEF AtMostOne
<1>7. \A d : d \notin unclaimed' => OneAuthor(d)' BY <1>0
<1>8. CallsOK' /\ requests' \in Nat BY <1>0 DEF Moves
<1> QED BY <1>1, <1>2, <1>3, <1>4, <1>5, <1>6, <1>7, <1>8 DEF ContentInv, AtMostOne

\* A request that may give a deck no other author than it could.
LEMMA SameAuthors ==
    ASSUME ContentInv, NEW w \in Worker, NEW k, NEW n, Moves(w, k, n),
           NEW d, d \notin unclaimed, Authors(n, d) \subseteq Authors(k, d)
    PROVE  OneAuthor(d)'
<1>1. PICK a \in User : /\ Has(Deck(d)) => items[Deck(d)].author = a
                        /\ \A v \in Worker : Authors(call[v], d) \subseteq {a}
  BY DEF ContentInv, OneAuthor
<1>2. \A v \in Worker : Authors(call'[v], d) \subseteq {a} BY <1>1 DEF Moves
<1>3. Has(Deck(d))' => items'[Deck(d)].author = a BY <1>1 DEF Moves, Has
<1> QED BY <1>2, <1>3 DEF OneAuthor

LEMMA GoesOn ==
    ASSUME ContentInv, NEW w \in Worker, NEW k, NEW n, Moves(w, k, n),
           Request(n)', Fresh(n)', n.on \subseteq k.on, StillClears(k, n),
           \A d : d \notin unclaimed => OneAuthor(d)'
    PROVE  ContentInv'
<1>1. \A v \in Worker \ {w} : n.on \cap call[v].on \subseteq shared'
  BY DEF ContentInv, Overlaps, Moves
<1> QED BY <1>1, MoveKept

\* The request ends without a write.
LEMMA Ends ==
    ASSUME ContentInv, NEW w \in Worker, NEW k, NEW n, Moves(w, k, n), n = Idle,
           StillClears(k, n)
    PROVE  ContentInv'
<1>1. n.op = "idle" /\ n.on = {} /\ n.todo = <<>> BY IdleCall
<1>2. Request(n)' BY <1>1 DEF Request
<1>3. Fresh(n)'
  BY <1>1 DEF Fresh, DeckFresh, VoteFresh, TagFresh, StoryFresh, SubFresh, VocabFresh, DeckWriter,
              StoryWriter
<1>4. \A d : Authors(n, d) = {} BY <1>1 DEF Authors, DeckWriter
<1>5. \A d : d \notin unclaimed => OneAuthor(d)' BY <1>4, SameAuthors
<1> QED BY <1>1, <1>2, <1>3, <1>5, GoesOn

\* Only deletions clear.
LEMMA ClearsNothing ==
    ASSUME NEW k, NEW n, k.op \notin {"delete", "dropTag"} \/ (k.at = "read" /\ k.todo = <<>>)
    PROVE  StillClears(k, n)
<1>1. \A d, u : ~ClearsVote(k, d, u) BY NoPlan DEF ClearsVote
<1>2. \A d, g : ~ClearsTag(k, d, g) BY NoPlan DEF ClearsTag
<1> QED BY <1>1, <1>2 DEF StillClears

LEMMA BeginKept ==
    ASSUME ContentInv, NEW w \in Worker, NEW op, NEW on, NEW arg, NEW at, op # "idle",
           Begin(w, op, on, arg, at), UNCHANGED History,
           NEW n, n = [op |-> op, at |-> at, id |-> requests + 1, on |-> on, arg |-> arg,
                       todo |-> <<>>],
           Request(n)', Fresh(n)',
           \A d : d # requests + 1 => Authors(n, d) = {},
           \E a \in User : \A d : Authors(n, d) \subseteq {a}
    PROVE  ContentInv'
<1>1. /\ CallsOK /\ CallsOK' /\ call[w] = Idle /\ call'[w] = n /\ requests' = requests + 1
      /\ \A v \in Worker \ {w} : call'[v] = call[v]
      /\ shared \subseteq shared' /\ items' = items /\ torn' = torn
      /\ \A v \in Worker \ {w} : on \cap call[v].on \subseteq shared'
  BY BeginFacts DEF ContentInv
<1>2. Moves(w, Idle, n) BY <1>1 DEF Moves, History
<1>3. StillClears(Idle, n) BY IdleCall, ClearsNothing
<1>4. ASSUME NEW d, d \notin unclaimed PROVE OneAuthor(d)'
  <2>1. CASE d # requests + 1
    <3>1. Authors(n, d) = {} BY <2>1
    <3> QED BY <1>2, <1>4, <3>1, SameAuthors
  <2>2. CASE d = requests + 1
    <3>1. PICK a \in User : Authors(n, d) \subseteq {a} OBVIOUS
    <3>2. ~Has(Deck(d)) BY <2>2 DEF ContentInv, Rows
    <3>3. ASSUME NEW v \in Worker PROVE Authors(call[v], d) = {}
      <4>1. PICK m : m = call[v] OBVIOUS
      <4>2. Request(m) BY <4>1 DEF ContentInv
      <4>3. d \notin 0..requests BY <2>2 DEF ContentInv
      <4>4. DeckWriter(m) => m.arg[2] \in 0..requests
        BY <4>2 DEF Request, DeckRequest, DeckWriter
      <4>5. m.op = "vocab" => m.id \in 0..requests BY <4>2 DEF Request, VocabRequest, ContentInv
      <4>6. Authors(m, d) = {} BY <4>3, <4>4, <4>5 DEF Authors
      <4> QED BY <4>1, <4>6
    <3>4. \A v \in Worker : Authors(call'[v], d) \subseteq {a} BY <1>1, <3>1, <3>3
    <3>5. ~Has(Deck(d))' BY <1>1, <3>2 DEF Has
    <3> QED BY <3>4, <3>5 DEF OneAuthor
  <2> QED BY <2>1, <2>2
<1>5. n.on = on OBVIOUS
<1> QED BY <1>1, <1>2, <1>3, <1>4, <1>5, MoveKept

-----------------------------------------------------------------------------
(* Requests begin.                                                         *)

\* Requests that start with a read, and rely on nothing yet.
LEMMA ReadsFirst ==
    ASSUME ContentInv, NEW w \in Worker, NEW op, NEW on, NEW arg, NEW at,
           op \in Ops \ {"create", "story", "vocab"}, DeckWriter([op |-> op]) => at = "read",
           at # "done",
           Begin(w, op, on, arg, at), UNCHANGED History,
           NEW n, n = [op |-> op, at |-> at, id |-> requests + 1, on |-> on, arg |-> arg,
                       todo |-> <<>>],
           Request(n)', User # {}
    PROVE  ContentInv'
<1>1. Fresh(n)'
  BY DEF Fresh, DeckFresh, VoteFresh, TagFresh, StoryFresh, SubFresh, VocabFresh, DeckWriter,
         StoryWriter
<1>2. \A d : Authors(n, d) = {} BY DEF Authors, DeckWriter
<1>3. op # "idle" BY DEF Ops
<1> QED BY <1>1, <1>2, <1>3, BeginKept

LEMMA NoWrites == Planned(<<>>) = {} /\ Distinct(<<>>) /\ Sequence(<<>>)
BY NoPlan

LEMMA ExistingDeck ==
    ASSUME ContentInv, NEW d \in Existing(Deck)
    PROVE  d \in Id /\ Has(Deck(d)) /\ d \in 0..requests /\ d \in 0..(requests + 1)
<1>1. d \in Id /\ Has(Deck(d)) BY DEF Existing
<1>2. d \in 0..requests BY <1>1 DEF ContentInv, Rows
<1> QED BY <1>1, <1>2 DEF ContentInv

LEMMA ExistingStory ==
    ASSUME ContentInv, NEW s \in Existing(Story)
    PROVE  s \in Id /\ Has(Story(s)) /\ s \in 0..requests /\ s \in 0..(requests + 1)
<1>1. s \in Id /\ Has(Story(s)) BY DEF Existing
<1>2. s \in 0..requests BY <1>1 DEF ContentInv, Rows
<1> QED BY <1>1, <1>2 DEF ContentInv

LEMMA GoodPatches ==
    /\ \A patch \in Patches : GoodPatch(patch)
    /\ GoodPatch(<<>>) /\ GoodPatch([status |-> "published"])
    /\ GoodPatch([cards |-> Card])
    /\ "cards" \notin DOMAIN [status |-> "published"]
<1>1. GoodPatch(<<>>) BY NoAttributes DEF GoodPatch
<1>2. GoodPatch([status |-> "draft"]) /\ GoodPatch([status |-> "published"])
  BY DEF GoodPatch, Status
<1>3. \A cards \in SUBSET Card : GoodPatch([cards |-> cards]) BY DEF GoodPatch
<1> QED BY <1>1, <1>2, <1>3 DEF Patches

LEMMA DeckWriterBegins ==
    ASSUME ContentInv, NEW w \in Worker, NEW op \in {"update", "approve", "add"},
           NEW u \in User, NEW d \in Existing(Deck), NEW tags, NEW patch,
           UNION tags \subseteq Tag, GoodPatch(patch),
           op = "approve" => tags = {} /\ "cards" \notin DOMAIN patch,
           op = "add" => tags = {} /\ patch.cards \subseteq Card,
           NEW on, Deck(d) \in on, \A g \in UNION tags : TagRow(g) \in on,
           Begin(w, op, on, <<u, d, tags, patch>>, "read"), UNCHANGED History
    PROVE  ContentInv'
<1> DEFINE arg == <<u, d, tags, patch>>
           n == [op |-> op, at |-> "read", id |-> requests + 1, on |-> on, arg |-> arg,
                 todo |-> <<>>]
<1>0. d \in 0..(requests + 1) /\ requests' = requests + 1
  BY ExistingDeck, BeginFacts DEF ContentInv
<1>1. /\ n.op = op /\ n.at = "read" /\ n.on = on /\ n.arg = arg /\ n.todo = <<>>
      /\ arg[1] = u /\ arg[2] = d /\ arg[3] = tags /\ arg[4] = patch
      /\ FourOf(arg)
  BY DEF FourOf
<1>2. PICK m : m = n OBVIOUS
<1> HIDE DEF n, arg
<1>3. DeckRequest(m)' BY <1>0, <1>1, <1>2, NoWrites DEF DeckRequest, DeckWriter
<1>4. Request(m)'
  BY <1>1, <1>2, <1>3, NoWrites
     DEF Request, Ops, OtherDeckRequest, TagRequest, StoryRequest, SubRequest, VocabRequest, Once,
         StoryWriter
<1> USE DEF n, arg
<1> QED BY <1>2, <1>4, ReadsFirst DEF Ops, DeckWriter

LEMMA OtherBegins ==
    ASSUME ContentInv, NEW w \in Worker, NEW op \in {"vote", "delete"},
           NEW u \in User, NEW d \in Existing(Deck), NEW arg, arg[1] = u, arg[2] = d,
           Begin(w, op, {Deck(d)}, arg, "read"), UNCHANGED History
    PROVE  ContentInv'
<1> DEFINE n == [op |-> op, at |-> "read", id |-> requests + 1, on |-> {Deck(d)}, arg |-> arg,
                 todo |-> <<>>]
<1>0. d \in 0..(requests + 1) /\ requests' = requests + 1
  BY ExistingDeck, BeginFacts DEF ContentInv
<1>1. n.op = op /\ n.at = "read" /\ n.on = {Deck(d)} /\ n.arg = arg /\ n.todo = <<>>
  OBVIOUS
<1>2. PICK m : m = n OBVIOUS
<1> HIDE DEF n
<1>3. OtherDeckRequest(m)' BY <1>0, <1>1, <1>2, NoWrites DEF OtherDeckRequest
<1>4. Request(m)'
  BY <1>1, <1>2, <1>3, NoWrites
     DEF Request, Ops, DeckRequest, TagRequest, StoryRequest, SubRequest, VocabRequest, Once,
         StoryWriter, DeckWriter
<1> USE DEF n
<1> QED BY <1>2, <1>4, ReadsFirst DEF Ops, DeckWriter

LEMMA TagBegins ==
    ASSUME ContentInv, NEW w \in Worker, NEW op \in {"newTag", "recolor", "dropTag"}, NEW at,
           at = IF op = "newTag" THEN "put" ELSE "read", User # {},
           NEW g \in Tag, Begin(w, op, {TagRow(g)}, <<g>>, at), UNCHANGED History
    PROVE  ContentInv'
<1> DEFINE arg == <<g>>
           n == [op |-> op, at |-> at, id |-> requests + 1, on |-> {TagRow(g)}, arg |-> arg,
                 todo |-> <<>>]
<1>1. n.op = op /\ n.at = at /\ n.on = {TagRow(g)} /\ n.arg = arg /\ n.todo = <<>> /\ arg[1] = g
  OBVIOUS
<1>2. PICK m : m = n OBVIOUS
<1> HIDE DEF n, arg
<1>3. TagRequest(m)' BY <1>1, <1>2, NoWrites DEF TagRequest
<1>4. Request(m)'
  BY <1>1, <1>2, <1>3, NoWrites
     DEF Request, Ops, DeckRequest, OtherDeckRequest, StoryRequest, SubRequest, VocabRequest, Once,
         StoryWriter, DeckWriter
<1> USE DEF n, arg
<1> QED BY <1>2, <1>4, ReadsFirst DEF Ops, DeckWriter

LEMMA StoryBegins ==
    ASSUME ContentInv, NEW w \in Worker, NEW op \in {"edit", "review", "remove"},
           NEW u \in User, NEW s \in Existing(Story), NEW arg, arg[1] = u, arg[2] = s,
           op # "remove" => arg[3] \in Statuses,
           Begin(w, op, {Story(s)}, arg, "read"), UNCHANGED History
    PROVE  ContentInv'
<1> DEFINE n == [op |-> op, at |-> "read", id |-> requests + 1, on |-> {Story(s)}, arg |-> arg,
                 todo |-> <<>>]
<1>0. s \in 0..(requests + 1) /\ requests' = requests + 1
  BY ExistingStory, BeginFacts DEF ContentInv
<1>1. n.op = op /\ n.at = "read" /\ n.on = {Story(s)} /\ n.arg = arg /\ n.todo = <<>>
  OBVIOUS
<1>2. PICK m : m = n OBVIOUS
<1> HIDE DEF n
<1>3. StoryRequest(m)' BY <1>0, <1>1, <1>2, NoWrites DEF StoryRequest, StoryWriter
<1>4. Request(m)'
  BY <1>1, <1>2, <1>3, NoWrites
     DEF Request, Ops, DeckRequest, OtherDeckRequest, TagRequest, SubRequest, VocabRequest, Once,
         DeckWriter
<1> USE DEF n
<1> QED BY <1>2, <1>4, ReadsFirst DEF Ops, DeckWriter

LEMMA SubscriptionBegins ==
    ASSUME ContentInv, NEW w \in Worker, NEW op \in {"subscribe", "adjust", "unsubscribe"},
           NEW at \in {"validate", "read", "go"},
           NEW u \in User, NEW kind, NEW i,
           Begin(w, op, {Sub(u, kind, i)}, <<kind, u, i>>, at), UNCHANGED History
    PROVE  ContentInv'
<1> DEFINE arg == <<kind, u, i>>
           n == [op |-> op, at |-> at, id |-> requests + 1, on |-> {Sub(u, kind, i)}, arg |-> arg,
                 todo |-> <<>>]
<1>1. /\ n.op = op /\ n.at = at /\ n.on = {Sub(u, kind, i)} /\ n.arg = arg /\ n.todo = <<>>
      /\ arg[1] = kind /\ arg[2] = u /\ arg[3] = i
  OBVIOUS
<1>2. PICK m : m = n OBVIOUS
<1> HIDE DEF n, arg
<1>3. SubRequest(m)' BY <1>1, <1>2, NoWrites DEF SubRequest, SubOf
<1>4. Request(m)'
  BY <1>1, <1>2, <1>3, NoWrites
     DEF Request, Ops, DeckRequest, OtherDeckRequest, TagRequest, StoryRequest, VocabRequest, Once,
         StoryWriter, DeckWriter
<1> USE DEF n, arg
<1> QED BY <1>2, <1>4, ReadsFirst DEF Ops, DeckWriter

LEMMA CreateDeckBegins ==
    ASSUME ContentInv, NEW w \in Worker, NEW u \in User, NEW tags, UNION tags \subseteq Tag,
           CreateDeck(w, u, tags), UNCHANGED History
    PROVE  ContentInv'
<1> DEFINE d == requests + 1
           arg == <<u, d, tags, <<>>, NewDeck(u, FALSE)>>
           on == AboutDeck(d, tags)
           n == [op |-> "create", at |-> "tags", id |-> d, on |-> on, arg |-> arg, todo |-> <<>>]
<1>b. Begin(w, "create", on, arg, "tags") BY DEF CreateDeck
<1>0. requests \in Nat /\ requests' = requests + 1 /\ shared \subseteq shared'
      /\ items' = items /\ gone' = gone
  BY <1>b, BeginFacts DEF ContentInv, History
<1>1. /\ n.op = "create" /\ n.at = "tags" /\ n.on = on /\ n.arg = arg /\ n.todo = <<>> /\ n.id = d
      /\ arg[1] = u /\ arg[2] = d /\ arg[3] = tags /\ arg[4] = <<>> /\ arg[5] = NewDeck(u, FALSE)
  OBVIOUS
<1>2. Deck(d) \in on /\ \A g \in UNION tags : TagRow(g) \in on BY DEF AboutDeck
<1>3. NewDeck(u, FALSE) \in DeckRows /\ ~NewDeck(u, FALSE).vocab /\ NewDeck(u, FALSE).author = u
  BY DEF NewDeck, DeckRows, Status
<1>4. ~Has(Deck(d)) /\ Deck(d) \notin gone BY <1>0 DEF ContentInv, Rows
<1>5. d \in 0..requests' BY <1>0
<1>6. PICK m : m = n OBVIOUS
<1>7. PICK dd : dd = d OBVIOUS
<1> HIDE DEF n, arg, on, d
<1>8. DeckRequest(m)'
  BY <1>1, <1>2, <1>3, <1>5, <1>6, NoWrites, GoodPatches DEF DeckRequest, DeckWriter
<1>9. Request(m)'
  BY <1>1, <1>6, <1>8, NoWrites
     DEF Request, Ops, OtherDeckRequest, TagRequest, StoryRequest, SubRequest, VocabRequest, Once,
         StoryWriter
<1>10. ~Has(Deck(dd))' /\ NotGone(Deck(dd))' BY <1>0, <1>4, <1>7 DEF Has, NotGone
<1>11. DeckFresh(m)' BY <1>1, <1>3, <1>6, <1>7, <1>10 DEF DeckFresh, DeckWriter
<1>12. Fresh(m)'
  BY <1>1, <1>6, <1>11 DEF Fresh, VoteFresh, TagFresh, StoryFresh, SubFresh, VocabFresh, StoryWriter
<1>13. \A e : e # d => Authors(m, e) = {} BY <1>1, <1>6 DEF Authors
<1>14. \A e : Authors(m, e) \subseteq {u} BY <1>1, <1>3, <1>6 DEF Authors
<1>15. m = [op |-> "create", at |-> "tags", id |-> requests + 1, on |-> on, arg |-> arg,
            todo |-> <<>>]
  BY <1>6 DEF n, d
<1>16. \A e : e # requests + 1 => Authors(m, e) = {} BY <1>13 DEF d
<1> QED BY <1>b, <1>9, <1>12, <1>14, <1>15, <1>16, BeginKept

LEMMA CreateStoryBegins ==
    ASSUME ContentInv, NEW w \in Worker, NEW u \in User, CreateStory(w, u), UNCHANGED History
    PROVE  ContentInv'
<1> DEFINE d == requests + 1
           arg == <<u, d>>
           on == {Story(d)}
           n == [op |-> "story", at |-> "put", id |-> d, on |-> on, arg |-> arg, todo |-> <<>>]
<1>b. Begin(w, "story", on, arg, "put") BY DEF CreateStory
<1>0. requests \in Nat /\ requests' = requests + 1 /\ shared \subseteq shared'
      /\ items' = items /\ gone' = gone
  BY <1>b, BeginFacts DEF ContentInv, History
<1>1. /\ n.op = "story" /\ n.at = "put" /\ n.on = on /\ n.arg = arg /\ n.todo = <<>>
      /\ arg[1] = u /\ arg[2] = d
  OBVIOUS
<1>4. Story(d) \notin gone BY <1>0 DEF ContentInv, Rows
<1>5. d \in 0..requests' BY <1>0
<1>6. PICK m : m = n OBVIOUS
<1>7. PICK dd : dd = d OBVIOUS
<1>8. Story(d) \in on OBVIOUS
<1> HIDE DEF n, arg, on, d
<1>9. StoryRequest(m)'
  BY <1>1, <1>5, <1>6, <1>8, NoWrites DEF StoryRequest, StoryWriter
<1>10. Request(m)'
  BY <1>1, <1>6, <1>9, NoWrites
     DEF Request, Ops, DeckRequest, OtherDeckRequest, TagRequest, SubRequest, VocabRequest, Once,
         DeckWriter
<1>11. NotGone(Story(dd))' BY <1>0, <1>4, <1>7 DEF NotGone
<1>12. StoryFresh(m)' BY <1>1, <1>6, <1>7, <1>11 DEF StoryFresh
<1>13. Fresh(m)'
  BY <1>1, <1>6, <1>12 DEF Fresh, DeckFresh, VoteFresh, TagFresh, SubFresh, VocabFresh, DeckWriter
<1>14. \A e : Authors(m, e) = {} BY <1>1, <1>6 DEF Authors, DeckWriter
<1>15. m = [op |-> "story", at |-> "put", id |-> requests + 1, on |-> on, arg |-> arg,
            todo |-> <<>>]
  BY <1>6 DEF n, d
<1> QED BY <1>b, <1>10, <1>13, <1>14, <1>15, BeginKept

LEMMA VocabBegins ==
    ASSUME ContentInv, NEW w \in Worker, NEW u \in User, GetMyVocabDeck(w, u), UNCHANGED History
    PROVE  ContentInv'
<1> DEFINE d == requests + 1
           arg == <<Vocab(u)>>
           on == {Vocab(u), Deck(d)}
           n == [op |-> "vocab", at |-> "list", id |-> d, on |-> on, arg |-> arg, todo |-> <<>>]
<1>b. Begin(w, "vocab", on, arg, "list") BY DEF GetMyVocabDeck
<1>0. requests \in Nat /\ requests' = requests + 1 /\ shared \subseteq shared'
      /\ items' = items /\ gone' = gone
  BY <1>b, BeginFacts DEF ContentInv, History
<1>1. /\ n.op = "vocab" /\ n.at = "list" /\ n.on = on /\ n.arg = arg /\ n.todo = <<>> /\ n.id = d
      /\ arg[1] = Vocab(u) /\ arg # <<>> /\ Vocab(u)[2] = u
  BY DEF Vocab
<1>2. Sequence(arg)
  <2>1. arg \in Seq({Vocab(u)}) OBVIOUS
  <2> QED BY <2>1, SequenceOf
<1>4. ~Has(Deck(d)) BY <1>0 DEF ContentInv, Rows
<1>5. d \in 1..requests' BY <1>0
<1>6. PICK m : m = n OBVIOUS
<1>7. PICK dd : dd = d OBVIOUS
<1>8. Deck(d) \in on /\ Vocab(u) \in on OBVIOUS
<1> HIDE DEF n, arg, on, d
<1>a. AskedVocab(m) = u BY <1>1, <1>6 DEF AskedVocab
<1>9. VocabRequest(m)'
  <2>1. AskedVocab(m)' = AskedVocab(m) BY DEF AskedVocab
  <2> QED BY <1>1, <1>2, <1>5, <1>6, <1>8, <1>a, <2>1, NoWrites DEF VocabRequest
<1>10. Request(m)'
  BY <1>1, <1>6, <1>9, NoWrites
     DEF Request, Ops, DeckRequest, OtherDeckRequest, TagRequest, SubRequest, StoryRequest, Once,
         DeckWriter, StoryWriter
<1>11. ~Has(Deck(dd))' BY <1>0, <1>4, <1>7 DEF Has
<1>12. VocabFresh(m)' BY <1>1, <1>6, <1>7, <1>11, NoWrites DEF VocabFresh
<1>13. Fresh(m)'
  BY <1>1, <1>6, <1>12 DEF Fresh, DeckFresh, VoteFresh, TagFresh, StoryFresh, SubFresh, DeckWriter,
                           StoryWriter
<1>14. \A e : e # d => Authors(m, e) = {} BY <1>1, <1>6 DEF Authors, DeckWriter
<1>15. \A e : Authors(m, e) \subseteq {u} BY <1>1, <1>6, <1>a DEF Authors, DeckWriter
<1>16. m = [op |-> "vocab", at |-> "list", id |-> requests + 1, on |-> on, arg |-> arg,
            todo |-> <<>>]
  BY <1>6 DEF n, d
<1>17. \A e : e # requests + 1 => Authors(m, e) = {} BY <1>14 DEF d
<1> QED BY <1>b, <1>10, <1>13, <1>15, <1>16, <1>17, BeginKept

-----------------------------------------------------------------------------
(* Requests read, and plan their writes.                                   *)

Longer(s, x) == Append(s, x)

LEMMA AppendDeck ==
    ASSUME NEW s, FourOf(s), NEW row
    PROVE  LET t == Longer(s, row)
           IN  t[1] = s[1] /\ t[2] = s[2] /\ t[3] = s[3] /\ t[4] = s[4] /\ t[5] = row
<1>1. PICK a, b, c, d : a = s[1] /\ b = s[2] /\ c = s[3] /\ d = s[4] OBVIOUS
<1>2. s = <<a, b, c, d>> BY <1>1 DEF FourOf
<1>3. PICK t : t = Longer(s, row) OBVIOUS
<1>4. t[1] = a /\ t[2] = b /\ t[3] = c /\ t[4] = d /\ t[5] = row
  BY <1>2, <1>3, AppendFour DEF Longer
<1> QED BY <1>1, <1>3, <1>4

\* The manifest of a request keeps what it was not asked to change.
LEMMA ReadsManifest ==
    ASSUME ContentInv, NEW w \in Worker, NEW k, k = call[w], NEW row, NEW at,
           k.op \in {"update", "approve", "add"}, k.at = "read", k.todo = <<>>,
           at \in {"tags", "upsert"}, at = "upsert" => k.arg[3] = {},
           Has(Deck(k.arg[2])), Keeps(k, row, items[Deck(k.arg[2])]),
           row \in DeckRows, row.vocab => row.author # Nobody,
           row.author = items[Deck(k.arg[2])].author \/ items[Deck(k.arg[2])].author = Nobody,
           Keep(w, row, at), UNCHANGED History
    PROVE  ContentInv'
<1> DEFINE d == k.arg[2]
<1>1. Request(k) /\ CallsOK BY DEF ContentInv
<1>2. PICK n : n = call'[w] OBVIOUS
<1>3. k.op # "idle" OBVIOUS
<1>4. /\ Moves(w, k, n) /\ shared' = shared /\ requests' = requests
      /\ n = [op |-> k.op, at |-> at, id |-> k.id, on |-> k.on, arg |-> Append(k.arg, row),
              todo |-> k.todo]
  BY <1>1, <1>2, <1>3, KeepFacts DEF Moves, History
<1>5. /\ n.op = k.op /\ n.at = at /\ n.id = k.id /\ n.on = k.on /\ n.todo = <<>>
      /\ n.arg = Append(k.arg, row)
  BY <1>4
<1>6. DeckWriter(k) /\ DeckWriter(n) /\ DeckRequest(k) BY <1>1, <1>5 DEF DeckWriter, Request
<1>7. FourOf(k.arg) BY <1>6 DEF DeckRequest
<1>8. /\ n.arg[1] = k.arg[1] /\ n.arg[2] = k.arg[2] /\ n.arg[3] = k.arg[3]
      /\ n.arg[4] = k.arg[4] /\ n.arg[5] = row
  <2>1. PICK s, t : s = k.arg /\ t = n.arg OBVIOUS
  <2>2. t = Longer(s, row) BY <1>5, <2>1 DEF Longer
  <2>3. FourOf(s) BY <1>7, <2>1
  <2>4. t[1] = s[1] /\ t[2] = s[2] /\ t[3] = s[3] /\ t[4] = s[4] /\ t[5] = row
    BY <2>2, <2>3, AppendDeck
  <2> QED BY <2>1, <2>4
<1>9. DeckRequest(n)'
  BY <1>4, <1>5, <1>6, <1>8, NoWrites DEF DeckRequest, DeckWriter
<1>10. Request(n)'
  BY <1>5, <1>9, NoWrites
     DEF Request, Ops, OtherDeckRequest, TagRequest, StoryRequest, SubRequest, VocabRequest, Once,
         StoryWriter
<1>11. DeckFresh(n)'
  <2>1. NotGone(Deck(d))'
    <3>1. Deck(d) \in gone => Deck(d) \in shared
      BY Kinds DEF ContentInv, GoneStaysGone, Has, Lasting
    <3> QED BY <1>4, <3>1 DEF NotGone, Moves
  <2>2. Has(Deck(d))' /\ items'[Deck(d)] = items[Deck(d)] BY <1>4 DEF Has, Moves
  <2>3. Keeps(n, row, items[Deck(d)]) BY <1>5, <1>8 DEF Keeps
  <2>4. at \in {"difference", "upsert"} => UNION n.arg[3] = {}
    <3>1. at \in {"difference", "upsert"} => n.arg[3] = {} BY <1>8
    <3> QED BY <3>1
  <2> QED BY <1>5, <1>8, <2>1, <2>2, <2>3, <2>4 DEF DeckFresh
<1>12. Fresh(n)'
  BY <1>5, <1>11 DEF Fresh, VoteFresh, TagFresh, StoryFresh, SubFresh, VocabFresh, StoryWriter
<1>13. ASSUME NEW e, e \notin unclaimed PROVE OneAuthor(e)'
  <2>1. CASE e # d
    <3>1. Authors(n, e) = {} BY <1>5, <1>8, <2>1 DEF Authors
    <3> QED BY <1>4, <1>13, <3>1, SameAuthors
  <2>2. CASE e = d
    <3>1. PICK a \in User : /\ Has(Deck(d)) => items[Deck(d)].author = a
                            /\ \A v \in Worker : Authors(call[v], d) \subseteq {a}
      BY <1>13, <2>2 DEF ContentInv, OneAuthor
    <3>2. row.author = a BY <3>1, SomeoneKnown
    <3>3. Authors(n, d) \subseteq {a} BY <1>5, <1>8, <3>2 DEF Authors
    <3>4. \A v \in Worker : Authors(call'[v], d) \subseteq {a} BY <1>4, <3>1, <3>3 DEF Moves
    <3>5. Has(Deck(d))' => items'[Deck(d)].author = a BY <1>4, <3>1 DEF Moves, Has
    <3> QED BY <2>2, <3>4, <3>5 DEF OneAuthor
  <2> QED BY <2>1, <2>2
<1>14. StillClears(k, n) BY ClearsNothing
<1> QED BY <1>4, <1>5, <1>10, <1>12, <1>13, <1>14, GoesOn

LEMMA PatchedDeck ==
    ASSUME NEW deck \in DeckRows, NEW patch, GoodPatch(patch)
    PROVE  LET row == Patched(deck, patch)
           IN  /\ row \in DeckRows /\ row.author = deck.author /\ row.vocab = deck.vocab
               /\ "cards" \notin DOMAIN patch => row.cards = deck.cards
<1> DEFINE row == Patched(deck, patch)
<1>1. Overlaid(row, deck, patch) BY OverlaidAt DEF Patched
<1> HIDE DEF row
<1>2. DOMAIN deck = {"author", "status", "cards", "vocab"} BY DEF DeckRows
<1>3. DOMAIN row = {"author", "status", "cards", "vocab"}
      /\ row = [a \in DOMAIN row |-> row[a]]
  BY <1>1, <1>2 DEF Overlaid, GoodPatch
<1>4. /\ row.author = deck.author /\ row.vocab = deck.vocab
      /\ row.status = IF "status" \in DOMAIN patch THEN patch.status ELSE deck.status
      /\ row.cards = IF "cards" \in DOMAIN patch THEN patch.cards ELSE deck.cards
  BY <1>1, <1>3 DEF Overlaid, GoodPatch
<1>5. row = [author |-> row.author, status |-> row.status, cards |-> row.cards,
             vocab |-> row.vocab]
  BY <1>3
<1>6. row.author \in User \cup {Nobody} /\ row.status \in Status /\ row.cards \in SUBSET Card
      /\ row.vocab \in BOOLEAN
  BY <1>4 DEF DeckRows, GoodPatch
<1>7. row \in DeckRows BY <1>5, <1>6 DEF DeckRows
<1> USE DEF row
<1> QED BY <1>4, <1>7

LEMMA DeckWith ==
    ASSUME NEW row \in DeckRows, NEW a \in User \cup {Nobody}, NEW cards \in SUBSET Card
    PROVE  /\ LET new == [row EXCEPT !.author = a]
              IN  /\ new \in DeckRows /\ new.author = a /\ new.vocab = row.vocab
                  /\ new.cards = row.cards
           /\ LET new == [row EXCEPT !.cards = cards]
              IN  /\ new \in DeckRows /\ new.author = row.author /\ new.vocab = row.vocab
                  /\ new.cards = cards
BY DEF DeckRows

LEMMA ReadDeckKept ==
    ASSUME ContentInv, NEW w \in Worker, ReadDeck(w), UNCHANGED History
    PROVE  ContentInv'
<1>1. PICK k : k = call[w] OBVIOUS
<1>2. Request(k) /\ CallsOK BY <1>1 DEF ContentInv
<1> DEFINE d == k.arg[2]
           deck == items[Deck(d)]
<1>3. k.op \in {"update", "approve", "add"} /\ k.at = "read" /\ k.todo = <<>>
  BY <1>1 DEF ReadDeck, At
<1>4. k.op # "idle" /\ DeckRequest(k) /\ DeckWriter(k) BY <1>2, <1>3 DEF Request, DeckWriter
<1>5. k.arg[1] \in User /\ GoodPatch(k.arg[4]) BY <1>4 DEF DeckRequest
<1>6. CASE Answer(w)
  <2>1. Moves(w, k, Idle) BY <1>1, <1>2, <1>4, <1>6, AnswerFacts DEF Moves, History
  <2> QED BY <1>3, <2>1, ClearsNothing, Ends
<1>7. ASSUME Has(Deck(d)) PROVE deck \in DeckRows /\ (deck.vocab => deck.author # Nobody)
  BY <1>7 DEF ContentInv, Rows
<1>8. CASE k.op = "update" /\ ~Answer(w)
  <2>1. /\ Has(Deck(d)) /\ deck.author \in {k.arg[1], Nobody}
        /\ Keep(w, PatchDeck(deck, k.arg[1], k.arg[4]), "tags")
    BY <1>1, <1>8 DEF ReadDeck, At, Arg, Actor, Subject, Patch
  <2> DEFINE p == Patched(deck, k.arg[4])
             a == IF p.author = Nobody THEN k.arg[1] ELSE p.author
             row == [p EXCEPT !.author = a]
  <2>2. PatchDeck(deck, k.arg[1], k.arg[4]) = row BY DEF PatchDeck
  <2>3. /\ p \in DeckRows /\ p.author = deck.author /\ p.vocab = deck.vocab
        /\ "cards" \notin DOMAIN k.arg[4] => p.cards = deck.cards
    BY <1>5, <1>7, <2>1, PatchedDeck
  <2> HIDE DEF p
  <2>4. a \in User \cup {Nobody} BY <1>5, <2>3 DEF DeckRows
  <2> HIDE DEF a
  <2>5. row \in DeckRows /\ row.author = a /\ row.vocab = p.vocab /\ row.cards = p.cards
    BY <2>3, <2>4, DeckWith
  <2> HIDE DEF row
  <2>6. a = (IF deck.author = Nobody THEN k.arg[1] ELSE deck.author) BY <2>3 DEF a
  <2>7. Keeps(k, row, deck) BY <1>8, <2>3, <2>5, <2>6 DEF Keeps
  <2>8. row.vocab => row.author # Nobody BY <1>7, <2>1, <2>3, <2>5, <2>6
  <2>9. row.author = deck.author \/ deck.author = Nobody BY <2>5, <2>6
  <2> QED BY <1>1, <1>3, <2>1, <2>2, <2>5, <2>7, <2>8, <2>9, ReadsManifest
<1>9. CASE k.op = "approve" /\ ~Answer(w)
  <2>1. Has(Deck(d)) /\ Keep(w, Patched(deck, k.arg[4]), "upsert")
    BY <1>1, <1>9 DEF ReadDeck, At, Arg, Actor, Subject, Patch
  <2> DEFINE row == Patched(deck, k.arg[4])
  <2>2. k.arg[3] = {} /\ "cards" \notin DOMAIN k.arg[4] BY <1>4, <1>9 DEF DeckRequest
  <2>3. /\ row \in DeckRows /\ row.author = deck.author /\ row.vocab = deck.vocab
        /\ row.cards = deck.cards
    BY <1>5, <1>7, <2>1, <2>2, PatchedDeck
  <2> HIDE DEF row
  <2>4. Keeps(k, row, deck) BY <2>3 DEF Keeps
  <2>5. k.arg[3] = {} BY <2>2
  <2>6. row.vocab => row.author # Nobody BY <1>7, <2>1, <2>3
  <2>7. Keep(w, row, "upsert") BY <2>1 DEF row
  <2> QED BY <1>1, <1>3, <2>1, <2>3, <2>4, <2>5, <2>6, <2>7, ReadsManifest
<1>10. CASE k.op = "add" /\ ~Answer(w)
  <2>1. Has(Deck(d)) /\ Keep(w, [deck EXCEPT !.cards = @ \cup k.arg[4].cards], "upsert")
    BY <1>1, <1>10 DEF ReadDeck, At, Arg, Actor, Subject, Patch
  <2> DEFINE cards == deck.cards \cup k.arg[4].cards
             row == [deck EXCEPT !.cards = cards]
  <2>2. k.arg[3] = {} /\ k.arg[4].cards \subseteq Card BY <1>4, <1>10 DEF DeckRequest
  <2>3. cards \in SUBSET Card /\ deck \in DeckRows BY <1>7, <2>1, <2>2 DEF DeckRows
  <2>4. [deck EXCEPT !.cards = @ \cup k.arg[4].cards] = row BY <2>3 DEF DeckRows
  <2>5. deck.cards \subseteq cards OBVIOUS
  <2> HIDE DEF cards
  <2>6. /\ row \in DeckRows /\ row.author = deck.author /\ row.vocab = deck.vocab
        /\ row.cards = cards
    BY ZenonT(60), <2>3, DeckWith
  <2> HIDE DEF row
  <2>7. Keeps(k, row, deck) BY <2>5, <2>6 DEF Keeps
  <2>8. k.arg[3] = {} BY <2>2
  <2>9. row.vocab => row.author # Nobody BY <1>7, <2>1, <2>6
  <2>10. Keep(w, row, "upsert") /\ Has(Deck(d)) BY <2>1, <2>4
  <2>11. row.author = deck.author \/ deck.author = Nobody BY <2>6
  <2>12. row \in DeckRows BY <2>6
  <2> HIDE DEF deck
  <2> QED BY <1>1, <1>3, <2>7, <2>8, <2>9, <2>10, <2>11, <2>12, ReadsManifest DEF deck
<1> QED BY <1>3, <1>6, <1>8, <1>9, <1>10

\* What a request may write of the tags of its deck.
TagWrite(x, d, tags) ==
    \E g \in Tag : \/ x = Delete(DeckTag(d, g))
                   \/ x = Put(DeckTag(d, g), TRUE) /\ g \in tags

TagWrites(k, todo) == \A x \in Planned(todo) : TagWrite(x, k.arg[2], UNION k.arg[3])

TagsThere(k) == \A g \in UNION k.arg[3] : Has(TagRow(g)) \/ TagRow(g) \in shared

LEMMA DeckGoesOn ==
    ASSUME ContentInv, NEW w \in Worker, NEW k, k = call[w], NEW n, Moves(w, k, n),
           shared' = shared, requests' = requests,
           NEW todo, NEW at, n = With(k, todo, at),
           k.op \in {"create", "update"}, k.at # "read",
           at \in {"set", "difference", "upsert"}, at # "upsert" => todo = <<>>,
           TagWrites(k, todo), at # "set" => TagsThere(k)
    PROVE  ContentInv'
<1>1. Request(k) /\ Fresh(k) BY DEF ContentInv
<1>2. /\ n.op = k.op /\ n.on = k.on /\ n.arg = k.arg /\ n.id = k.id /\ n.at = at /\ n.todo = todo
  BY WithSame
<1>3. DeckRequest(k) /\ DeckFresh(k) /\ DeckWriter(k) /\ DeckWriter(n)
  BY <1>1, <1>2 DEF Request, Fresh, DeckWriter
<1>4. DeckRequest(n)'
  <2>1. \A x \in Planned(n.todo) : TagWrite(x, n.arg[2], UNION n.arg[3])
    BY <1>2 DEF TagWrites
  <2>2. /\ n.arg[1] \in User /\ n.arg[2] \in 0..requests /\ Deck(n.arg[2]) \in n.on
        /\ UNION n.arg[3] \subseteq Tag /\ \A g \in UNION n.arg[3] : TagRow(g) \in n.on
        /\ GoodPatch(n.arg[4])
        /\ n.arg[5] \in DeckRows /\ (n.arg[5].vocab => n.arg[5].author # Nobody)
    BY <1>2, <1>3 DEF DeckRequest
  <2>3. n.op \notin {"approve", "add"} /\ n.at \in {"set", "difference", "upsert"} BY <1>2
  <2>4. n.at # "upsert" => n.todo = <<>> BY <1>2
  <2> QED BY <2>1, <2>2, <2>3, <2>4 DEF DeckRequest, TagWrite
<1>5. Request(n)'
  BY <1>2, <1>4
     DEF Request, Ops, OtherDeckRequest, TagRequest, StoryRequest, SubRequest, VocabRequest, Once,
         StoryWriter
<1>6. items' = items /\ gone' = gone BY DEF Moves
<1>7. DeckFresh(n)'
  <2> DEFINE d == k.arg[2]
  <2>1. NotGone(Deck(d))' BY <1>3, <1>6 DEF DeckFresh, NotGone
  <2>2. k.op = "create" => ~k.arg[5].vocab /\ (Has(Deck(d))' => Deck(d) \in shared')
    BY <1>3, <1>6 DEF DeckFresh, Has
  <2>3. \A row, was : Keeps(n, row, was) <=> Keeps(k, row, was) BY <1>2 DEF Keeps
  <2>4. k.op # "create" /\ Deck(d) \notin shared =>
            Has(Deck(d))' /\ Keeps(n, k.arg[5], items'[Deck(d)])
    BY <1>3, <1>6, <2>3 DEF DeckFresh, Has
  <2>5. at # "set" => \A g \in UNION k.arg[3] : Has(TagRow(g))' \/ TagRow(g) \in shared'
    BY <1>6 DEF TagsThere, Has
  <2> QED BY <1>2, <2>1, <2>2, <2>4, <2>5 DEF DeckFresh
<1>8. Fresh(n)'
  BY <1>2, <1>7 DEF Fresh, VoteFresh, TagFresh, StoryFresh, SubFresh, VocabFresh, StoryWriter
<1>9. \A d : Authors(n, d) \subseteq Authors(k, d) BY <1>2, <1>3 DEF Authors
<1>10. \A d : d \notin unclaimed => OneAuthor(d)' BY <1>9, SameAuthors
<1>11. StillClears(k, n) BY ClearsNothing
<1> QED BY <1>2, <1>5, <1>8, <1>10, <1>11, GoesOn

LEMMA DeckAnswers ==
    ASSUME ContentInv, NEW w \in Worker, Answer(w), UNCHANGED History,
           NEW k, k = call[w], k.op # "idle",
           k.op \notin {"delete", "dropTag"} \/ (k.at = "read" /\ k.todo = <<>>)
    PROVE  ContentInv'
<1>1. Moves(w, k, Idle) BY AnswerFacts DEF Moves, History, ContentInv
<1> QED BY <1>1, ClearsNothing, Ends

LEMMA ResolveTagsKept ==
    ASSUME ContentInv, NEW w \in Worker, ResolveTags(w), UNCHANGED History
    PROVE  ContentInv'
<1>1. PICK k : k = call[w] OBVIOUS
<1>2. PICK n : n = call'[w] OBVIOUS
<1>3. k.op \in {"create", "update"} /\ k.at = "tags" /\ k.op # "idle" /\ CallsOK
  BY <1>1 DEF ResolveTags, At, ContentInv
<1>4. CASE Answer(w) BY <1>1, <1>3, <1>4, DeckAnswers
<1>5. CASE Goto(w, "set")
  <2>1. Moves(w, k, n) /\ shared' = shared /\ requests' = requests /\ n = With(k, <<>>, "set")
    BY <1>1, <1>2, <1>3, <1>5, GotoFacts DEF Moves, History
  <2>2. TagWrites(k, <<>>) BY NoPlan DEF TagWrites
  <2> QED BY <1>1, <1>3, <2>1, <2>2, DeckGoesOn
<1>6. CASE Arg(w, 3) = {} /\ Goto(w, "upsert")
  <2>1. Moves(w, k, n) /\ shared' = shared /\ requests' = requests /\ n = With(k, <<>>, "upsert")
    BY <1>1, <1>2, <1>3, <1>6, GotoFacts DEF Moves, History
  <2>2. TagWrites(k, <<>>) BY NoPlan DEF TagWrites
  <2>3. TagsThere(k)
    <3>1. k.arg[3] = {} BY <1>1, <1>6 DEF Arg
    <3> QED BY <3>1 DEF TagsThere
  <2> QED BY <1>1, <1>3, <2>1, <2>2, <2>3, DeckGoesOn
<1> QED BY <1>4, <1>5, <1>6 DEF ResolveTags

LEMMA BatchOf ==
    ASSUME NEW S
    PROVE  /\ Sequence(Batch(S)) /\ Planned(Batch(S)) = S
           /\ Batch(S) = <<>> <=> S = {}
<1>1. CASE S = {} BY <1>1, NoPlan DEF Batch
<1>2. CASE S # {} BY <1>2, OneSet DEF Batch
<1> QED BY <1>1, <1>2

LEMMA SetDeckTagsKept ==
    ASSUME ContentInv, NEW w \in Worker, SetDeckTags(w), UNCHANGED History
    PROVE  ContentInv'
<1>1. PICK k : k = call[w] OBVIOUS
<1>2. PICK n : n = call'[w] OBVIOUS
<1>3. k.op \in {"create", "update"} /\ k.at \in {"set", "difference"} /\ k.op # "idle" /\ CallsOK
  BY <1>1 DEF SetDeckTags, At, ContentInv
<1>4. CASE Answer(w) /\ k.at = "set" BY <1>1, <1>3, <1>4, DeckAnswers
<1>5. CASE Asked(w) \subseteq RealTags /\ Goto(w, "difference")
  <2>1. /\ Moves(w, k, n) /\ shared' = shared /\ requests' = requests
        /\ n = With(k, <<>>, "difference")
    BY <1>1, <1>2, <1>3, <1>5, GotoFacts DEF Moves, History
  <2>2. TagWrites(k, <<>>) BY NoPlan DEF TagWrites
  <2>3. TagsThere(k)
    BY <1>1, <1>5 DEF TagsThere, Asked, Arg, RealTags, TagThere
  <2> QED BY <1>1, <1>3, <2>1, <2>2, <2>3, DeckGoesOn
<1>6. CASE k.at = "difference"
  <2> DEFINE d == k.arg[2]
             asked == UNION k.arg[3]
             current == {g \in Tag : Has(DeckTag(d, g))}
             S == {Put(DeckTag(d, g), TRUE) : g \in asked \ current}
                     \cup {Delete(DeckTag(d, g)) : g \in current \ asked}
  <2>1. Proceed(w, Batch(S), "upsert")
    BY <1>1, <1>6 DEF SetDeckTags, At, Asked, Subject, Arg
  <2>2. asked \subseteq Tag
    BY <1>1, <1>3 DEF ContentInv, Request, DeckRequest, DeckWriter
  <2>3. TagWrites(k, Batch(S))
    <3>1. ASSUME NEW x \in S PROVE TagWrite(x, d, asked)
      BY <2>2 DEF TagWrite
    <3> HIDE DEF S
    <3>2. Planned(Batch(S)) = S BY BatchOf
    <3> QED BY <3>1, <3>2 DEF TagWrites
  <2> HIDE DEF S
  <2>4. Sequence(Batch(S)) BY BatchOf
  <2>5. PICK todo : todo = Batch(S) OBVIOUS
  <2>6. Moves(w, k, n) /\ shared' = shared /\ requests' = requests /\ n = Onward(k, todo, "upsert")
    BY <1>1, <1>2, <1>3, <2>1, <2>4, <2>5, ProceedFacts DEF Moves, History
  <2>7. n = With(k, todo, "upsert")
    <3>1. Shaped(k) BY <1>1, <1>3 DEF CallsOK
    <3> QED BY <2>6, <3>1, OnwardWith
  <2>8. TagsThere(k)
    BY <1>1, <1>3, <1>6 DEF ContentInv, Fresh, DeckFresh, DeckWriter, TagsThere
  <2>9. TagWrites(k, todo) BY <2>3, <2>5
  <2> QED BY <1>1, <1>3, <2>6, <2>7, <2>8, <2>9, DeckGoesOn
<1> QED
  <2>1. k.at = "set" => Answer(w) \/ (Asked(w) \subseteq RealTags /\ Goto(w, "difference"))
    BY <1>1 DEF SetDeckTags, At
  <2> QED BY <1>3, <1>4, <1>5, <1>6, <2>1

LEMMA UpsertDeckKept ==
    ASSUME ContentInv, NEW w \in Worker, UpsertDeck(w), UNCHANGED History
    PROVE  ContentInv'
<1>1. PICK k : k = call[w] OBVIOUS
<1>2. PICK n : n = call'[w] OBVIOUS
<1>3. DeckWriter(k) /\ k.at = "upsert" /\ k.todo = <<>> /\ k.op # "idle" /\ CallsOK
  BY <1>1 DEF UpsertDeck, At, ContentInv, DeckWriter
<1>4. Request(k) /\ Fresh(k) BY <1>1 DEF ContentInv
<1> DEFINE d == k.arg[2]
           key == Deck(d)
           manifest == k.arg[5]
           author == IF manifest.author = Nobody /\ Has(key) THEN items[key].author
                     ELSE manifest.author
           row == [manifest EXCEPT !.author = author]
<1>5. manifest \in DeckRows /\ (manifest.vocab => manifest.author # Nobody) /\ DeckRequest(k)
  BY <1>3, <1>4 DEF Request, DeckRequest, DeckWriter
<1>6. Plan(w, <<{Put(key, row)}>>)
  <2>1. row = [manifest EXCEPT !.author = IF @ = Nobody /\ Has(key) THEN items[key].author ELSE @]
    BY <1>5 DEF DeckRows
  <2> QED BY <1>1, <2>1 DEF UpsertDeck, Subject, Manifest, Arg
<1>7. author \in User \cup {Nobody}
  <2>1. Has(key) => items[key] \in DeckRows BY DEF ContentInv, Rows
  <2> QED BY <1>5, <2>1 DEF DeckRows
<1>8. manifest.author # Nobody => author = manifest.author OBVIOUS
<1>9. /\ row \in DeckRows /\ row.author = author /\ row.vocab = manifest.vocab
      /\ row.cards = manifest.cards
  <2> HIDE DEF author
  <2> QED BY <1>5, <1>7, DeckWith
<1>10. k.op # "create" /\ key \notin shared => Has(key) /\ Keeps(k, row, items[key])
  <2> SUFFICES ASSUME k.op # "create", key \notin shared PROVE Has(key) /\ Keeps(k, row, items[key])
    OBVIOUS
  <2>1. Has(key) /\ Keeps(k, manifest, items[key]) BY <1>3, <1>4 DEF Fresh, DeckFresh
  <2>2. row.author = items[key].author \/ items[key].author = Nobody
    BY <1>9, <2>1 DEF Keeps
  <2> HIDE DEF row
  <2> QED BY <1>9, <2>1, <2>2 DEF Keeps
<1> HIDE DEF row, author
<1>11. PICK x : x = Put(key, row) OBVIOUS
<1>12. x.val = row /\ x = Put(key, x.val) BY <1>11 DEF Put
<1>13. Sequence(<<{x}>>) /\ <<{x}>> # <<>> /\ Planned(<<{x}>>) = {x} BY OneSet
<1>14. PICK todo : todo = <<{x}>> OBVIOUS
<1>15. Moves(w, k, n) /\ shared' = shared /\ requests' = requests /\ n = With(k, todo, "done")
  BY <1>1, <1>2, <1>3, <1>6, <1>11, <1>13, <1>14, PlanFacts DEF Moves, History
<1>16. /\ n.op = k.op /\ n.on = k.on /\ n.arg = k.arg /\ n.id = k.id /\ n.at = "done"
       /\ n.todo = todo /\ Planned(n.todo) = {x}
  <2>1. /\ n.op = k.op /\ n.on = k.on /\ n.arg = k.arg /\ n.id = k.id /\ n.at = "done"
        /\ n.todo = todo
    BY <1>15, WithSame
  <2> QED BY <1>13, <1>14, <2>1
<1>17. DeckRequest(n)'
  BY <1>3, <1>5, <1>8, <1>9, <1>12, <1>15, <1>16 DEF DeckRequest, DeckWriter
<1>18. Once(n)' BY <1>14, <1>16 DEF Once
<1>19. Request(n)'
  BY <1>3, <1>16, <1>17, <1>18
     DEF Request, Ops, OtherDeckRequest, TagRequest, StoryRequest, SubRequest, VocabRequest,
         StoryWriter, DeckWriter
<1>20. items' = items /\ gone' = gone BY <1>15 DEF Moves
<1>21. DeckFresh(n)'
  <2>1. NotGone(key)' BY <1>3, <1>4, <1>15, <1>20 DEF Fresh, DeckFresh, NotGone
  <2>2. k.op = "create" => ~manifest.vocab /\ (Has(key)' => key \in shared')
    BY <1>3, <1>4, <1>15, <1>20 DEF Fresh, DeckFresh, Has
  <2>3. \A r, was : Keeps(n, r, was) <=> Keeps(k, r, was) BY <1>16 DEF Keeps
  <2>4. k.op # "create" /\ key \notin shared => Has(key)' /\ Keeps(n, manifest, items'[key])
    BY <1>3, <1>4, <1>20, <2>3 DEF Fresh, DeckFresh, Has
  <2>5. k.op # "create" /\ key \notin shared =>
            \A y \in Planned(n.todo) : Keeps(n, y.val, items'[key])
    BY <1>10, <1>12, <1>16, <1>20, <2>3
  <2> QED BY <1>15, <1>16, <2>1, <2>2, <2>4, <2>5 DEF DeckFresh
<1>22. Fresh(n)'
  BY <1>3, <1>16, <1>21
     DEF Fresh, VoteFresh, TagFresh, StoryFresh, SubFresh, VocabFresh, StoryWriter, DeckWriter
<1>23. \A e : Authors(n, e) \subseteq Authors(k, e) BY <1>3, <1>16 DEF Authors, DeckWriter
<1>24. \A e : e \notin unclaimed => OneAuthor(e)' BY <1>15, <1>23, SameAuthors
<1>25. StillClears(k, n)
  <2>1. k.op \notin {"delete", "dropTag"} BY <1>3 DEF DeckWriter
  <2> QED BY <2>1, ClearsNothing
<1> QED BY <1>15, <1>16, <1>19, <1>22, <1>24, <1>25, GoesOn

\* A request plans its writes.
LEMMA PlanMoves ==
    ASSUME ContentInv, NEW w \in Worker, NEW k, k = call[w], k.op # "idle", NEW todo,
           Sequence(todo), todo # <<>>, NEW at, Proceed(w, todo, at), UNCHANGED History
    PROVE  \E n : /\ Moves(w, k, n) /\ shared' = shared /\ requests' = requests
                  /\ n.op = k.op /\ n.on = k.on /\ n.arg = k.arg /\ n.id = k.id
                  /\ n.at = at /\ n.todo = todo
<1>1. PICK n : n = call'[w] OBVIOUS
<1>2. Moves(w, k, n) /\ shared' = shared /\ requests' = requests /\ n = Onward(k, todo, at)
  BY <1>1, ProceedFacts DEF Moves, History, ContentInv
<1>3. Shaped(k) BY DEF ContentInv, CallsOK
<1>4. n = With(k, todo, at) BY <1>2, <1>3, OnwardWith
<1> QED BY <1>2, <1>4, WithSame

\* A request that is not about the author of a deck has planned its writes.
LEMMA PlanKept ==
    ASSUME ContentInv, NEW w \in Worker, NEW k, NEW n, Moves(w, k, n), ~DeckWriter(k),
           n.op = k.op, n.on = k.on, n.arg = k.arg, n.id = k.id,
           Request(n)', Fresh(n)', StillClears(k, n)
    PROVE  ContentInv'
<1>1. \A d : Authors(n, d) \subseteq Authors(k, d) BY DEF Authors, DeckWriter, AskedVocab
<1>2. \A d : d \notin unclaimed => OneAuthor(d)' BY <1>1, SameAuthors
<1> QED BY <1>2, GoesOn

LEMMA CountOrDeleteKept ==
    ASSUME ContentInv, NEW w \in Worker, CountOrDelete(w), UNCHANGED History
    PROVE  ContentInv'
<1>1. PICK k : k = call[w] OBVIOUS
<1>2. Request(k) /\ Fresh(k) /\ CallsOK BY <1>1 DEF ContentInv
<1> DEFINE d == k.arg[2]
           vote == DeckVote(d, k.arg[1])
<1>3. k.op \in {"vote", "delete"} /\ k.todo = <<>> /\ k.op # "idle" /\ k.at \in {"read", "votes"}
      /\ ~DeckWriter(k) /\ (k.op = "vote" => k.at = "read")
  BY <1>1 DEF CountOrDelete, At, DeckWriter
<1>4. OtherDeckRequest(k) BY <1>2, <1>3 DEF Request
<1>5. CASE Answer(w) /\ k.at = "read"
  BY <1>1, <1>3, <1>5, DeckAnswers
<1>6. CASE k.op = "vote" /\ ~Answer(w)
  <2>1. PICK x : x = IF k.arg[3] THEN PutNew(vote, TRUE) ELSE Delete(vote) OBVIOUS
  <2>2. Has(Deck(d)) /\ Plan(w, <<{x}>>)
    BY <1>1, <1>6, <2>1 DEF CountOrDelete, At, Arg, Actor, Subject
  <2>3. x = PutNew(vote, TRUE) \/ x = Delete(vote) BY <2>1
  <2>4. PICK todo : todo = <<{x}>> OBVIOUS
  <2>5. Sequence(todo) /\ todo # <<>> /\ Planned(todo) = {x} BY <2>4, OneSet
  <2>6. Proceed(w, todo, "done") BY <2>2, <2>4 DEF Plan
  <2>7. PICK n : /\ Moves(w, k, n) /\ shared' = shared /\ requests' = requests
                 /\ n.op = k.op /\ n.on = k.on /\ n.arg = k.arg /\ n.id = k.id
                 /\ n.at = "done" /\ n.todo = todo
    BY <1>1, <1>3, <2>5, <2>6, PlanMoves
  <2>8. OtherDeckRequest(n)'
    BY <1>4, <1>6, <2>3, <2>5, <2>7 DEF OtherDeckRequest
  <2>9. Once(n)' BY <2>4, <2>7 DEF Once
  <2>10. Request(n)'
    BY <1>6, <2>7, <2>8, <2>9
       DEF Request, Ops, DeckRequest, TagRequest, StoryRequest, SubRequest, VocabRequest,
           StoryWriter, DeckWriter
  <2>11. Fresh(n)'
    <3>1. VoteFresh(n)' BY <2>2, <2>7 DEF VoteFresh, Moves, Has
    <3> QED BY <1>6, <2>7, <3>1
            DEF Fresh, DeckFresh, TagFresh, StoryFresh, SubFresh, VocabFresh, StoryWriter, DeckWriter
  <2>12. StillClears(k, n) BY <1>3, <1>6, ClearsNothing
  <2> QED BY <1>3, <2>7, <2>10, <2>11, <2>12, PlanKept
<1>7. CASE k.op = "delete" /\ k.at = "read" /\ ~Answer(w)
  <2>1. PICK x : x = Delete(Deck(d)) OBVIOUS
  <2>2. Proceed(w, <<{x}>>, "votes")
    BY <1>1, <1>7, <2>1 DEF CountOrDelete, At, Arg, Actor, Subject
  <2>4. PICK todo : todo = <<{x}>> OBVIOUS
  <2>5. Sequence(todo) /\ todo # <<>> /\ Planned(todo) = {x} BY <2>4, OneSet
  <2>6. Proceed(w, todo, "votes") BY <2>2, <2>4
  <2>7. PICK n : /\ Moves(w, k, n) /\ shared' = shared /\ requests' = requests
                 /\ n.op = k.op /\ n.on = k.on /\ n.arg = k.arg /\ n.id = k.id
                 /\ n.at = "votes" /\ n.todo = todo
    BY <1>1, <1>3, <2>5, <2>6, PlanMoves
  <2>8. OtherDeckRequest(n)'
    BY <1>4, <1>7, <2>1, <2>5, <2>7 DEF OtherDeckRequest
  <2>10. Request(n)'
    BY <1>7, <2>7, <2>8
       DEF Request, Ops, DeckRequest, TagRequest, StoryRequest, SubRequest, VocabRequest, Once,
           StoryWriter, DeckWriter
  <2>11. Fresh(n)'
    BY <1>7, <2>7
       DEF Fresh, DeckFresh, VoteFresh, TagFresh, StoryFresh, SubFresh, VocabFresh, StoryWriter,
           DeckWriter
  <2>12. StillClears(k, n) BY <1>3, <1>7, ClearsNothing
  <2> QED BY <1>3, <2>7, <2>10, <2>11, <2>12, PlanKept
<1>8. CASE k.op = "delete" /\ k.at = "votes"
  <2> DEFINE S == {Delete(DeckVote(d, u)) : u \in VotesOf(d)}
  <2>1. Plan(w, Batch(S))
    BY <1>1, <1>8 DEF CountOrDelete, At, Arg, Subject, CascadeVotes
  <2>2. \A u \in User : Has(DeckVote(d, u)) => Delete(DeckVote(d, u)) \in S BY DEF VotesOf
  <2>3. \A x \in S : \E u \in User : x = Delete(DeckVote(d, u)) BY DEF VotesOf
  <2> HIDE DEF S
  <2>4. PICK todo : todo = Batch(S) OBVIOUS
  <2>5. Sequence(todo) /\ Planned(todo) = S /\ (todo = <<>> <=> S = {}) BY <2>4, BatchOf
  <2>6. \A e, g : ~ClearsTag(k, e, g) BY <1>8 DEF ClearsTag
  <2>7. CASE S = {}
    <3>1. Answer(w) BY <2>1, <2>4, <2>5, <2>7 DEF Plan, Answer
    <3>2. Moves(w, k, Idle) BY <1>1, <1>2, <1>3, <3>1, AnswerFacts DEF Moves, History
    <3>3. \A e \in Id, u \in User : ClearsVote(k, e, u) => ~Has(DeckVote(e, u))
      BY <2>2, <2>7 DEF ClearsVote
    <3>4. StillClears(k, Idle) BY <2>6, <3>3 DEF StillClears
    <3> QED BY <3>2, <3>4, Ends
  <2>8. CASE S # {}
    <3>1. Proceed(w, todo, "done") BY <2>1, <2>4 DEF Plan
    <3>2. PICK n : /\ Moves(w, k, n) /\ shared' = shared /\ requests' = requests
                   /\ n.op = k.op /\ n.on = k.on /\ n.arg = k.arg /\ n.id = k.id
                   /\ n.at = "done" /\ n.todo = todo
      BY <1>1, <1>3, <2>5, <2>8, <3>1, PlanMoves
    <3>3. OtherDeckRequest(n)'
      BY <1>4, <1>8, <2>3, <2>5, <3>2 DEF OtherDeckRequest
    <3>4. Request(n)'
      BY <1>8, <3>2, <3>3
         DEF Request, Ops, DeckRequest, TagRequest, StoryRequest, SubRequest, VocabRequest, Once,
             StoryWriter, DeckWriter
    <3>5. Fresh(n)'
      BY <1>8, <3>2
         DEF Fresh, DeckFresh, VoteFresh, TagFresh, StoryFresh, SubFresh, VocabFresh, StoryWriter,
             DeckWriter
    <3>6. StillClears(k, n)
      <4> SUFFICES ASSUME NEW e \in Id, NEW u \in User, ClearsVote(k, e, u), Has(DeckVote(e, u))
                   PROVE  ClearsVote(n, e, u)
        BY <2>6 DEF StillClears
      <4>1. e = d BY DEF ClearsVote
      <4>2. Delete(DeckVote(e, u)) \in Planned(n.todo) BY <2>2, <2>5, <3>2, <4>1
      <4> QED BY <1>8, <3>2, <4>1, <4>2 DEF ClearsVote
    <3> QED BY <1>3, <3>2, <3>4, <3>5, <3>6, PlanKept
  <2> QED BY <2>7, <2>8
<1> QED
  <2>1. k.op = "vote" \/ k.op = "delete" BY <1>3
  <2>2. k.at = "votes" => k.op = "delete" BY <1>3
  <2> QED BY <1>3, <1>5, <1>6, <1>7, <1>8, <2>1, <2>2

LEMMA WriteTagKept ==
    ASSUME ContentInv, NEW w \in Worker, WriteTag(w), UNCHANGED History
    PROVE  ContentInv'
<1>1. PICK k : k = call[w] OBVIOUS
<1>2. Request(k) /\ Fresh(k) /\ CallsOK BY <1>1 DEF ContentInv
<1> DEFINE g == k.arg[1]
<1>3. k.op \in {"newTag", "recolor", "dropTag"} /\ k.todo = <<>> /\ k.op # "idle"
      /\ ~DeckWriter(k) /\ k.at \in {"put", "read", "mirrors"}
      /\ (k.op = "newTag" => k.at = "put") /\ (k.op = "recolor" => k.at = "read")
      /\ (k.op = "dropTag" => k.at \in {"read", "mirrors"})
  BY <1>1 DEF WriteTag, At, DeckWriter
<1>4. TagRequest(k) /\ g \in Tag BY <1>2, <1>3 DEF Request, TagRequest
<1>5. CASE Answer(w) /\ k.at = "read"
  BY <1>1, <1>3, <1>5, DeckAnswers
<1>6. CASE k.op = "newTag" \/ (k.op = "recolor" /\ ~Answer(w))
  <2>1. PICK x : x = IF k.op = "newTag" THEN PutNew(TagRow(g), WholeTag)
                     ELSE Update(TagRow(g), [color |-> "red"], <<>>)
    OBVIOUS
  <2>2. Plan(w, <<{x}>>) /\ (k.op = "recolor" => TagThere(g))
    <3>1. CASE k.op = "newTag" BY <1>1, <2>1, <3>1 DEF WriteTag, At, Arg
    <3>2. CASE k.op = "recolor"
      <4>1. Plan(w, Recolor(g)) BY <1>1, <3>2 DEF WriteTag, At, Arg
      <4>2. TagThere(g) BY <1>6, <3>2, <4>1 DEF Recolor, Plan, Answer
      <4> QED BY <2>1, <3>2, <4>1, <4>2 DEF Recolor
    <3> QED BY <1>6, <3>1, <3>2
  <2>4. PICK todo : todo = <<{x}>> OBVIOUS
  <2>5. Sequence(todo) /\ todo # <<>> /\ Planned(todo) = {x} BY <2>4, OneSet
  <2>6. Proceed(w, todo, "done") BY <2>2, <2>4 DEF Plan
  <2>7. PICK n : /\ Moves(w, k, n) /\ shared' = shared /\ requests' = requests
                 /\ n.op = k.op /\ n.on = k.on /\ n.arg = k.arg /\ n.id = k.id
                 /\ n.at = "done" /\ n.todo = todo
    BY <1>1, <1>3, <2>5, <2>6, PlanMoves
  <2>8. TagRequest(n)' BY <1>4, <1>6, <2>1, <2>5, <2>7 DEF TagRequest
  <2>9. Once(n)' BY <2>4, <2>7 DEF Once
  <2>10. Request(n)'
    BY <1>6, <2>7, <2>8, <2>9
       DEF Request, Ops, DeckRequest, OtherDeckRequest, StoryRequest, SubRequest, VocabRequest,
           StoryWriter, DeckWriter
  <2>11. Fresh(n)'
    <3>1. TagFresh(n)'
      <4> SUFFICES ASSUME k.op = "recolor" PROVE NotGone(TagRow(g))' /\ TagThere(g)'
        BY <2>7 DEF TagFresh
      <4>1. TagThere(g) /\ Has(TagRow(g)) BY <2>2 DEF TagThere
      <4>2. TagRow(g) \in gone => TagRow(g) \in shared
        BY <4>1, Kinds DEF ContentInv, GoneStaysGone, Has, Lasting
      <4> QED BY <2>7, <4>1, <4>2 DEF NotGone, Moves, TagThere, Has
    <3> QED BY <1>6, <2>7, <3>1
            DEF Fresh, DeckFresh, VoteFresh, StoryFresh, SubFresh, VocabFresh, StoryWriter, DeckWriter
  <2>12. StillClears(k, n) BY <1>3, <1>6, ClearsNothing
  <2> QED BY <1>3, <2>7, <2>10, <2>11, <2>12, PlanKept
<1>7. CASE k.op = "dropTag" /\ k.at = "read" /\ ~Answer(w)
  <2>1. PICK x : x = Delete(TagRow(g)) OBVIOUS
  <2>2. Proceed(w, <<{x}>>, "mirrors")
    BY <1>1, <1>7, <2>1 DEF WriteTag, At, Arg
  <2>4. PICK todo : todo = <<{x}>> OBVIOUS
  <2>5. Sequence(todo) /\ todo # <<>> /\ Planned(todo) = {x} BY <2>4, OneSet
  <2>6. Proceed(w, todo, "mirrors") BY <2>2, <2>4
  <2>7. PICK n : /\ Moves(w, k, n) /\ shared' = shared /\ requests' = requests
                 /\ n.op = k.op /\ n.on = k.on /\ n.arg = k.arg /\ n.id = k.id
                 /\ n.at = "mirrors" /\ n.todo = todo
    BY <1>1, <1>3, <2>5, <2>6, PlanMoves
  <2>8. TagRequest(n)' BY <1>4, <1>7, <2>1, <2>5, <2>7 DEF TagRequest
  <2>10. Request(n)'
    BY <1>7, <2>7, <2>8
       DEF Request, Ops, DeckRequest, OtherDeckRequest, StoryRequest, SubRequest, VocabRequest, Once,
           StoryWriter, DeckWriter
  <2>11. Fresh(n)'
    BY <1>7, <2>7
       DEF Fresh, DeckFresh, VoteFresh, TagFresh, StoryFresh, SubFresh, VocabFresh, StoryWriter,
           DeckWriter
  <2>12. StillClears(k, n) BY <1>3, <1>7, ClearsNothing
  <2> QED BY <1>3, <2>7, <2>10, <2>11, <2>12, PlanKept
<1>8. CASE k.op = "dropTag" /\ k.at = "mirrors"
  <2> DEFINE S == {Delete(DeckTag(e, g)) : e \in {e \in Id : Has(DeckTag(e, g))}}
  <2>1. Plan(w, Batch(S)) BY <1>1, <1>8 DEF WriteTag, At, Arg
  <2>2. \A e \in Id : Has(DeckTag(e, g)) => Delete(DeckTag(e, g)) \in S OBVIOUS
  <2>3. \A x \in S : \E e \in Id : x = Delete(DeckTag(e, g)) OBVIOUS
  <2> HIDE DEF S
  <2>4. PICK todo : todo = Batch(S) OBVIOUS
  <2>5. Sequence(todo) /\ Planned(todo) = S /\ (todo = <<>> <=> S = {}) BY <2>4, BatchOf
  <2>6. \A e, u : ~ClearsVote(k, e, u) BY <1>8 DEF ClearsVote
  <2>7. CASE S = {}
    <3>1. Answer(w) BY <2>1, <2>4, <2>5, <2>7 DEF Plan, Answer
    <3>2. Moves(w, k, Idle) BY <1>1, <1>2, <1>3, <3>1, AnswerFacts DEF Moves, History
    <3>3. \A e \in Id, h \in Tag : ClearsTag(k, e, h) => ~Has(DeckTag(e, h))
      BY <2>2, <2>7 DEF ClearsTag
    <3>4. StillClears(k, Idle) BY <2>6, <3>3 DEF StillClears
    <3> QED BY <3>2, <3>4, Ends
  <2>8. CASE S # {}
    <3>1. Proceed(w, todo, "done") BY <2>1, <2>4 DEF Plan
    <3>2. PICK n : /\ Moves(w, k, n) /\ shared' = shared /\ requests' = requests
                   /\ n.op = k.op /\ n.on = k.on /\ n.arg = k.arg /\ n.id = k.id
                   /\ n.at = "done" /\ n.todo = todo
      BY <1>1, <1>3, <2>5, <2>8, <3>1, PlanMoves
    <3>3. TagRequest(n)' BY <1>4, <1>8, <2>3, <2>5, <3>2 DEF TagRequest
    <3>4. Request(n)'
      BY <1>8, <3>2, <3>3
         DEF Request, Ops, DeckRequest, OtherDeckRequest, StoryRequest, SubRequest, VocabRequest, Once,
             StoryWriter, DeckWriter
    <3>5. Fresh(n)'
      BY <1>8, <3>2
         DEF Fresh, DeckFresh, VoteFresh, TagFresh, StoryFresh, SubFresh, VocabFresh, StoryWriter,
             DeckWriter
    <3>6. StillClears(k, n)
      <4> SUFFICES ASSUME NEW e \in Id, NEW h \in Tag, ClearsTag(k, e, h), Has(DeckTag(e, h))
                   PROVE  ClearsTag(n, e, h)
        BY <2>6 DEF StillClears
      <4>1. h = g BY DEF ClearsTag
      <4>2. Delete(DeckTag(e, h)) \in Planned(n.todo) BY <2>2, <2>5, <3>2, <4>1
      <4> QED BY <1>8, <3>2, <4>1, <4>2 DEF ClearsTag
    <3> QED BY <1>3, <3>2, <3>4, <3>5, <3>6, PlanKept
  <2> QED BY <2>7, <2>8
<1> QED BY <1>3, <1>5, <1>6, <1>7, <1>8

LEMMA PatchedStory ==
    ASSUME NEW story \in StoryRows, NEW patch \in Statuses
    PROVE  Patched(story, patch) \in StoryRows
<1> DEFINE row == Patched(story, patch)
<1>1. Overlaid(row, story, patch) BY OverlaidAt DEF Patched
<1> HIDE DEF row
<1>2. DOMAIN story = {"author", "status"} BY DEF StoryRows
<1>3. DOMAIN patch = {"status"} /\ patch.status \in Status BY DEF Statuses, Status
<1>4. DOMAIN row = {"author", "status"} /\ row = [a \in DOMAIN row |-> row[a]]
  BY <1>1, <1>2, <1>3 DEF Overlaid
<1>5. row.author = story.author /\ row.status = patch.status BY <1>1, <1>3, <1>4 DEF Overlaid
<1>6. row = [author |-> row.author, status |-> row.status] BY <1>4
<1>7. row.author \in User /\ row.status \in Status BY <1>3, <1>5 DEF StoryRows
<1>8. row \in StoryRows BY <1>6, <1>7 DEF StoryRows
<1> QED BY <1>8 DEF row

LEMMA WriteStoryKept ==
    ASSUME ContentInv, NEW w \in Worker, WriteStory(w), UNCHANGED History
    PROVE  ContentInv'
<1>1. PICK k : k = call[w] OBVIOUS
<1>2. PICK n : n = call'[w] OBVIOUS
<1>3. Request(k) /\ Fresh(k) /\ CallsOK BY <1>1 DEF ContentInv
<1> DEFINE s == k.arg[2]
           key == Story(s)
<1>4. k.op \in {"story", "edit", "review", "remove"} /\ k.todo = <<>> /\ k.op # "idle"
      /\ ~DeckWriter(k) /\ k.at \in {"put", "read", "merge"} /\ (k.op = "story" <=> k.at = "put")
      /\ (k.at = "merge" => k.op \in {"edit", "review"})
  BY <1>1 DEF WriteStory, At, DeckWriter
<1>5. StoryRequest(k) BY <1>3, <1>4 DEF Request
<1>6. StillClears(k, call'[w]) BY <1>4, ClearsNothing
<1>7. CASE Answer(w) BY <1>1, <1>4, <1>7, DeckAnswers
<1>8. CASE Goto(w, "merge") /\ k.at = "read" /\ k.op \in {"edit", "review"}
  <2>1. Moves(w, k, n) /\ shared' = shared /\ requests' = requests /\ n = With(k, <<>>, "merge")
    BY <1>1, <1>2, <1>3, <1>4, <1>8, GotoFacts DEF Moves, History
  <2>2. /\ n.op = k.op /\ n.on = k.on /\ n.arg = k.arg /\ n.id = k.id /\ n.at = "merge"
        /\ n.todo = <<>>
    BY <2>1, WithSame
  <2>3. StoryRequest(n)' BY <1>5, <1>8, <2>1, <2>2, NoPlan DEF StoryRequest, StoryWriter
  <2>4. Request(n)'
    BY <1>8, <2>2, <2>3
       DEF Request, Ops, DeckRequest, OtherDeckRequest, TagRequest, SubRequest, VocabRequest, Once,
           DeckWriter
  <2>5. Fresh(n)'
    BY <1>8, <2>2
       DEF Fresh, DeckFresh, VoteFresh, TagFresh, StoryFresh, SubFresh, VocabFresh, DeckWriter
  <2> QED BY <1>2, <1>4, <1>6, <2>1, <2>2, <2>4, <2>5, PlanKept
<1>9. ASSUME NEW x, Plan(w, <<{x}>>),
             \/ StoryWriter(k) /\ x = Put(key, x.val) /\ x.val \in StoryRows
                /\ (k.op = "story" \/ Has(key))
             \/ k.op = "remove" /\ x = Delete(key)
      PROVE  ContentInv'
  <2>4. PICK todo : todo = <<{x}>> OBVIOUS
  <2>5. Sequence(todo) /\ todo # <<>> /\ Planned(todo) = {x} BY <2>4, OneSet
  <2>6. Proceed(w, todo, "done") BY <1>9, <2>4 DEF Plan
  <2>7. PICK m : /\ Moves(w, k, m) /\ shared' = shared /\ requests' = requests
                 /\ m.op = k.op /\ m.on = k.on /\ m.arg = k.arg /\ m.id = k.id
                 /\ m.at = "done" /\ m.todo = todo
    BY <1>1, <1>4, <2>5, <2>6, PlanMoves
  <2>8. StoryRequest(m)' BY <1>4, <1>5, <1>9, <2>5, <2>7 DEF StoryRequest, StoryWriter
  <2>9. Once(m)' BY <2>4, <2>7 DEF Once
  <2>10. Request(m)'
    BY <1>4, <2>7, <2>8, <2>9
       DEF Request, Ops, DeckRequest, OtherDeckRequest, TagRequest, SubRequest, VocabRequest,
           DeckWriter
  <2>11. Fresh(m)'
    <3>1. StoryFresh(m)'
      <4> SUFFICES ASSUME StoryWriter(k) PROVE NotGone(key)'
        BY <2>7 DEF StoryFresh, StoryWriter
      <4>1. k.op # "remove" BY DEF StoryWriter
      <4>2. CASE k.op = "story" BY <1>3, <2>7, <4>2 DEF Fresh, StoryFresh, NotGone, Moves
      <4>3. CASE Has(key)
        <5>1. key \in gone => key \in shared
          BY <4>3, Kinds DEF ContentInv, GoneStaysGone, Has, Lasting
        <5> QED BY <2>7, <5>1 DEF NotGone, Moves
      <4> QED BY <1>9, <4>1, <4>2, <4>3
    <3> QED BY <1>4, <2>7, <3>1
            DEF Fresh, DeckFresh, VoteFresh, TagFresh, SubFresh, VocabFresh, DeckWriter
  <2>12. StillClears(k, m) BY <1>4, ClearsNothing
  <2> QED BY <1>4, <2>7, <2>10, <2>11, <2>12, PlanKept
<1>10. CASE k.op = "story"
  <2>1. PICK x : x = Put(key, [author |-> k.arg[1], status |-> "draft"]) OBVIOUS
  <2>2. Plan(w, <<{x}>>) BY <1>1, <1>10, <2>1 DEF WriteStory, At, Actor, Subject, Arg
  <2>3. k.arg[1] \in User BY <1>5, <1>10 DEF StoryRequest, StoryWriter
  <2>4. x.val = [author |-> k.arg[1], status |-> "draft"] BY <2>1 DEF Put
  <2>5. x.val \in StoryRows BY <2>3, <2>4 DEF StoryRows, Status
  <2> QED BY <1>9, <1>10, <2>1, <2>2, <2>4, <2>5 DEF StoryWriter
<1>11. CASE k.at = "merge" /\ ~Answer(w)
  <2>1. PICK x : x = MergeStory(key, k.arg[3]) OBVIOUS
  <2>2. Has(key) /\ Plan(w, <<{x}>>)
    BY <1>1, <1>11, <2>1 DEF WriteStory, At, Actor, Subject, Arg
  <2>3. k.arg[3] \in Statuses BY <1>4, <1>5, <1>11 DEF StoryRequest, StoryWriter
  <2>4. x.val = Patched(items[key], k.arg[3]) /\ x = Put(key, x.val) BY <2>1 DEF MergeStory, Put
  <2>5. items[key] \in StoryRows BY <2>2 DEF ContentInv, Rows
  <2>6. x.val \in StoryRows BY <2>3, <2>4, <2>5, PatchedStory
  <2> QED BY <1>4, <1>9, <1>11, <2>2, <2>4, <2>6 DEF StoryWriter
<1>12. CASE k.op = "remove" /\ ~Answer(w)
  <2>1. PICK x : x = Delete(key) OBVIOUS
  <2>2. Plan(w, <<{x}>>) BY <1>1, <1>12, <2>1 DEF WriteStory, At, Actor, Subject, Arg
  <2> QED BY <1>9, <1>12, <2>1, <2>2
<1>13. CASE k.at = "read" /\ k.op \in {"edit", "review"} /\ ~Answer(w)
  <2>1. Goto(w, "merge") BY <1>1, <1>13 DEF WriteStory, At
  <2> QED BY <1>8, <1>13, <2>1
<1> QED BY <1>4, <1>7, <1>10, <1>11, <1>12, <1>13

LEMMA WriteSubscriptionKept ==
    ASSUME ContentInv, NEW w \in Worker, WriteSubscription(w), UNCHANGED History
    PROVE  ContentInv'
<1>1. PICK k : k = call[w] OBVIOUS
<1>3. Request(k) /\ Fresh(k) /\ CallsOK BY <1>1 DEF ContentInv
<1> DEFINE key == SubOf(k)
<1>4. k.op \in {"subscribe", "adjust", "unsubscribe"} /\ k.todo = <<>> /\ k.op # "idle"
      /\ ~DeckWriter(k)
  BY <1>1 DEF WriteSubscription, At, DeckWriter
<1>5. SubRequest(k) BY <1>3, <1>4 DEF Request
<1>6. CASE Answer(w) BY <1>1, <1>4, <1>6, DeckAnswers
<1>7. ASSUME NEW x, Plan(w, <<{x}>>),
             \/ k.op = "subscribe" /\ x = PutNew(key, "enabled")
             \/ k.op = "adjust" /\ x = Put(key, "disabled") /\ Has(key)
             \/ k.op = "unsubscribe" /\ x = Delete(key)
      PROVE  ContentInv'
  <2>4. PICK todo : todo = <<{x}>> OBVIOUS
  <2>5. Sequence(todo) /\ todo # <<>> /\ Planned(todo) = {x} BY <2>4, OneSet
  <2>6. Proceed(w, todo, "done") BY <1>7, <2>4 DEF Plan
  <2>7. PICK m : /\ Moves(w, k, m) /\ shared' = shared /\ requests' = requests
                 /\ m.op = k.op /\ m.on = k.on /\ m.arg = k.arg /\ m.id = k.id
                 /\ m.at = "done" /\ m.todo = todo
    BY <1>1, <1>4, <2>5, <2>6, PlanMoves
  <2>s. SubOf(m) = key BY <2>7 DEF SubOf
  <2>8. SubRequest(m)'
    <3>1. SubOf(m)' = SubOf(m) BY DEF SubOf
    <3> QED BY <1>4, <1>5, <1>7, <2>5, <2>7, <2>s, <3>1 DEF SubRequest
  <2>9. Once(m)' BY <2>4, <2>7 DEF Once
  <2>10. Request(m)'
    BY <1>4, <2>7, <2>8, <2>9
       DEF Request, Ops, DeckRequest, OtherDeckRequest, TagRequest, StoryRequest, VocabRequest,
           DeckWriter, StoryWriter
  <2>11. Fresh(m)'
    <3>1. SubFresh(m)'
      <4> SUFFICES ASSUME k.op = "adjust" PROVE NotGone(key)'
        BY <2>7 DEF SubFresh, SubOf
      <4>1. Has(key) BY <1>7
      <4>2. Lasting(key) BY Kinds DEF SubOf
      <4>3. key \in gone => key \in shared
        BY <4>1, <4>2 DEF ContentInv, GoneStaysGone, Has, Lasting
      <4> QED BY <2>7, <4>3 DEF NotGone, Moves, SubOf
    <3> QED BY <1>4, <2>7, <3>1
            DEF Fresh, DeckFresh, VoteFresh, TagFresh, StoryFresh, VocabFresh, DeckWriter, StoryWriter
  <2>12. StillClears(k, m) BY <1>4, ClearsNothing
  <2> QED BY <1>4, <2>7, <2>10, <2>11, <2>12, PlanKept
<1>8. CASE k.op = "subscribe" /\ ~Answer(w)
  <2>1. PICK x : x = PutNew(key, "enabled") OBVIOUS
  <2>2. Plan(w, <<{x}>>) BY <1>1, <1>8, <2>1 DEF WriteSubscription, At, Arg, SubOf
  <2> QED BY <1>7, <1>8, <2>1, <2>2
<1>9. CASE k.op = "adjust" /\ ~Answer(w)
  <2>1. PICK x : x = Put(key, "disabled") OBVIOUS
  <2>2. Plan(w, UpdateSettings(key)) BY <1>1, <1>9 DEF WriteSubscription, At, Arg, SubOf
  <2>3. Has(key) BY <1>9, <2>2 DEF UpdateSettings, Plan, Answer
  <2>4. Plan(w, <<{x}>>) BY <2>1, <2>2, <2>3 DEF UpdateSettings
  <2> QED BY <1>7, <1>9, <2>1, <2>3, <2>4
<1>10. CASE k.op = "unsubscribe" /\ ~Answer(w)
  <2>1. PICK x : x = Delete(key) OBVIOUS
  <2>2. Plan(w, <<{x}>>) BY <1>1, <1>10, <2>1 DEF WriteSubscription, At, Arg, SubOf
  <2> QED BY <1>7, <1>10, <2>1, <2>2
<1> QED BY <1>4, <1>6, <1>8, <1>9, <1>10

\* The list of vocabularies is the last of what a request knows.
LEMMA ListsVocab ==
    ASSUME ContentInv, NEW w \in Worker, NEW k, k = call[w], k.op = "vocab", k.todo = <<>>,
           k.at # "done", NEW listed, listed \subseteq Id,
           Vocab(AskedVocab(k)) \notin shared => Vocabularies(AskedVocab(k)) \subseteq listed,
           Keep(w, listed, "deck"), UNCHANGED History
    PROVE  ContentInv'
<1> DEFINE u == AskedVocab(k)
<1>1. Request(k) /\ Fresh(k) /\ CallsOK BY DEF ContentInv
<1>2. PICK n : n = call'[w] OBVIOUS
<1>4. /\ Moves(w, k, n) /\ shared' = shared /\ requests' = requests
      /\ n = [op |-> k.op, at |-> "deck", id |-> k.id, on |-> k.on, arg |-> Append(k.arg, listed),
              todo |-> k.todo]
  BY <1>1, <1>2, KeepFacts DEF Moves, History
<1>5. /\ n.op = k.op /\ n.at = "deck" /\ n.id = k.id /\ n.on = k.on /\ n.todo = <<>>
      /\ n.arg = Append(k.arg, listed)
  BY <1>4
<1>6. VocabRequest(k) BY <1>1 DEF Request
<1>7. Sequence(k.arg) /\ k.arg # <<>> BY <1>6 DEF VocabRequest
<1>8. Sequence(n.arg) /\ n.arg # <<>> /\ n.arg[Len(n.arg)] = listed /\ n.arg[1] = k.arg[1]
  <2>1. PICK s : s = k.arg OBVIOUS
  <2>2. Sequence(s) /\ 1 \in DOMAIN s BY <1>7, <2>1, SetsOf
  <2>3. PICK t : t = Append(s, listed) OBVIOUS
  <2>4. Sequence(t) /\ t # <<>> /\ t[Len(t)] = listed /\ t[1] = s[1] BY <2>2, <2>3, AppendLast
  <2> QED BY <1>5, <2>1, <2>3, <2>4
<1>9. AskedVocab(n) = u BY <1>8 DEF AskedVocab
<1>10. VocabRequest(n)'
  <2>1. AskedVocab(n)' = u BY <1>9 DEF AskedVocab
  <2>2. /\ k.arg[1] = Vocab(u) /\ u \in User /\ k.id \in 1..requests /\ Deck(k.id) \in k.on
        /\ Vocab(u) \in k.on
    BY <1>6 DEF VocabRequest
  <2> HIDE DEF u
  <2> QED BY <1>4, <1>5, <1>8, <2>1, <2>2, NoPlan DEF VocabRequest
<1>11. Request(n)'
  BY <1>5, <1>10
     DEF Request, Ops, DeckRequest, OtherDeckRequest, TagRequest, SubRequest, StoryRequest, Once,
         DeckWriter, StoryWriter
<1>12. VocabFresh(n)'
  <2>1. AskedVocab(n)' = u BY <1>9 DEF AskedVocab
  <2>2. Has(Deck(k.id))' => Deck(k.id) \in shared'
    BY <1>1, <1>4 DEF Fresh, VocabFresh, Moves, Has
  <2>3. Vocab(u) \notin shared' => Vocabularies(u)' \subseteq listed
    BY <1>4 DEF Moves, Vocabularies, VocabDecks, Has
  <2> HIDE DEF u
  <2> QED BY <1>5, <1>8, <2>1, <2>2, <2>3, NoPlan DEF VocabFresh
<1>13. Fresh(n)'
  BY <1>5, <1>12 DEF Fresh, DeckFresh, VoteFresh, TagFresh, StoryFresh, SubFresh, DeckWriter,
                     StoryWriter
<1>14. \A d : Authors(n, d) \subseteq Authors(k, d) BY <1>5, <1>9 DEF Authors, DeckWriter
<1>15. \A d : d \notin unclaimed => OneAuthor(d)' BY <1>4, <1>14, SameAuthors
<1>16. StillClears(k, n) BY ClearsNothing
<1> QED BY <1>4, <1>5, <1>11, <1>13, <1>15, <1>16, GoesOn

\* A vocabulary is made, or one that was found is subscribed to.
LEMMA EndsVocab ==
    ASSUME ContentInv, NEW w \in Worker, NEW k, k = call[w], k.op = "vocab", k.at = "deck",
           NEW todo, Sequence(todo), todo # <<>>, Distinct(todo),
           \A x \in Planned(todo) :
              \/ x.key = Deck(k.id) /\ x = Put(Deck(k.id), NewVocab(AskedVocab(k)))
              \/ \E d : /\ x.key = Sub(AskedVocab(k), "deck", d)
                        /\ x = PutNew(Sub(AskedVocab(k), "deck", d), "enabled"),
           (\E x \in Planned(todo) : x.do = "put") => k.arg[Len(k.arg)] = {},
           Plan(w, todo), UNCHANGED History
    PROVE  ContentInv'
<1> DEFINE u == AskedVocab(k)
<1>1. Request(k) /\ Fresh(k) /\ CallsOK /\ k.op # "idle" BY DEF ContentInv
<1>2. Proceed(w, todo, "done") BY DEF Plan
<1>3. PICK n : /\ Moves(w, k, n) /\ shared' = shared /\ requests' = requests
               /\ n.op = k.op /\ n.on = k.on /\ n.arg = k.arg /\ n.id = k.id
               /\ n.at = "done" /\ n.todo = todo
  BY <1>1, <1>2, PlanMoves
<1>4. VocabRequest(k) BY <1>1 DEF Request
<1>5. VocabRequest(n)'
  BY <1>3, <1>4 DEF VocabRequest, AskedVocab
<1>6. Request(n)'
  BY <1>3, <1>5
     DEF Request, Ops, DeckRequest, OtherDeckRequest, TagRequest, SubRequest, StoryRequest, Once,
         DeckWriter, StoryWriter
<1>7. VocabFresh(n)'
  <2>0. AskedVocab(n)' = u BY <1>3 DEF AskedVocab
  <2>1. Has(Deck(k.id))' => Deck(k.id) \in shared'
    BY <1>1, <1>3 DEF Fresh, VocabFresh, Moves, Has
  <2>2. Vocab(u) \notin shared' /\ (\E x \in Planned(todo) : x.do = "put") => Vocabularies(u)' = {}
    <3>1. Vocab(u) \notin shared => Vocabularies(u) \subseteq k.arg[Len(k.arg)]
      BY <1>1 DEF Fresh, VocabFresh
    <3>2. Vocabularies(u)' = Vocabularies(u) BY <1>3 DEF Moves, Vocabularies, VocabDecks, Has
    <3> QED BY <1>3, <3>1, <3>2
  <2> HIDE DEF u
  <2> QED BY <1>3, <2>0, <2>1, <2>2 DEF VocabFresh
<1>8. Fresh(n)'
  BY <1>3, <1>7 DEF Fresh, DeckFresh, VoteFresh, TagFresh, StoryFresh, SubFresh, DeckWriter,
                    StoryWriter
<1>9. StillClears(k, n) BY ClearsNothing
<1>10. ~DeckWriter(k) BY DEF DeckWriter
<1> QED BY <1>3, <1>6, <1>8, <1>9, <1>10, PlanKept

LEMMA MyVocabKept ==
    ASSUME ContentInv, NEW w \in Worker, MyVocab(w), UNCHANGED History
    PROVE  ContentInv'
<1>1. PICK k : k = call[w] OBVIOUS
<1>2. Request(k) /\ Fresh(k) /\ CallsOK BY <1>1 DEF ContentInv
<1>3. k.op = "vocab" /\ k.at \in {"list", "deck"} /\ k.todo = <<>> BY <1>1 DEF MyVocab, At
<1> DEFINE u == AskedVocab(k)
           listed == k.arg[Len(k.arg)]
<1>4. CASE k.at = "list"
  <2>1. Keep(w, VocabDecks(u), "deck")
    BY <1>1, <1>4 DEF MyVocab, At, ListVocab, Arg, AskedVocab
  <2>2. VocabDecks(u) \subseteq Id BY DEF VocabDecks
  <2>3. Vocabularies(u) \subseteq VocabDecks(u) BY DEF Vocabularies
  <2>4. PICK found : found = VocabDecks(u) OBVIOUS
  <2> QED BY <1>1, <1>3, <1>4, <2>1, <2>2, <2>3, <2>4, ListsVocab
<1>5. CASE k.at = "deck"
  <2>1. \/ listed = {} /\ CreateVocab(w, u)
        \/ \E d \in listed :
              IF Has(Deck(d)) THEN Plan(w, <<{PutNew(Sub(u, "deck", d), "enabled")}>>)
                              ELSE Keep(w, listed \ {d}, "deck")
    BY <1>1, <1>5 DEF MyVocab, At, Arg, AskedVocab
  <2>2. CASE listed = {} /\ CreateVocab(w, u)
    <3>1. PICK a, b : a = Put(Deck(k.id), NewVocab(u)) /\ b = PutNew(Sub(u, "deck", k.id), "enabled")
      OBVIOUS
    <3>2. PICK todo : todo = <<{a}, {b}>> OBVIOUS
    <3>3. Sequence(todo) /\ todo # <<>> /\ Planned(todo) = {a, b} BY <3>2, TwoSets
    <3>4. Plan(w, todo) BY <1>1, <2>2, <3>1, <3>2 DEF CreateVocab, NewVocab
    <3>5. a.key = Deck(k.id) /\ b.key = Sub(u, "deck", k.id) /\ a.key # b.key
      BY <3>1, Keys DEF Put, PutNew
    <3>6. Distinct(todo)
      <4>1. DOMAIN todo = {1, 2} /\ todo[1] = {a} /\ todo[2] = {b} BY <3>2
      <4> QED BY <3>5, <4>1 DEF Distinct
    <3> QED BY <1>1, <1>3, <1>5, <2>2, <3>1, <3>3, <3>4, <3>5, <3>6, EndsVocab
  <2>3. CASE \E d \in listed : Has(Deck(d)) /\ Plan(w, <<{PutNew(Sub(u, "deck", d), "enabled")}>>)
    <3>1. PICK d \in listed : Plan(w, <<{PutNew(Sub(u, "deck", d), "enabled")}>>) BY <2>3
    <3>2. PICK b : b = PutNew(Sub(u, "deck", d), "enabled") OBVIOUS
    <3>3. PICK todo : todo = <<{b}>> OBVIOUS
    <3>4. Sequence(todo) /\ todo # <<>> /\ Planned(todo) = {b} BY <3>3, OneSet
    <3>5. Plan(w, todo) BY <3>1, <3>2, <3>3
    <3>6. b.key = Sub(u, "deck", d) /\ b.do # "put" BY <3>2 DEF PutNew
    <3>7. Distinct(todo)
      <4>1. DOMAIN todo = {1} /\ todo[1] = {b} BY <3>3
      <4> QED BY <4>1 DEF Distinct
    <3> QED BY <1>1, <1>3, <1>5, <3>2, <3>4, <3>5, <3>6, <3>7, EndsVocab
  <2>4. CASE \E d \in listed : ~Has(Deck(d)) /\ Keep(w, listed \ {d}, "deck")
    <3>1. PICK d \in listed : ~Has(Deck(d)) /\ Keep(w, listed \ {d}, "deck") BY <2>4
    <3>2. listed \subseteq Id BY <1>2, <1>3, <1>5 DEF Request, VocabRequest
    <3>3. Vocab(u) \notin shared => Vocabularies(u) \subseteq listed
      BY <1>2, <1>3, <1>5 DEF Fresh, VocabFresh
    <3>4. d \notin Vocabularies(u) BY <3>1 DEF Vocabularies, VocabDecks
    <3>5. PICK left : left = listed \ {d} OBVIOUS
    <3>6. left \subseteq Id /\ (Vocab(u) \notin shared => Vocabularies(u) \subseteq left)
      BY <3>2, <3>3, <3>4, <3>5
    <3>7. Keep(w, left, "deck") BY <3>1, <3>5
    <3> QED BY <1>1, <1>3, <1>5, <3>6, <3>7, ListsVocab
  <2> QED BY <2>1, <2>2, <2>3, <2>4
<1> QED BY <1>3, <1>4, <1>5

LEMMA CrashKept ==
    ASSUME ContentInv, NEW w \in Worker, Crash(w), gone' = gone, unclaimed' = unclaimed
    PROVE  ContentInv'
<1>1. PICK k : k = call[w] OBVIOUS
<1>2. Request(k) /\ CallsOK BY <1>1 DEF ContentInv
<1>3. Moves(w, k, Idle) /\ torn' = torn \cup k.on /\ k.op # "idle"
  BY <1>1, <1>2, CrashFacts DEF Moves
<1>4. ASSUME NEW d \in Id, NEW u \in User, ClearsVote(k, d, u) PROVE ~Orderly(Deck(d))'
  <2>1. k.op = "delete" /\ d = k.arg[2] BY <1>4 DEF ClearsVote
  <2>2. Deck(d) \in k.on BY <1>2, <2>1 DEF Request, OtherDeckRequest
  <2> QED BY <1>3, <2>2 DEF Orderly
<1>5. ASSUME NEW d \in Id, NEW g \in Tag, ClearsTag(k, d, g) PROVE ~Orderly(TagRow(g))'
  <2>1. k.op = "dropTag" /\ g = k.arg[1] BY <1>5 DEF ClearsTag
  <2>2. TagRow(g) \in k.on BY <1>2, <2>1 DEF Request, TagRequest
  <2> QED BY <1>3, <2>2 DEF Orderly
<1>6. StillClears(k, Idle) BY <1>4, <1>5 DEF StillClears
<1> QED BY <1>3, <1>6, Ends

-----------------------------------------------------------------------------
(* The inductive invariant.                                                *)

LEMMA ContentInvInit == Init => ContentInv
<1> SUFFICES ASSUME Init PROVE ContentInv
  OBVIOUS
<1> DEFINE deck(author) == [NewDeck(author, FALSE) EXCEPT !.cards = Card]
           story(writer) == [author |-> writer, status |-> "published"]
<1>1. PICK author \in User \cup {Nobody}, writer \in User :
         /\ TableInit([k \in {Deck(0), Story(0)} |->
               IF k = Deck(0) THEN deck(author) ELSE story(writer)])
         /\ unclaimed = IF author = Nobody THEN {0} ELSE {}
  BY DEF Init
<1>2. deck(author) \in DeckRows /\ deck(author).author = author /\ deck(author).vocab = FALSE
  BY DEF NewDeck, DeckRows, Status
<1>3. story(writer) \in StoryRows BY DEF StoryRows, Status
<1> HIDE DEF deck, story
<1>4. Deck(0) # Story(0) BY Keys
<1>5. DOMAIN items = {Deck(0), Story(0)} /\ items[Deck(0)] = deck(author)
      /\ items[Story(0)] = story(writer)
  BY <1>1, <1>4 DEF TableInit
<1>6. /\ requests = 0 /\ shared = {} /\ torn = {} /\ gone = {}
      /\ call = [w \in Worker |-> Idle]
  BY <1>1 DEF TableInit, Init
<1>7. \A w \in Worker : call[w] = Idle BY <1>6
<1>8. CallsOK BY <1>6, <1>7, IdleCall DEF CallsOK
<1>9. \A d : /\ Has(Deck(d)) <=> d = 0
             /\ Has(Story(d)) <=> d = 0
             /\ ~Has(TagRow(d))
  BY <1>5, Keys DEF Has
<1>10. \A d, u : ~Has(DeckVote(d, u)) /\ ~Has(DeckTag(d, u))
  BY <1>5, Keys DEF Has
<1>11. Rows
  <2>1. 0 \in 0..requests BY <1>6
  <2> QED BY <1>2, <1>3, <1>5, <1>6, <1>9, <2>1 DEF Rows
<1>12. Overlaps BY <1>7, IdleCall DEF Overlaps
<1>13. GoneStaysGone BY <1>6 DEF GoneStaysGone
<1>14. Orphans BY <1>10 DEF Orphans
<1>15. Request(Idle) /\ Fresh(Idle)
  <2>1. Idle.op = "idle" BY IdleCall
  <2> QED BY <2>1 DEF Request, Fresh, DeckFresh, VoteFresh, TagFresh, StoryFresh, SubFresh,
                      VocabFresh, DeckWriter, StoryWriter
<1>16. ASSUME NEW d, d \notin unclaimed PROVE OneAuthor(d)
  <2>1. Authors(Idle, d) = {} BY IdleCall DEF Authors, DeckWriter
  <2>2. \A w \in Worker : \A a : Authors(call[w], d) \subseteq {a} BY <1>7, <2>1
  <2>3. CASE d = 0
    <3>1. author \in User BY <1>1, <1>16, <2>3
    <3> QED BY <1>2, <1>5, <2>2, <2>3, <3>1 DEF OneAuthor
  <2>4. CASE d # 0 BY <1>9, <2>2, <2>4 DEF OneAuthor
  <2> QED BY <2>3, <2>4
<1>17. ASSUME NEW u \in User PROVE AtMostOne(Vocabularies(u))
  <2>1. \A d \in Vocabularies(u) : d = 0 BY <1>9 DEF Vocabularies, VocabDecks
  <2> QED BY <2>1 DEF AtMostOne
<1> QED BY <1>6, <1>7, <1>8, <1>11, <1>12, <1>13, <1>14, <1>15, <1>16, <1>17 DEF ContentInv

LEMMA BeginsKept ==
    ASSUME ContentInv, NEW w \in Worker, UNCHANGED History,
           \/ \E u \in User, d \in Existing(Deck) :
                 \/ \E patch \in Patches : UpdateDeck(w, u, d, patch, {})
                 \/ AddCardsToDeck(w, u, d, Card)
                 \/ VoteOnDeck(w, u, d, TRUE) \/ VoteOnDeck(w, u, d, FALSE)
                 \/ AdminUpdateDeckStatus(w, u, d, "published") \/ AdminDeleteDeck(w, u, d)
           \/ \E u \in User : CreateDeck(w, u, {})
           \/ \E u \in User, tags \in SUBSET Tag :
                 \/ CreateDeck(w, u, {tags})
                 \/ \E d \in Existing(Deck) : UpdateDeck(w, u, d, <<>>, {tags})
           \/ \E g \in Tag : CreateTag(w, g) \/ UpdateTag(w, g) \/ DeleteTag(w, g)
    PROVE  ContentInv'
<1>0. \A tags : UNION {tags} = tags OBVIOUS
<1>1. ASSUME NEW u \in User, NEW d \in Existing(Deck), NEW patch, NEW tags,
             GoodPatch(patch), UNION tags \subseteq Tag, UpdateDeck(w, u, d, patch, tags)
      PROVE  ContentInv'
  <2>1. PICK on : on = AboutDeck(d, tags) OBVIOUS
  <2>2. Deck(d) \in on /\ \A g \in UNION tags : TagRow(g) \in on BY <2>1 DEF AboutDeck
  <2>3. Begin(w, "update", on, <<u, d, tags, patch>>, "read") BY <1>1, <2>1 DEF UpdateDeck
  <2> QED BY <1>1, <2>2, <2>3, DeckWriterBegins
<1>2. ASSUME NEW u \in User, NEW d \in Existing(Deck),
             AddCardsToDeck(w, u, d, Card) \/ AdminUpdateDeckStatus(w, u, d, "published")
      PROVE  ContentInv'
  <2>1. PICK on : on = {Deck(d)} OBVIOUS
  <2>2. PICK tags : tags = {} OBVIOUS
  <2>3. Deck(d) \in on /\ UNION tags = {} BY <2>1, <2>2
  <2>4. CASE AddCardsToDeck(w, u, d, Card)
    <3>1. PICK patch : patch = [cards |-> Card] OBVIOUS
    <3>2. Begin(w, "add", on, <<u, d, tags, patch>>, "read")
      BY <2>1, <2>2, <2>4, <3>1 DEF AddCardsToDeck
    <3>3. GoodPatch(patch) /\ patch.cards \subseteq Card BY <3>1, GoodPatches
    <3> QED BY <2>2, <2>3, <3>2, <3>3, DeckWriterBegins
  <2>5. CASE AdminUpdateDeckStatus(w, u, d, "published")
    <3>1. PICK patch : patch = [status |-> "published"] OBVIOUS
    <3>2. Begin(w, "approve", on, <<u, d, tags, patch>>, "read")
      BY <2>1, <2>2, <2>5, <3>1 DEF AdminUpdateDeckStatus
    <3>3. GoodPatch(patch) /\ "cards" \notin DOMAIN patch BY <3>1, GoodPatches
    <3> QED BY <2>2, <2>3, <3>2, <3>3, DeckWriterBegins
  <2> QED BY <1>2, <2>4, <2>5
<1>3. ASSUME NEW u \in User, NEW d \in Existing(Deck), NEW add, VoteOnDeck(w, u, d, add)
      PROVE  ContentInv'
  <2>1. PICK arg : arg = <<u, d, add>> OBVIOUS
  <2>2. arg[1] = u /\ arg[2] = d BY <2>1
  <2>3. Begin(w, "vote", {Deck(d)}, arg, "read") BY <1>3, <2>1 DEF VoteOnDeck
  <2> QED BY <2>2, <2>3, OtherBegins
<1>4. ASSUME NEW u \in User, NEW d \in Existing(Deck), AdminDeleteDeck(w, u, d)
      PROVE  ContentInv'
  <2>1. PICK arg : arg = <<u, d>> OBVIOUS
  <2>2. arg[1] = u /\ arg[2] = d BY <2>1
  <2>3. Begin(w, "delete", {Deck(d)}, arg, "read") BY <1>4, <2>1 DEF AdminDeleteDeck
  <2> QED BY <2>2, <2>3, OtherBegins
<1>5. ASSUME NEW g \in Tag, CreateTag(w, g) \/ UpdateTag(w, g) \/ DeleteTag(w, g)
      PROVE  ContentInv'
  <2>1. User # {} BY DEF ContentInv
  <2> QED BY <1>5, <2>1, TagBegins DEF CreateTag, UpdateTag, DeleteTag
<1>6. CASE \E u \in User : CreateDeck(w, u, {})
  BY <1>6, CreateDeckBegins
<1>7. CASE \E u \in User, tags \in SUBSET Tag :
              \/ CreateDeck(w, u, {tags})
              \/ \E d \in Existing(Deck) : UpdateDeck(w, u, d, <<>>, {tags})
  <2>1. PICK u \in User, tags \in SUBSET Tag :
              \/ CreateDeck(w, u, {tags})
              \/ \E d \in Existing(Deck) : UpdateDeck(w, u, d, <<>>, {tags})
    BY <1>7
  <2>2. UNION {tags} \subseteq Tag BY <1>0
  <2>3. PICK all : all = {tags} OBVIOUS
  <2>4. CASE CreateDeck(w, u, {tags})
    <3>1. CreateDeck(w, u, all) /\ UNION all \subseteq Tag BY <2>2, <2>3, <2>4
    <3> QED BY <3>1, CreateDeckBegins
  <2>5. CASE \E d \in Existing(Deck) : UpdateDeck(w, u, d, <<>>, {tags})
    <3>1. PICK d \in Existing(Deck) : UpdateDeck(w, u, d, <<>>, all) BY <2>3, <2>5
    <3>2. UNION all \subseteq Tag /\ GoodPatch(<<>>) BY <2>2, <2>3, GoodPatches
    <3> QED BY <1>1, <3>1, <3>2
  <2> QED BY <2>1, <2>4, <2>5
<1>8. \A patch \in Patches : GoodPatch(patch) BY GoodPatches
<1>9. CASE \E u \in User, d \in Existing(Deck), patch \in Patches : UpdateDeck(w, u, d, patch, {})
  <2>1. PICK u \in User, d \in Existing(Deck), patch \in Patches : UpdateDeck(w, u, d, patch, {})
    BY <1>9
  <2>2. PICK none : none = {} OBVIOUS
  <2>3. UNION none \subseteq Tag /\ UpdateDeck(w, u, d, patch, none) BY <2>1, <2>2
  <2> QED BY <1>1, <1>8, <2>3
<1> QED BY <1>2, <1>3, <1>4, <1>5, <1>6, <1>7, <1>9

LEMMA DecksNextKept ==
    ASSUME ContentInv, NEW w \in Worker, UNCHANGED History,
           DecksNext(w) \/ ApprovalNext(w) \/ UpsertNext(w) \/ TagsNext(w)
    PROVE  ContentInv'
<1>1. CASE DecksNext(w) BY <1>1, BeginsKept, CountOrDeleteKept DEF DecksNext
<1>2. CASE ApprovalNext(w) BY <1>2, BeginsKept DEF ApprovalNext
<1>3. CASE UpsertNext(w)
  BY <1>3, ReadDeckKept, ResolveTagsKept, SetDeckTagsKept, UpsertDeckKept DEF UpsertNext
<1>4. CASE TagsNext(w) BY <1>4, BeginsKept, WriteTagKept DEF TagsNext
<1> QED BY <1>1, <1>2, <1>3, <1>4

LEMMA OtherNextKept ==
    ASSUME ContentInv, NEW w \in Worker, UNCHANGED History,
           StoriesNext(w) \/ SubscriptionsNext(w) \/ VocabNext(w)
    PROVE  ContentInv'
<1>1. ASSUME NEW u \in User, NEW s \in Existing(Story), NEW patch \in Statuses,
             UpdateStory(w, u, s, patch) \/ AdminUpdateStory(w, u, s, patch)
      PROVE  ContentInv'
  <2>1. PICK arg : arg = <<u, s, patch>> OBVIOUS
  <2>2. arg[1] = u /\ arg[2] = s /\ arg[3] = patch BY <2>1
  <2>3. Begin(w, "edit", {Story(s)}, arg, "read") \/ Begin(w, "review", {Story(s)}, arg, "read")
    BY <1>1, <2>1 DEF UpdateStory, AdminUpdateStory
  <2>4. CASE Begin(w, "edit", {Story(s)}, arg, "read") BY <2>2, <2>4, StoryBegins
  <2>5. CASE Begin(w, "review", {Story(s)}, arg, "read") BY <2>2, <2>5, StoryBegins
  <2> QED BY <2>3, <2>4, <2>5
<1>2. ASSUME NEW u \in User, NEW s \in Existing(Story), AdminDeleteStory(w, u, s)
      PROVE  ContentInv'
  <2>1. PICK arg : arg = <<u, s>> OBVIOUS
  <2>2. arg[1] = u /\ arg[2] = s BY <2>1
  <2>3. Begin(w, "remove", {Story(s)}, arg, "read") BY <1>2, <2>1 DEF AdminDeleteStory
  <2> QED BY <2>2, <2>3, StoryBegins
<1>3. CASE StoriesNext(w)
  BY <1>1, <1>2, <1>3, CreateStoryBegins, WriteStoryKept DEF StoriesNext
<1>4. ASSUME NEW u \in User, NEW kind, NEW i,
             AddSubscription(w, u, kind, i) \/ UpdateSubscription(w, u, kind, i)
                \/ RemoveSubscription(w, u, kind, i)
      PROVE  ContentInv'
  BY <1>4, SubscriptionBegins DEF AddSubscription, UpdateSubscription, RemoveSubscription
<1>5. CASE SubscriptionsNext(w)
  BY <1>4, <1>5, WriteSubscriptionKept DEF SubscriptionsNext
<1>6. CASE VocabNext(w)
  <2>1. CASE \E u \in User : GetMyVocabDeck(w, u) \/ CreateDeck(w, u, {})
    <3>1. PICK u \in User : GetMyVocabDeck(w, u) \/ CreateDeck(w, u, {}) BY <2>1
    <3>2. CASE GetMyVocabDeck(w, u) BY <3>2, VocabBegins
    <3>3. CASE CreateDeck(w, u, {}) BY <3>3, BeginsKept
    <3> QED BY <3>1, <3>2, <3>3
  <2>2. CASE \E u \in User, d \in Existing(Deck) : AdminDeleteDeck(w, u, d) BY <2>2, BeginsKept
  <2>3. CASE MyVocab(w) BY <2>3, MyVocabKept
  <2> QED BY <1>6, <2>1, <2>2, <2>3 DEF VocabNext
<1> QED BY <1>3, <1>5, <1>6

LEMMA ContentInvStep == ContentInv /\ [Next]_vars => ContentInv'
<1> SUFFICES ASSUME ContentInv, [Next]_vars PROVE ContentInv'
  OBVIOUS
<1>1. ASSUME NEW w \in Worker, ContentNext(w) PROVE ContentInv'
  BY <1>1, DecksNextKept, OtherNextKept DEF ContentNext
<1>2. ASSUME NEW w \in Worker, Work(w) PROVE ContentInv'
  <2>1. unclaimed' = unclaimed BY <1>2 DEF Work
  <2>2. CASE Crash(w) /\ UNCHANGED gone BY <2>1, <2>2, CrashKept
  <2>3. CASE /\ Write(w)
             /\ gone' = (gone \cup (DOMAIN items \ DOMAIN items'))
                           \ (IF Makes(w) THEN DOMAIN items' ELSE {})
    <3>1. CallsOK' /\ \E k, n, x : Writes(w, k, n, x) BY <2>1, <2>3, WritesFrom
    <3> QED BY <3>1, WriteKept
  <2> QED BY <1>2, <2>2, <2>3 DEF Work
<1>3. CASE UNCHANGED vars
  <2>1. /\ items' = items /\ call' = call /\ requests' = requests /\ shared' = shared
        /\ torn' = torn /\ gone' = gone /\ unclaimed' = unclaimed
    BY <1>3 DEF vars, tableVars
  <2>2. CallsOK' BY <2>1 DEF ContentInv, CallsOK
  <2>3. CASE Worker = {}
    BY <2>1, <2>2, <2>3 DEF ContentInv, Overlaps, Rows, GoneStaysGone, Orphans, OneAuthor,
                            Vocabularies, VocabDecks, AtMostOne, Has, Orderly
  <2>4. ASSUME NEW w \in Worker PROVE ContentInv'
    <3>1. PICK k : k = call[w] OBVIOUS
    <3>2. Moves(w, k, k) /\ Request(k) /\ Fresh(k) BY <2>1, <2>2, <3>1 DEF Moves, ContentInv
    <3>3. Request(k)' /\ Fresh(k)' BY <2>1, <3>2, FreshStays, RequestStays DEF ContentInv
    <3>4. StillClears(k, k) BY DEF StillClears
    <3>5. \A d : d \notin unclaimed => OneAuthor(d)' BY <3>2, SameAuthors
    <3> QED BY <3>2, <3>3, <3>4, <3>5, GoesOn
  <2> QED BY <2>3, <2>4
<1> QED BY <1>1, <1>2, <1>3 DEF Next

LEMMA ContentInvHolds == Spec => []ContentInv
BY ContentInvInit, ContentInvStep, PTL DEF Spec

-----------------------------------------------------------------------------
(* What it implies.                                                        *)


LEMMA ContentTypeOK == ContentInv => TypeOK
<1> SUFFICES ASSUME ContentInv PROVE TypeOK
  OBVIOUS
<1>1. Rows BY DEF ContentInv
<1> QED BY <1>1 DEF Rows, TypeOK, DeckRows, StoryRows, Status

LEMMA ContentNoOrphans == ContentInv => NoOrphans
<1> SUFFICES ASSUME ContentInv PROVE NoOrphans
  OBVIOUS
<1>1. ASSUME NEW d \in Id, AtRest(Deck(d)), Orderly(Deck(d)), VotesOf(d) # {}, ~Has(Deck(d))
      PROVE  FALSE
  <2>1. PICK u \in User : Has(DeckVote(d, u)) BY <1>1 DEF VotesOf
  <2>2. PICK w \in Worker : ClearsVote(call[w], d, u) BY <1>1, <2>1 DEF ContentInv, Orphans
  <2>3. PICK k : k = call[w] OBVIOUS
  <2>4. k.op = "delete" /\ k.arg[2] = d /\ Request(k)
    BY <2>2, <2>3 DEF ClearsVote, ContentInv
  <2>5. Deck(d) \in k.on BY <2>4 DEF Request, OtherDeckRequest
  <2> QED BY <1>1, <2>3, <2>5 DEF AtRest
<1>2. ASSUME NEW d \in Id, NEW g \in Tag, AtRest(TagRow(g)), Orderly(TagRow(g)),
             Has(DeckTag(d, g)), ~Has(TagRow(g))
      PROVE  FALSE
  <2>1. PICK w \in Worker : ClearsTag(call[w], d, g) BY <1>2 DEF ContentInv, Orphans
  <2>2. PICK k : k = call[w] OBVIOUS
  <2>3. k.op = "dropTag" /\ k.arg[1] = g /\ Request(k)
    BY <2>1, <2>2 DEF ClearsTag, ContentInv
  <2>4. TagRow(g) \in k.on BY <2>3 DEF Request, TagRequest
  <2> QED BY <1>2, <2>2, <2>4 DEF AtRest
<1> QED BY <1>1, <1>2 DEF NoOrphans

LEMMA AtMostOneOf ==
    ASSUME NEW S, AtMostOne(S)
    PROVE  Cardinality(S) <= 1
<1>1. CASE S = {} BY <1>1, FS_EmptySet
<1>2. CASE S # {}
  <2>1. PICK x : x \in S BY <1>2
  <2>2. S = {x} BY <2>1 DEF AtMostOne
  <2>3. Cardinality({x}) = 1 BY FS_Singleton
  <2>4. Cardinality(S) = 1 BY <2>2, <2>3
  <2> QED BY <2>4
<1> QED BY <1>1, <1>2

LEMMA ContentOneVocabulary == ContentInv => OneVocabulary
<1> SUFFICES ASSUME ContentInv, NEW u \in User, Vocab(u) \notin shared
             PROVE  Cardinality({d \in VocabDecks(u) : Deck(d) \notin shared}) <= 1
  BY DEF OneVocabulary
<1>1. AtMostOne(Vocabularies(u)) BY DEF ContentInv
<1>2. Cardinality(Vocabularies(u)) <= 1 BY <1>1, AtMostOneOf
<1> QED BY <1>2 DEF Vocabularies

\* Items are whole, and a tag's row has lost its name only to requests that overlapped.
THEOREM ContentTypes == Spec => []TypeOK
BY ContentInvHolds, ContentTypeOK, PTL

\* A put that was prepared before a deletion does not bring the deleted item back,
\* unless the two overlapped.
THEOREM GoneStaysGoneHolds == Spec => []GoneStaysGone
<1>1. ContentInv => GoneStaysGone BY DEF ContentInv
<1> QED BY <1>1, ContentInvHolds, PTL

\* A deletion that was finished, and that nothing overlapped, leaves no vote of a deck
\* that is gone and no tag of a deck that is no tag.
THEOREM NoOrphansHolds == Spec => []NoOrphans
BY ContentInvHolds, ContentNoOrphans, PTL

\* Asking for the vocabulary makes one when there is none, and finds it otherwise.
THEOREM OneVocabularyHolds == Spec => []OneVocabulary
BY ContentInvHolds, ContentOneVocabulary, PTL

-----------------------------------------------------------------------------
(* What an update leaves alone.                                            *)

LEMMA OnlyWritesWrite ==
    ASSUME NEW w \in Worker, ContentNext(w)
    PROVE  items' = items
<1>b. \A op, on, arg, at : Begin(w, op, on, arg, at) => items' = items BY DEF Begin
<1>p. \A todo, at : Proceed(w, todo, at) => items' = items BY DEF Proceed
<1>g. /\ \A at : Goto(w, at) => items' = items
      /\ \A todo : Plan(w, todo) => items' = items
      /\ Answer(w) => items' = items
  BY <1>p DEF Goto, Plan, Answer
<1>k. \A x, at : Keep(w, x, at) => items' = items BY DEF Keep
<1>1. CASE DecksNext(w)
  <2>1. CASE CountOrDelete(w) BY <1>p, <1>g, <2>1 DEF CountOrDelete
  <2> QED BY <1>1, <1>b, <2>1 DEF DecksNext, UpdateDeck, AddCardsToDeck, VoteOnDeck, CreateDeck
<1>2. CASE ApprovalNext(w)
  BY <1>2, <1>b DEF ApprovalNext, AdminUpdateDeckStatus, AdminDeleteDeck
<1>3. CASE UpsertNext(w)
  <2>1. CASE ReadDeck(w) BY <1>k, <1>g, <2>1 DEF ReadDeck
  <2>2. CASE ResolveTags(w) BY <1>g, <2>2 DEF ResolveTags
  <2>3. CASE SetDeckTags(w) BY <1>p, <1>g, <2>3 DEF SetDeckTags
  <2>4. CASE UpsertDeck(w) BY <1>g, <2>4 DEF UpsertDeck
  <2> QED BY <1>3, <2>1, <2>2, <2>3, <2>4 DEF UpsertNext
<1>4. CASE TagsNext(w)
  <2>1. CASE WriteTag(w) BY <1>p, <1>g, <2>1 DEF WriteTag
  <2> QED BY <1>4, <1>b, <2>1 DEF TagsNext, CreateDeck, UpdateDeck, CreateTag, UpdateTag, DeleteTag
<1>5. CASE StoriesNext(w)
  <2>1. CASE WriteStory(w) BY <1>g, <2>1 DEF WriteStory
  <2> QED BY <1>5, <1>b, <2>1 DEF StoriesNext, CreateStory, UpdateStory, AdminUpdateStory,
                                  AdminDeleteStory
<1>6. CASE SubscriptionsNext(w)
  <2>1. CASE WriteSubscription(w) BY <1>g, <2>1 DEF WriteSubscription
  <2> QED BY <1>6, <1>b, <2>1 DEF SubscriptionsNext, AddSubscription, UpdateSubscription,
                                  RemoveSubscription
<1>7. CASE VocabNext(w)
  <2>1. CASE MyVocab(w) BY <1>k, <1>g, <2>1 DEF MyVocab, CreateVocab
  <2> QED BY <1>7, <1>b, <2>1 DEF VocabNext, GetMyVocabDeck, CreateDeck, AdminDeleteDeck
<1> QED BY <1>1, <1>2, <1>3, <1>4, <1>5, <1>6, <1>7 DEF ContentNext

LEMMA WriteKeepsTheRest ==
    ASSUME ContentInv, NEW w \in Worker, NEW k, NEW n, NEW x, Writes(w, k, n, x),
           NEW d \in Id, Has(Deck(d)), Has(Deck(d))'
    PROVE  AuthorStays(d) /\ CardsStay(d)
<1>0. Request(k) /\ Fresh(k) /\ k = call[w] /\ x \in Planned(k.todo) BY DEF Writes, ContentInv
<1>1. CASE items'[Deck(d)] = items[Deck(d)] BY <1>1 DEF AuthorStays, CardsStay
<1>2. ASSUME d \notin unclaimed, NEW a, a \in Authors(k, d) PROVE items[Deck(d)].author = a /\ a \in User
  BY <1>0, <1>2 DEF ContentInv, OneAuthor
<1>3. CASE DeckPut(k, x) /\ d = k.arg[2] /\ items'[Deck(d)] = x.val
  <2>1. DeckWriter(k) /\ k.at = "done" BY <1>3 DEF DeckPut
  <2>2. Deck(d) \notin shared => k.op # "create" /\ Keeps(k, x.val, items[Deck(d)])
    BY <1>0, <1>3, <2>1 DEF Fresh, DeckFresh
  <2>3. d \notin unclaimed => items'[Deck(d)].author = items[Deck(d)].author
    <3>1. k.arg[5].author \in Authors(k, d) BY <1>3, <2>1 DEF Authors
    <3>2. k.arg[5].author # Nobody => x.val.author = k.arg[5].author BY <1>3 DEF DeckPut
    <3> QED BY <1>2, <1>3, <3>1, <3>2, SomeoneKnown
  <2>4. AuthorStays(d) BY <1>3, <2>2, <2>3 DEF AuthorStays, Keeps
  <2>5. CardsStay(d)
    <3> SUFFICES ASSUME Deck(d) \notin shared, ~(items[Deck(d)].cards \subseteq items'[Deck(d)].cards)
                 PROVE  \E v \in Worker : call[v].op = "update" /\ Subject(v) = d
                                          /\ "cards" \in DOMAIN Patch(v)
      BY DEF CardsStay
    <3>1. k.op = "update" /\ "cards" \in DOMAIN k.arg[4] BY <1>3, <2>2 DEF Keeps
    <3> QED BY <1>0, <1>3, <3>1 DEF Subject, Patch, Arg
  <2> QED BY <2>4, <2>5
<1>4. CASE VocabPut(k, x) /\ d = k.id /\ items'[Deck(d)] = x.val
  <2>1. k.op = "vocab" /\ x.do = "put" BY <1>4 DEF VocabPut
  <2>2. Deck(d) \in shared BY <1>0, <1>4, <2>1 DEF Fresh, VocabFresh
  <2>3. AskedVocab(k) \in Authors(k, d) BY <1>4, <2>1 DEF Authors
  <2>4. x.val.author = AskedVocab(k) BY <1>4 DEF VocabPut, NewVocab, NewDeck
  <2>5. d \notin unclaimed => items'[Deck(d)].author = items[Deck(d)].author
    BY <1>2, <1>4, <2>3, <2>4
  <2> QED BY <2>2, <2>5 DEF AuthorStays, CardsStay
<1> QED BY <1>1, <1>3, <1>4, DeckAfter

\* The author of a deck, and the cards no request asked to change, survive every put of
\* a whole deck, unless two requests were served at once.
THEOREM UpdatesKeepTheRestHolds == Spec => UpdatesKeepTheRest
<1>1. ContentInv /\ [Next]_vars =>
          [\A d \in Id : Has(Deck(d)) /\ Has(Deck(d))' => AuthorStays(d) /\ CardsStay(d)]_vars
  <2> SUFFICES ASSUME ContentInv, Next, NEW d \in Id, Has(Deck(d)), Has(Deck(d))'
               PROVE  AuthorStays(d) /\ CardsStay(d)
    OBVIOUS
  <2>1. CASE items' = items BY <2>1 DEF AuthorStays, CardsStay
  <2>2. CASE \E w \in Worker : ContentNext(w) BY <2>1, <2>2, OnlyWritesWrite
  <2>3. ASSUME NEW w \in Worker, Work(w) PROVE AuthorStays(d) /\ CardsStay(d)
    <3>1. CASE Crash(w) BY <2>1, <3>1 DEF Crash
    <3>2. CASE /\ Write(w)
               /\ gone' = (gone \cup (DOMAIN items \ DOMAIN items'))
                             \ (IF Makes(w) THEN DOMAIN items' ELSE {})
      <4>1. unclaimed' = unclaimed BY <2>3 DEF Work
      <4>2. PICK k, n, x : Writes(w, k, n, x) BY <3>2, <4>1, WritesFrom
      <4> QED BY <4>2, WriteKeepsTheRest
    <3> QED BY <2>3, <3>1, <3>2 DEF Work
  <2> QED BY <2>2, <2>3 DEF Next
<1> QED BY <1>1, ContentInvHolds, PTL DEF Spec, UpdatesKeepTheRest

-----------------------------------------------------------------------------
(* The rows of the lessons: the invariant, HistoryInv, compares each of    *)
(* them with the row that one statement per attempt would have made, and   *)
(* says what the seeded completions that are served know to have landed.   *)

Attempt(a) == a.score \in {1, Perfect} /\ a.time # Never /\ a.passed \in BOOLEAN

\* A row as both stores have it.
WholeRow(row) ==
    /\ row = [a \in DOMAIN row |-> row[a]]
    /\ {"best", "latest", "count"} \subseteq DOMAIN row
    /\ DOMAIN row \subseteq {"best", "latest", "count", "first"}
    /\ row.best \in Nat /\ row.count \in Nat
    /\ "first" \in DOMAIN row => row.first # Never

AsSql(row) ==
    [best |-> row.best, first |-> IF "first" \in DOMAIN row THEN row.first ELSE Never,
     latest |-> row.latest, count |-> row.count]

RowAgrees(l) ==
    /\ Has(LessonRow(l)) <=> l \in DOMAIN sqlRows
    /\ Has(LessonRow(l)) => /\ WholeRow(items[LessonRow(l)])
                            /\ sqlRows[l] = AsSql(items[LessonRow(l)])

Passed(l) == HasAttribute(l, "first")

LEMMA ShownRow ==
    ASSUME NEW row, WholeRow(row)
    PROVE  Updated([first |-> Never], [set |-> row, add |-> <<>>]) = AsSql(row)
<1> DEFINE old == [first |-> Never]
           u == [a \in DOMAIN old \cup DOMAIN row |-> IF a \in DOMAIN row THEN row[a] ELSE old[a]]
<1>1. DOMAIN <<>> = {} OBVIOUS
<1>2. Updated(old, [set |-> row, add |-> <<>>]) = u BY <1>1 DEF Updated
<1>3. DOMAIN old \cup DOMAIN row = {"best", "first", "latest", "count"} BY DEF WholeRow
<1>4. u = [best |-> u["best"], first |-> u["first"], latest |-> u["latest"], count |-> u["count"]]
  BY <1>3
<1>5. u["best"] = row.best /\ u["latest"] = row.latest /\ u["count"] = row.count
      /\ u["first"] = IF "first" \in DOMAIN row THEN row.first ELSE Never
  BY <1>3 DEF WholeRow
<1> QED BY <1>2, <1>4, <1>5 DEF AsSql

-----------------------------------------------------------------------------
(* One call of update_lesson_rollup.                                       *)

\* The attributes a call sets.
Sets(l, a, x) ==
    Updated(First(l, a),
            [set |-> IF x = "count" THEN [latest |-> a.time] ELSE [latest |-> a.time, best |-> a.score],
             add |-> <<>>])

LEMMA SetsAttributes ==
    ASSUME NEW l, NEW a, Attempt(a), NEW x
    PROVE  /\ DOMAIN Sets(l, a, x) = {"latest"} \cup (IF x = "count" THEN {} ELSE {"best"})
                 \cup (IF a.passed /\ ~Passed(l) THEN {"first"} ELSE {})
           /\ Sets(l, a, x).latest = a.time
           /\ x # "count" => Sets(l, a, x).best = a.score
           /\ a.passed /\ ~Passed(l) => Sets(l, a, x).first = a.time
<1> DEFINE set == IF x = "count" THEN [latest |-> a.time] ELSE [latest |-> a.time, best |-> a.score]
           first == First(l, a)
<1>1. DOMAIN first = IF a.passed /\ ~Passed(l) THEN {"first"} ELSE {}
  BY NoAttributes DEF First, Passed
<1>2. a.passed /\ ~Passed(l) => first.first = a.time BY DEF First, Passed
<1>3. DOMAIN set = {"latest"} \cup (IF x = "count" THEN {} ELSE {"best"})
      /\ set.latest = a.time /\ (x # "count" => set.best = a.score)
  OBVIOUS
<1>6. Sets(l, a, x) = Updated(first, [set |-> set, add |-> <<>>]) BY DEF Sets
<1> HIDE DEF set, first
<1>4. Overlaid(Sets(l, a, x), first, set) BY <1>6, OverlaidAt
<1> QED BY <1>1, <1>2, <1>3, <1>4 DEF Overlaid

\* The row a call makes of the one there was, in SQL and attribute by attribute.
LEMMA RolledRow ==
    ASSUME NEW l \in Lesson, NEW a, Attempt(a), RowAgrees(l),
           NEW next, NEW phase, Roll(l, a, phase, next), next = "landed",
           phase = "count" => HasAttribute(l, "best") /\ items[LessonRow(l)].best >= a.score
    PROVE  /\ RowAgrees(l)'
           /\ Has(LessonRow(l))' /\ items'[LessonRow(l)].best >= a.score
           /\ Has(LessonRow(l)) => items'[LessonRow(l)].best >= items[LessonRow(l)].best
           /\ Passed(l)' <=> Passed(l) \/ a.passed
           /\ Passed(l) => items'[LessonRow(l)].first = items[LessonRow(l)].first
           /\ DOMAIN items' = DOMAIN items \cup {LessonRow(l)}
           /\ \A key \in DOMAIN items \ {LessonRow(l)} : items'[key] = items[key]
           /\ DOMAIN sqlRows' = DOMAIN sqlRows \cup {l}
           /\ \A k \in DOMAIN sqlRows \ {l} : sqlRows'[k] = sqlRows[k]
<1> DEFINE key == LessonRow(l)
           had == Has(key)
           new == items'[key]
<1>1. PICK x : /\ phase \in {"raise", "count"} /\ items' = After(x) /\ Upsert(l, a)
               /\ x = Update(key, Sets(l, a, phase), [count |-> 1])
               /\ phase = "raise" => Beats(l, a)
  BY DEF Roll, Raising, Counting, Sets
<1> DEFINE attrs == x.val.set
           sums == x.val.add
<1>2. /\ x.do = "update" /\ x.key = key /\ attrs = Sets(l, a, phase) /\ sums = [count |-> 1]
      /\ DOMAIN attrs = {"latest"} \cup (IF phase = "count" THEN {} ELSE {"best"})
                            \cup (IF a.passed /\ ~Passed(l) THEN {"first"} ELSE {})
      /\ attrs.latest = a.time
      /\ phase # "count" => attrs.best = a.score
      /\ a.passed /\ ~Passed(l) => attrs.first = a.time
  BY ZenonT(60), <1>1, SetsAttributes DEF Update
<1>3. DOMAIN sums = {"count"} /\ sums.count = 1 BY <1>2
<1>4. PICK old : /\ had => old = items[key]
                 /\ ~had => old = <<>>
                 /\ DOMAIN items' = DOMAIN items \cup {key}
                 /\ \A k \in DOMAIN items \ {key} : items'[k] = items[k]
                 /\ new = Updated(old, x.val)
  <2>1. UpdatesItem(x) BY <1>1, <1>2, UpdateFacts
  <2> HIDE DEF key
  <2> QED BY <1>2, <2>1 DEF UpdatesItem, Has
<1>5. had => WholeRow(old) /\ sqlRows[l] = AsSql(old) BY <1>4 DEF RowAgrees
<1>6. DOMAIN attrs \cap DOMAIN sums = {} BY <1>2, <1>3
<1>7. /\ new = [b \in DOMAIN new |-> new[b]]
      /\ DOMAIN new = DOMAIN old \cup DOMAIN attrs \cup DOMAIN sums
      /\ \A b \in DOMAIN attrs : new[b] = attrs[b]
      /\ ~had => new.count = 1
      /\ had => new.count = old.count + 1
      /\ \A b \in DOMAIN old \ (DOMAIN attrs \cup DOMAIN sums) : new[b] = old[b]
  <2>1. SetsApart(x.val) BY <1>6 DEF SetsApart
  <2>2. ChangedTo(new, old, x.val) BY <1>4, <2>1, UpdatedAt
  <2>3. had => "count" \in DOMAIN old /\ old["count"] \in Int BY <1>5 DEF WholeRow
  <2>4. ~had => "count" \notin DOMAIN old BY <1>4, NoAttributes
  <2> HIDE DEF new
  <2> QED BY <1>3, <2>2, <2>3, <2>4 DEF ChangedTo
<1> HIDE DEF attrs, sums
<1>8. ~had => DOMAIN old = {} BY <1>4, NoAttributes
<1>9. Passed(l) <=> "first" \in DOMAIN old BY <1>4, <1>8 DEF Passed, HasAttribute
<1>10. /\ new.latest = a.time
       /\ new.count = IF had THEN old.count + 1 ELSE 1
       /\ {"latest", "count"} \subseteq DOMAIN new
  BY <1>2, <1>3, <1>5, <1>7, <1>8 DEF WholeRow
<1>11. /\ "best" \in DOMAIN new
       /\ new.best = IF had /\ old.best >= a.score THEN old.best ELSE a.score
  <2>1. phase = "raise" /\ had => old.best < a.score
    BY <1>1, <1>4, <1>5 DEF Beats, HasAttribute, WholeRow
  <2>2. phase = "count" => had /\ "best" \in DOMAIN old /\ old.best >= a.score
    BY <1>1, <1>4 DEF HasAttribute
  <2>3. a.score \in Nat /\ (had => old.best \in Nat) BY <1>5 DEF WholeRow, Attempt, Perfect
  <2> QED BY <1>1, <1>2, <1>3, <1>5, <1>7, <1>8, <2>1, <2>2, <2>3
<1>12. /\ "first" \in DOMAIN new <=> Passed(l) \/ a.passed
       /\ Passed(l) => new.first = old.first
       /\ ~Passed(l) /\ a.passed => new.first = a.time
  BY <1>2, <1>3, <1>5, <1>7, <1>8, <1>9 DEF WholeRow
<1>13. WholeRow(new)
  <2>1. new.best \in Nat /\ new.count \in Nat
    BY <1>5, <1>10, <1>11 DEF WholeRow, Attempt, Perfect
  <2>2. "first" \in DOMAIN new => new.first # Never
    BY <1>5, <1>9, <1>12, <1>8 DEF WholeRow, Attempt
  <2>3. DOMAIN new \subseteq {"best", "latest", "count", "first"}
    BY <1>2, <1>3, <1>5, <1>7, <1>8 DEF WholeRow
  <2> QED BY <1>7, <1>10, <1>11, <2>1, <2>2, <2>3 DEF WholeRow
<1>14. DOMAIN sqlRows' = DOMAIN sqlRows \cup {l} /\ sqlRows'[l] = Upserted(l, a)
       /\ \A k \in DOMAIN sqlRows \ {l} : sqlRows'[k] = sqlRows[k]
  BY <1>1 DEF Upsert
<1>15. Upserted(l, a) = AsSql(new)
  <2>1. CASE ~had
    <3>1. Upserted(l, a) = [best |-> a.score, first |-> IF a.passed THEN a.time ELSE Never,
                            latest |-> a.time, count |-> 1]
      BY <2>1 DEF Upserted, RowAgrees
    <3>2. ~Passed(l) BY <1>8, <1>9, <2>1
    <3> QED BY <1>10, <1>11, <1>12, <2>1, <3>1, <3>2 DEF AsSql
  <2>2. CASE had
    <3> DEFINE row == sqlRows[l]
               first == IF a.passed THEN a.time ELSE Never
    <3>1. Upserted(l, a) =
             [best |-> IF row.best > a.score THEN row.best ELSE a.score,
              first |-> IF row.first # Never THEN row.first ELSE first,
              latest |-> a.time, count |-> row.count + 1]
      BY <2>2 DEF Upserted, RowAgrees
    <3>2. /\ row.best = old.best /\ row.count = old.count
          /\ row.first = IF "first" \in DOMAIN old THEN old.first ELSE Never
      BY <1>5, <2>2 DEF AsSql
    <3>3. (IF row.best > a.score THEN row.best ELSE a.score) = new.best
      BY <1>5, <1>11, <2>2, <3>2 DEF WholeRow, Attempt, Perfect
    <3>4. (IF row.first # Never THEN row.first ELSE first)
             = IF "first" \in DOMAIN new THEN new.first ELSE Never
      BY <1>5, <1>9, <1>12, <2>2, <3>2 DEF WholeRow
    <3> HIDE DEF row, first
    <3> QED BY <1>10, <2>2, <3>1, <3>2, <3>3, <3>4 DEF AsSql
  <2> QED BY <2>1, <2>2
<1>16. Has(key)' BY <1>4 DEF Has
<1>17. RowAgrees(l)' BY <1>13, <1>14, <1>15, <1>16 DEF RowAgrees
<1>18. Passed(l)' <=> "first" \in DOMAIN new BY <1>16 DEF Passed, HasAttribute
<1>19. had => old = items[key] BY <1>4
<1>20. Passed(l) => new.first = items[key].first BY <1>12, <1>19 DEF Passed, HasAttribute
<1>21. new.best >= a.score /\ (had => new.best >= items[key].best)
  BY <1>5, <1>11, <1>19 DEF WholeRow, Attempt, Perfect
<1> QED BY <1>4, <1>12, <1>14, <1>16, <1>17, <1>18, <1>20, <1>21

-----------------------------------------------------------------------------
(* What the requests hold, as long as no reset was served with another.    *)

LessonRequest(k) ==
    /\ k.op \in {"attempt", "bulk", "reset"}
    /\ k.op = "attempt" => k.arg = <<k.arg[1], k.arg[2]>> /\ k.todo = <<>>
    /\ k.op = "bulk" => /\ k.arg = <<k.arg[1], k.arg[2], k.arg[3]>>
                        /\ k.arg[3] \in Operation /\ k.arg[1] = Seeded(k.arg[3])
                        /\ DOMAIN k.arg[2] = Lesson
    /\ k.op # "reset" => /\ Attempt(k.arg[1])
                         /\ k.arg[2] = [l \in DOMAIN k.arg[2] |-> k.arg[2][l]]
                         /\ DOMAIN k.arg[2] \subseteq Lesson
    /\ k.op = "reset" => Reset \in k.on

\* A call that counts has lost to a score that is still there; and the lessons of a
\* seeded completion that have landed are passed.
Underway(k) ==
    k.op # "reset" =>
        \A l \in DOMAIN k.arg[2] :
            /\ k.arg[2][l] = "count" =>
                  HasAttribute(l, "best") /\ items[LessonRow(l)].best >= k.arg[1].score
            /\ k.op = "bulk" /\ k.arg[2][l] = "landed" => Passed(l)

\* The answer of an operation is kept when it is all there.
Answers(k) ==
    k.op = "bulk" /\ k.todo # <<>> =>
        /\ k.todo = <<{Put(Op(k.arg[3]), Accepted(k.arg[3]))}>>
        /\ k.at = "done"
        /\ \A l \in Lesson : Passed(l)

\* A reset deletes all there is.
Deletes(k) ==
    k.op = "reset" =>
        /\ \A x \in Planned(k.todo) : x.do = "delete"
        /\ IF k.at = "query" THEN k.todo = <<>>
           ELSE k.at = "done" /\ DOMAIN items \subseteq {x.key : x \in Planned(k.todo)}

Sound(k) == LessonRequest(k) /\ Underway(k) /\ Answers(k) /\ Deletes(k)

Resetting == \E w \in Worker : call[w].op = "reset"

ResetAlone == \A v, w \in Worker : call[w].op = "reset" /\ Busy(v) => v = w

AnswersKept ==
    Reset \notin torn /\ ~Resetting =>
        \A o \in Operation : Has(Op(o)) =>
            (\A l \in Lesson : Passed(l)) /\ items[Op(o)] = Accepted(o)

InOrder ==
    /\ ResetAlone
    /\ \A l \in Lesson : RowAgrees(l)
    /\ \A w \in Worker : Busy(w) => Sound(call[w])
    /\ AnswersKept

HistoryInv == mixed \/ (CallsOK /\ IsFiniteSet(Running) /\ InOrder)

LEMMA HistoryInvInit == HistoryInit => HistoryInv
<1> SUFFICES ASSUME HistoryInit PROVE HistoryInv OBVIOUS
<1>1. items = <<>> /\ sqlRows = <<>> /\ call = [w \in Worker |-> Idle]
  BY DEF HistoryInit, TableInit
<1>2. \A w \in Worker : call[w] = Idle /\ ~Busy(w) BY <1>1, IdleCall DEF Busy
<1>3. CallsOK BY <1>1, IdleCall DEF CallsOK
<1>4. Running = {} BY <1>2 DEF Running
<1>5. IsFiniteSet(Running) BY <1>4, FS_EmptySet
<1>6. DOMAIN items = {} /\ DOMAIN sqlRows = {} BY <1>1
<1>7. \A l \in Lesson : RowAgrees(l) BY <1>6 DEF RowAgrees, Has
<1>8. AnswersKept BY <1>6 DEF AnswersKept, Has
<1>9. ResetAlone BY <1>2 DEF ResetAlone
<1> QED BY <1>2, <1>3, <1>5, <1>7, <1>8, <1>9 DEF HistoryInv, InOrder

-----------------------------------------------------------------------------
(* Steps of one worker.                                                    *)

OneMoves(w) ==
    /\ Busy(w) \/ Busy(w)'
    /\ \A v \in Worker \ {w} : call'[v] = call[v]

\* Nothing that was passed or scored is lost.
Growing ==
    \A l \in Lesson :
        /\ Passed(l) => Passed(l)' /\ items'[LessonRow(l)].first = items[LessonRow(l)].first
        /\ HasAttribute(l, "best") /\ RowAgrees(l) =>
              /\ HasAttribute(l, "best")' /\ items'[LessonRow(l)].best \in Nat
              /\ items'[LessonRow(l)].best >= items[LessonRow(l)].best

LEMMA AcceptedStays ==
    ASSUME Growing, \A l \in Lesson : Passed(l), NEW o
    PROVE  (\A l \in Lesson : Passed(l)') /\ Accepted(o)' = Accepted(o)
<1> DEFINE S == {l \in Lesson : HasAttribute(l, "first")
                                /\ items[LessonRow(l)].first = Seeded(o).time}
<1>1. S' = S BY DEF Growing, Passed
<1> HIDE DEF S
<1>2. Cardinality(S)' = Cardinality(S) BY <1>1
<1> QED BY <1>2 DEF S, Accepted, Growing

LEMMA OthersSound ==
    ASSUME InOrder, ResetAlone', NEW w \in Worker, OneMoves(w),
           Growing \/ call[w].op = "reset"
    PROVE  \A v \in Worker \ {w} : Busy(v)' => Sound(call[v])'
<1> SUFFICES ASSUME NEW v \in Worker \ {w}, Busy(v)'
             PROVE  Sound(call[v])'
  OBVIOUS
<1> DEFINE k == call[v]
<1>1. k' = k /\ Busy(v) BY DEF OneMoves, Busy
<1>2. k.op # "reset" /\ call[w].op # "reset"
  BY <1>1 DEF InOrder, ResetAlone, OneMoves, Busy
<1>3. Sound(k) /\ Growing BY <1>1, <1>2 DEF InOrder
<1>4. LessonRequest(k)' BY <1>1, <1>3 DEF Sound, LessonRequest
<1>5. Underway(k)'
  <2> SUFFICES ASSUME NEW l \in DOMAIN k.arg[2]
               PROVE  /\ k.arg[2][l] = "count" =>
                            HasAttribute(l, "best")' /\ items'[LessonRow(l)].best >= k.arg[1].score
                      /\ k.op = "bulk" /\ k.arg[2][l] = "landed" => Passed(l)'
    BY <1>1 DEF Underway
  <2>1. l \in Lesson /\ RowAgrees(l) BY <1>2, <1>3 DEF Sound, LessonRequest, InOrder
  <2>2. /\ k.arg[2][l] = "count" =>
              HasAttribute(l, "best") /\ items[LessonRow(l)].best >= k.arg[1].score
        /\ k.op = "bulk" /\ k.arg[2][l] = "landed" => Passed(l)
    BY <1>2, <1>3 DEF Sound, Underway
  <2>3. /\ Passed(l) => Passed(l)'
        /\ HasAttribute(l, "best") =>
              /\ HasAttribute(l, "best")' /\ items'[LessonRow(l)].best \in Nat
              /\ items'[LessonRow(l)].best >= items[LessonRow(l)].best
    BY <1>3, <2>1 DEF Growing
  <2>4. HasAttribute(l, "best") => items[LessonRow(l)].best \in Nat
    BY <2>1 DEF RowAgrees, HasAttribute, WholeRow
  <2>5. k.arg[1].score \in Nat BY <1>2, <1>3 DEF Sound, LessonRequest, Attempt, Perfect
  <2> QED BY <2>2, <2>3, <2>4, <2>5
<1>6. Answers(k)' BY <1>1, <1>3, AcceptedStays DEF Sound, Answers
<1>7. Deletes(k)' BY <1>1, <1>2 DEF Deletes
<1> QED BY <1>4, <1>5, <1>6, <1>7 DEF Sound

LEMMA StillAlone ==
    ASSUME IsFiniteSet(Running)', mixed' = (mixed \/ (Cardinality(Running') > 1 /\ Resetting')),
           ~mixed'
    PROVE  ResetAlone'
<1> SUFFICES ASSUME NEW v \in Worker, NEW w \in Worker, call'[w].op = "reset", Busy(v)', v # w
             PROVE  FALSE
  BY DEF ResetAlone
<1>1. {v, w} \subseteq Running' BY DEF Running, Busy
<1>2. Cardinality({v, w}) = 2 /\ IsFiniteSet({v, w})
  <2> DEFINE S == {v}
  <2>1. IsFiniteSet(S) /\ Cardinality(S) = 1 BY FS_Singleton
  <2>2. {v, w} = S \cup {w} /\ w \notin S OBVIOUS
  <2> HIDE DEF S
  <2>3. IsFiniteSet(S \cup {w}) /\ Cardinality(S \cup {w}) = 2 BY <2>1, <2>2, FS_AddElement
  <2> QED BY <2>2, <2>3
<1>3. Cardinality(Running') \in Nat /\ 2 <= Cardinality(Running')
  BY <1>1, <1>2, FS_Subset, FS_CardinalityType
<1>4. Resetting' BY DEF Resetting
<1>5. Cardinality(Running') > 1 BY <1>3
<1> QED BY Zenon, <1>4, <1>5

LEMMA FewRunning ==
    ASSUME IsFiniteSet(Running), NEW w \in Worker, \A v \in Worker \ {w} : call'[v] = call[v]
    PROVE  IsFiniteSet(Running)'
<1>1. Running' \subseteq Running \cup {w} BY DEF Running, Busy
<1>2. IsFiniteSet(Running \cup {w}) BY FS_AddElement
<1> QED BY <1>1, <1>2, FS_Subset

\* Steps that write nothing.
LEMMA QuietInOrder ==
    ASSUME InOrder, ResetAlone', NEW w \in Worker, OneMoves(w),
           items' = items, sqlRows' = sqlRows, torn \subseteq torn',
           Busy(w)' => Sound(call[w])',
           call[w].op = "reset" /\ call'[w].op # "reset" => Reset \in torn' \/ DOMAIN items = {}
    PROVE  InOrder'
<1>1. Growing BY DEF Growing, Passed, HasAttribute, Has, RowAgrees, WholeRow
<1>2. \A v \in Worker : Busy(v)' => Sound(call[v])' BY <1>1, OthersSound
<1>3. \A l \in Lesson : RowAgrees(l)' BY DEF InOrder, RowAgrees, Has
<1>4. AnswersKept'
  <2> SUFFICES ASSUME Reset \notin torn', ~Resetting', NEW o \in Operation, Has(Op(o))'
               PROVE  (\A l \in Lesson : Passed(l)') /\ items'[Op(o)] = Accepted(o)'
    BY DEF AnswersKept
  <2>1. Has(Op(o)) BY DEF Has
  <2>2. call[w].op # "reset" BY <2>1 DEF Resetting, Has
  <2>3. ~Resetting BY <2>2 DEF Resetting, OneMoves
  <2>4. (\A l \in Lesson : Passed(l)) /\ items[Op(o)] = Accepted(o)
    BY <2>1, <2>3 DEF InOrder, AnswersKept
  <2> QED BY <1>1, <2>4, AcceptedStays
<1> QED BY <1>2, <1>3, <1>4 DEF InOrder

\* A call's answer does not pass through a lesson.
LEMMA RollGrows ==
    ASSUME InOrder, NEW w \in Worker, Busy(w), call[w].op # "reset", call[w].todo = <<>>,
           NEW l \in DOMAIN Phase(w), NEW next \in {"count", "landed", "failed"},
           \/ Roll(l, call[w].arg[1], Phase(w)[l], next)
           \/ /\ Phase(w)[l] \in {"raise", "count"} /\ next = "failed"
              /\ \/ UNCHANGED <<items, sqlRows>>
                 \/ Roll(l, call[w].arg[1], Phase(w)[l], "landed")
    PROVE  /\ Growing
           /\ \A k \in Lesson : RowAgrees(k)'
           /\ next = "count" => HasAttribute(l, "best")'
                                /\ items'[LessonRow(l)].best >= call[w].arg[1].score
           /\ next = "landed" /\ call[w].arg[1].passed => Passed(l)'
           /\ \A o : (Has(Op(o))' <=> Has(Op(o))) /\ (Has(Op(o)) => items'[Op(o)] = items[Op(o)])
<1> DEFINE a == call[w].arg[1]
<1>1. LessonRequest(call[w]) /\ Underway(call[w]) BY DEF InOrder, Sound
<1>2. l \in Lesson /\ Attempt(a) BY <1>1 DEF LessonRequest, Phase
<1>3. RowAgrees(l) BY <1>2 DEF InOrder
<1>4. Phase(w)[l] = "count" => HasAttribute(l, "best") /\ items[LessonRow(l)].best >= a.score
  BY <1>1 DEF Underway, Phase
<1>5. CASE UNCHANGED <<items, sqlRows>> /\ next # "landed"
  <2>1. next = "count" => HasAttribute(l, "best") /\ items[LessonRow(l)].best >= a.score
    <3> SUFFICES ASSUME next = "count"
                 PROVE  HasAttribute(l, "best") /\ items[LessonRow(l)].best >= a.score
      OBVIOUS
    <3>1. ~Beats(l, a) BY DEF Roll
    <3>2. HasAttribute(l, "best") /\ ~(items[LessonRow(l)].best < a.score)
      BY <3>1 DEF Beats
    <3>3. items[LessonRow(l)].best \in Nat /\ a.score \in Nat
      BY <1>2, <1>3, <3>2 DEF RowAgrees, HasAttribute, WholeRow, Attempt, Perfect
    <3> QED BY <3>2, <3>3
  <2>2. Growing BY <1>5 DEF Growing, Passed, HasAttribute, Has, RowAgrees, WholeRow
  <2> QED BY <1>5, <2>1, <2>2 DEF InOrder, RowAgrees, Has, HasAttribute
<1>6. CASE Roll(l, a, Phase(w)[l], "landed") /\ next # "count"
  <2> DEFINE key == LessonRow(l)
  <2>1. /\ RowAgrees(l)'
        /\ Has(key) => items'[key].best >= items[key].best
        /\ Passed(l)' <=> Passed(l) \/ a.passed
        /\ Passed(l) => items'[key].first = items[key].first
        /\ DOMAIN items' = DOMAIN items \cup {key}
        /\ \A k \in DOMAIN items \ {key} : items'[k] = items[k]
        /\ DOMAIN sqlRows' = DOMAIN sqlRows \cup {l}
        /\ \A k \in DOMAIN sqlRows \ {l} : sqlRows'[k] = sqlRows[k]
    BY <1>2, <1>3, <1>4, <1>6, RolledRow
  <2>2. \A k : k # l => LessonRow(k) # key BY DEF LessonRow
  <2>3. \A o : Op(o) # key BY DEF Op, LessonRow
  <2>4. \A k \in Lesson \ {l} : /\ Has(LessonRow(k))' <=> Has(LessonRow(k))
                                /\ Has(LessonRow(k)) => items'[LessonRow(k)] = items[LessonRow(k)]
    BY <2>1, <2>2 DEF Has
  <2>5. \A k \in Lesson \ {l} : RowAgrees(k)'
    BY <2>1, <2>4 DEF InOrder, RowAgrees
  <2>6. HasAttribute(l, "best")' BY <2>1 DEF RowAgrees, HasAttribute, WholeRow, Has
  <2>7. Growing
    <3> SUFFICES ASSUME NEW k \in Lesson \ {l}
                 PROVE  /\ Passed(k) => Passed(k)' /\ items'[LessonRow(k)].first = items[LessonRow(k)].first
                        /\ HasAttribute(k, "best") /\ RowAgrees(k) =>
                              /\ HasAttribute(k, "best")' /\ items'[LessonRow(k)].best \in Nat
                              /\ items'[LessonRow(k)].best >= items[LessonRow(k)].best
      BY <2>1, <2>6 DEF Growing, HasAttribute, RowAgrees, WholeRow, Has
    <3> QED BY <2>4 DEF Passed, HasAttribute, RowAgrees, WholeRow
  <2>8. \A o : (Has(Op(o))' <=> Has(Op(o))) /\ (Has(Op(o)) => items'[Op(o)] = items[Op(o)])
    BY <2>1, <2>3 DEF Has
  <2> QED BY <1>6, <2>1, <2>5, <2>7, <2>8
<1> QED BY <1>5, <1>6 DEF Roll

LEMMA RolledCall ==
    ASSUME CallsOK, NEW w \in Worker, LessonRequest(call[w]), call[w].op # "reset",
           NEW l \in DOMAIN Phase(w), NEW next,
           call' = [call EXCEPT ![w].arg[2][l] = next]
    PROVE  LET k == call[w]
               n == call'[w]
           IN  /\ CallsOK' /\ \A v \in Worker \ {w} : call'[v] = call[v]
               /\ n.op = k.op /\ n.on = k.on /\ n.todo = k.todo /\ n.at = k.at
               /\ n.arg[1] = k.arg[1] /\ n.arg[2] = [k.arg[2] EXCEPT ![l] = next]
               /\ k.op = "attempt" => n.arg = <<n.arg[1], n.arg[2]>>
               /\ k.op = "bulk" => n.arg = <<n.arg[1], n.arg[2], n.arg[3]>> /\ n.arg[3] = k.arg[3]
<1> DEFINE k == call[w]
           ph == [k.arg[2] EXCEPT ![l] = next]
           arg == [k.arg EXCEPT ![2] = ph]
           m == [op |-> k.op, at |-> k.at, id |-> k.id, on |-> k.on, arg |-> arg, todo |-> k.todo]
<1>1. Shaped(k) /\ Sequence(k.todo) /\ call = [v \in Worker |-> call[v]] BY DEF CallsOK
<1>2. [k EXCEPT !.arg = arg] = m BY <1>1 DEF Shaped
<1>3. call' = [call EXCEPT ![w] = [k EXCEPT !.arg = arg]] BY <1>1 DEF Phase
<1>4. call' = [call EXCEPT ![w] = m] BY <1>2, <1>3
<1>5. /\ k.op = "attempt" => arg = <<k.arg[1], ph>>
      /\ k.op = "bulk" => arg = <<k.arg[1], ph, k.arg[3]>>
  BY DEF LessonRequest
<1>6. k.op \in {"attempt", "bulk"} BY DEF LessonRequest
<1> HIDE DEF ph, arg
<1>7. Shaped(m) /\ m.op # "idle" /\ Sequence(m.todo) BY <1>1, <1>6 DEF Shaped
<1>8. CallsOK' /\ call'[w] = m /\ \A v \in Worker \ {w} : call'[v] = call[v]
  <2>1. Only(w, m) BY <1>4, OnlyCalls
  <2> HIDE DEF m
  <2> QED BY <2>1, <1>7, CallsKept
<1> QED BY <1>5, <1>6, <1>8 DEF ph

LEMMA RollInOrder ==
    ASSUME CallsOK, InOrder, NEW w \in Worker, RollOne(w), ResetAlone'
    PROVE  InOrder'
<1> DEFINE k == call[w]
           n == call'[w]
<1>1. k.op \in {"attempt", "bulk"} /\ k.todo = <<>> /\ k.at = "lessons" /\ Busy(w)
  BY DEF RollOne, At, Busy
<1>2. LessonRequest(k) /\ Underway(k) BY <1>1 DEF InOrder, Sound
<1>3. PICK l \in DOMAIN Phase(w), next \in {"count", "landed", "failed"} :
         /\ \/ Roll(l, k.arg[1], Phase(w)[l], next)
            \/ /\ Phase(w)[l] \in {"raise", "count"} /\ next = "failed"
               /\ \/ UNCHANGED <<items, sqlRows>>
                  \/ Roll(l, k.arg[1], Phase(w)[l], "landed")
         /\ call' = [call EXCEPT ![w].arg[2][l] = next]
  BY DEF RollOne
<1>4. /\ Growing
      /\ \A m \in Lesson : RowAgrees(m)'
      /\ next = "count" => HasAttribute(l, "best")'
                           /\ items'[LessonRow(l)].best >= k.arg[1].score
      /\ next = "landed" /\ k.arg[1].passed => Passed(l)'
      /\ \A o : (Has(Op(o))' <=> Has(Op(o))) /\ (Has(Op(o)) => items'[Op(o)] = items[Op(o)])
  BY <1>1, <1>3, RollGrows
<1>5. /\ CallsOK' /\ \A v \in Worker \ {w} : call'[v] = call[v]
      /\ n.op = k.op /\ n.on = k.on /\ n.todo = k.todo /\ n.at = k.at
      /\ n.arg[1] = k.arg[1] /\ n.arg[2] = [k.arg[2] EXCEPT ![l] = next]
      /\ k.op = "attempt" => n.arg = <<n.arg[1], n.arg[2]>>
      /\ k.op = "bulk" => n.arg = <<n.arg[1], n.arg[2], n.arg[3]>> /\ n.arg[3] = k.arg[3]
  BY <1>1, <1>2, <1>3, RolledCall
<1>6. OneMoves(w) BY <1>1, <1>5 DEF OneMoves
<1>7. LessonRequest(k)'
  BY <1>1, <1>2, <1>5 DEF LessonRequest
<1>8. Underway(k)'
  <2> SUFFICES ASSUME NEW m \in DOMAIN k.arg[2]
               PROVE  /\ n.arg[2][m] = "count" =>
                            HasAttribute(m, "best")' /\ items'[LessonRow(m)].best >= k.arg[1].score
                      /\ k.op = "bulk" /\ n.arg[2][m] = "landed" => Passed(m)'
    BY <1>5 DEF Underway
  <2>1. CASE m = l
    <3>1. n.arg[2][m] = next BY <2>1, <1>5
    <3>2. k.op = "bulk" => k.arg[1].passed BY <1>2 DEF LessonRequest, Seeded, Attempted
    <3> QED BY <2>1, <3>1, <3>2, <1>4
  <2>2. CASE m # l
    <3>1. n.arg[2][m] = k.arg[2][m] BY <2>2, <1>5
    <3>2. m \in Lesson /\ RowAgrees(m) BY <1>1, <1>2 DEF LessonRequest, InOrder
    <3>3. /\ k.arg[2][m] = "count" =>
                HasAttribute(m, "best") /\ items[LessonRow(m)].best >= k.arg[1].score
          /\ k.op = "bulk" /\ k.arg[2][m] = "landed" => Passed(m)
      BY <1>1, <1>2 DEF Underway
    <3>4. /\ Passed(m) => Passed(m)'
          /\ HasAttribute(m, "best") =>
                HasAttribute(m, "best")' /\ items'[LessonRow(m)].best >= items[LessonRow(m)].best
      BY <1>4, <3>2 DEF Growing
    <3>5. HasAttribute(m, "best") => items[LessonRow(m)].best \in Nat
      BY <3>2 DEF RowAgrees, HasAttribute, WholeRow
    <3>6. HasAttribute(m, "best")' => items'[LessonRow(m)].best \in Nat
      BY <1>4, <3>2 DEF RowAgrees, HasAttribute, WholeRow
    <3>7. k.arg[1].score \in Nat BY <1>1, <1>2 DEF LessonRequest, Attempt, Perfect
    <3> QED BY <3>1, <3>3, <3>4, <3>5, <3>6, <3>7
  <2> QED BY <2>1, <2>2
<1>9. Sound(k)' BY <1>1, <1>5, <1>7, <1>8 DEF Sound, Answers, Deletes
<1>10. \A v \in Worker : Busy(v)' => Sound(call[v])' BY <1>4, <1>6, <1>9, OthersSound
<1>11. AnswersKept'
  <2> SUFFICES ASSUME Reset \notin torn', ~Resetting', NEW o \in Operation, Has(Op(o))'
               PROVE  (\A m \in Lesson : Passed(m)') /\ items'[Op(o)] = Accepted(o)'
    BY DEF AnswersKept
  <2>1. Has(Op(o)) /\ items'[Op(o)] = items[Op(o)] BY <1>4
  <2>2. ~Resetting BY <1>1, <1>5 DEF Resetting
  <2>3. torn' = torn BY DEF RollOne
  <2>4. (\A m \in Lesson : Passed(m)) /\ items[Op(o)] = Accepted(o)
    BY <2>1, <2>2, <2>3 DEF InOrder, AnswersKept
  <2> QED BY <1>4, <2>1, <2>4, AcceptedStays
<1> QED BY <1>4, <1>10, <1>11 DEF InOrder

LEMMA SaveInOrder ==
    ASSUME CallsOK, InOrder, NEW w \in Worker, call[w].op = "bulk", ResetAlone',
           OneMoves(w), NEW x \in Head(call[w].todo), call[w].todo # <<>>,
           items' = After(x), torn' = torn, call'[w] = Onward(call[w], Rest(call[w].todo, x), call[w].at),
           sqlRows' = [l \in {k \in DOMAIN sqlRows : LessonRow(k) \in DOMAIN items'} |-> sqlRows[l]]
    PROVE  InOrder'
<1> DEFINE k == call[w]
           o == k.arg[3]
           S == {Put(Op(o), Accepted(o))}
<1>1. k.todo = <<S>> /\ k.at = "done" /\ \A l \in Lesson : Passed(l)
  BY DEF InOrder, Sound, Answers, Busy
<1>2. x = Put(Op(o), Accepted(o)) BY <1>1, OneSet
<1>3. Rest(k.todo, x) = <<>>
  <2>1. Head(<<S>>) = S /\ Tail(<<S>>) = <<>> OBVIOUS
  <2>2. S \ {x} = {} BY <1>2
  <2> HIDE DEF S
  <2> QED BY <1>1, <2>1, <2>2 DEF Rest
<1>4. call'[w] = Idle /\ ~Busy(w)' BY <1>1, <1>3, IdleCall DEF Onward, Busy
<1>5. /\ DOMAIN items' = DOMAIN items \cup {Op(o)} /\ items'[Op(o)] = Accepted(o)
      /\ \A key \in DOMAIN items \ {Op(o)} : items'[key] = items[key]
  <2>1. x.do = "put" /\ x.key = Op(o) /\ x.val = Accepted(o) BY <1>2 DEF Put
  <2> QED BY <2>1, PutFacts
<1>6. \A l : LessonRow(l) # Op(o) BY DEF LessonRow, Op
<1>7. \A l : /\ LessonRow(l) \in DOMAIN items' <=> LessonRow(l) \in DOMAIN items
             /\ LessonRow(l) \in DOMAIN items => items'[LessonRow(l)] = items[LessonRow(l)]
  BY <1>5, <1>6
<1>8. \A l \in Lesson : RowAgrees(l)'
  BY <1>7 DEF InOrder, RowAgrees, Has
<1>9. Growing BY <1>7 DEF Growing, Passed, HasAttribute, Has, RowAgrees, WholeRow
<1>10. \A v \in Worker : Busy(v)' => Sound(call[v])' BY <1>4, <1>9, OthersSound
<1>11. AnswersKept'
  <2> SUFFICES ASSUME Reset \notin torn', ~Resetting', NEW q \in Operation, Has(Op(q))'
               PROVE  (\A l \in Lesson : Passed(l)') /\ items'[Op(q)] = Accepted(q)'
    BY DEF AnswersKept
  <2>1. (\A l \in Lesson : Passed(l)') /\ Accepted(q)' = Accepted(q)
    BY <1>1, <1>9, AcceptedStays
  <2>2. CASE q = o BY <2>1, <2>2, <1>5
  <2>3. CASE q # o
    <3>1. Op(q) # Op(o) BY <2>3 DEF Op
    <3>2. Has(Op(q)) /\ items'[Op(q)] = items[Op(q)] BY <1>5, <3>1 DEF Has
    <3>3. ~Resetting BY DEF Resetting, OneMoves
    <3> QED BY <2>1, <3>2, <3>3 DEF InOrder, AnswersKept
  <2> QED BY <2>2, <2>3
<1> QED BY <1>8, <1>10, <1>11 DEF InOrder

LEMMA WipeInOrder ==
    ASSUME CallsOK, InOrder, NEW w \in Worker, call[w].op = "reset", ResetAlone',
           OneMoves(w), NEW x \in Head(call[w].todo), call[w].todo # <<>>,
           items' = After(x), torn' = torn, call'[w] = Onward(call[w], Rest(call[w].todo, x), call[w].at),
           sqlRows' = [l \in {k \in DOMAIN sqlRows : LessonRow(k) \in DOMAIN items'} |-> sqlRows[l]]
    PROVE  InOrder'
<1> DEFINE k == call[w]
           n == call'[w]
           rest == Rest(k.todo, x)
<1>1. Sound(k) /\ k.at = "done" /\ Sequence(k.todo)
  BY DEF InOrder, Sound, Deletes, Busy, CallsOK
<1>2. /\ Sequence(rest) /\ x \in Planned(k.todo)
      /\ Planned(rest) \subseteq Planned(k.todo) /\ Planned(k.todo) \subseteq Planned(rest) \cup {x}
  BY <1>1, RestOf
<1>3. x.do = "delete" /\ DOMAIN items \subseteq {y.key : y \in Planned(k.todo)}
  BY <1>1, <1>2 DEF Sound, Deletes
<1>4. DOMAIN items' = DOMAIN items \ {x.key} /\ \A key \in DOMAIN items' : items'[key] = items[key]
  BY <1>3, DeleteFacts
<1>5. DOMAIN items' \subseteq {y.key : y \in Planned(rest)} BY <1>2, <1>3, <1>4
<1>6. \A l \in Lesson : RowAgrees(l)'
  <2> SUFFICES ASSUME NEW l \in Lesson PROVE RowAgrees(l)' OBVIOUS
  <2>1. l \in DOMAIN sqlRows' <=> l \in DOMAIN sqlRows /\ LessonRow(l) \in DOMAIN items'
    OBVIOUS
  <2>2. l \in DOMAIN sqlRows' => sqlRows'[l] = sqlRows[l] OBVIOUS
  <2>3. RowAgrees(l) BY DEF InOrder
  <2> QED BY <1>4, <2>1, <2>2, <2>3 DEF RowAgrees, Has
<1>7. Busy(w)' => Sound(k)'
  <2> SUFFICES ASSUME Busy(w)' PROVE Sound(k)' OBVIOUS
  <2>1. ~(rest = <<>> /\ k.at = "done") BY IdleCall DEF Onward, Busy
  <2>2. Shaped(k) BY DEF CallsOK
  <2>3. n = With(k, rest, "done") BY <1>1, <2>1, <2>2, OnwardWith
  <2>4. n.op = "reset" /\ n.on = k.on /\ n.todo = rest /\ n.at = "done" BY <2>3 DEF With
  <2> HIDE DEF rest
  <2>5. LessonRequest(k)' BY <1>1, <2>4 DEF Sound, LessonRequest
  <2>6. Deletes(k)' BY <1>1, <1>2, <1>5, <2>4 DEF Sound, Deletes
  <2> QED BY <2>4, <2>5, <2>6 DEF Sound, Underway, Answers
<1>8. \A v \in Worker : Busy(v)' => Sound(call[v])' BY <1>7, OthersSound
<1>9. AnswersKept'
  <2>1. CASE rest = <<>>
    <3>1. DOMAIN items' = {} BY <1>5, <2>1, NoPlan
    <3> QED BY <3>1 DEF AnswersKept, Has
  <2>2. CASE rest # <<>>
    <3>1. n.op = "reset"
      <4>1. Shaped(k) BY DEF CallsOK
      <4> HIDE DEF rest
      <4>2. n = With(k, rest, k.at) BY <2>2, <4>1, OnwardWith DEF rest
      <4> QED BY <4>2 DEF With
    <3> QED BY <3>1 DEF AnswersKept, Resetting
  <2> QED BY <2>1, <2>2
<1> QED BY <1>6, <1>8, <1>9 DEF InOrder

-----------------------------------------------------------------------------

LEMMA RequestInOrder ==
    ASSUME CallsOK, InOrder, NEW w \in Worker, Requests(w), sqlRows' = sqlRows
    PROVE  CallsOK' /\ OneMoves(w) /\ (ResetAlone' => InOrder')
<1> DEFINE k == call[w]
           n == call'[w]
           Quiet == /\ OneMoves(w) /\ items' = items /\ torn \subseteq torn'
                    /\ Busy(w)' => Sound(k)'
                    /\ k.op = "reset" /\ n.op # "reset" => DOMAIN items = {}
<1> SUFFICES CallsOK' /\ Quiet BY QuietInOrder
<1>1. ASSUME NEW op \in {"attempt", "bulk", "reset"}, NEW on, NEW arg, NEW at, NEW m,
             Begin(w, op, on, arg, at),
             m = [op |-> op, at |-> at, id |-> requests + 1, on |-> on, arg |-> arg, todo |-> <<>>],
             LessonRequest(m),
             op # "reset" => \A l \in DOMAIN arg[2] : arg[2][l] = "raise",
             op = "reset" => at = "query"
      PROVE  CallsOK' /\ Quiet
  <2>1. /\ CallsOK' /\ k = Idle /\ n = m /\ \A v \in Worker \ {w} : call'[v] = call[v]
        /\ items' = items /\ torn' = torn
    BY <1>1, BeginFacts
  <2>2. m.op = op /\ m.arg = arg /\ m.todo = <<>> /\ m.at = at BY <1>1
  <2>3. Sound(m)'
    <3>1. LessonRequest(m)' BY <1>1 DEF LessonRequest
    <3>2. Underway(m)' BY <1>1, <2>2 DEF Underway
    <3>3. Answers(m)' /\ Deletes(m)' BY <1>1, <2>2, NoPlan DEF Answers, Deletes
    <3> QED BY <3>1, <3>2, <3>3 DEF Sound
  <2>4. Sound(k)' BY <2>1, <2>3
  <2> QED BY <1>1, <2>1, <2>2, <2>4, IdleCall DEF OneMoves, Busy
<1>2. ASSUME k.op # "idle", k.op = "reset" => DOMAIN items = {}, Answer(w)
      PROVE  CallsOK' /\ Quiet
  <2>1. /\ CallsOK' /\ n = Idle /\ \A v \in Worker \ {w} : call'[v] = call[v]
        /\ items' = items /\ torn' = torn
    BY <1>2, AnswerFacts
  <2> QED BY <1>2, <2>1, IdleCall DEF OneMoves, Busy
<1>3. ASSUME k.op = "bulk", NEW todo, NEW at, n = With(k, todo, at), Answers(n),
             CallsOK', \A v \in Worker \ {w} : call'[v] = call[v], items' = items, torn' = torn
      PROVE  CallsOK' /\ Quiet
  <2>1. Sound(k) BY <1>3 DEF InOrder, Busy
  <2>2. n.op = k.op /\ n.on = k.on /\ n.arg = k.arg BY <1>3 DEF With
  <2>3. LessonRequest(k)' BY <1>3, <2>1, <2>2 DEF Sound, LessonRequest
  <2>4. Underway(k)' BY <1>3, <2>1, <2>2 DEF Sound, Underway, HasAttribute, Passed, Has
  <2>5. Answers(k)' BY <1>3, <2>2 DEF Answers, Accepted, HasAttribute, Passed, Has
  <2>6. Sound(k)' BY <1>3, <2>2, <2>3, <2>4, <2>5 DEF Sound, Deletes
  <2> QED BY <1>3, <2>2, <2>6 DEF OneMoves, Busy
<1>4. CASE \E l \in Lesson, score \in {1, Perfect}, passed \in BOOLEAN :
              CountAttempt(w, l, Attempted(score, <<"attempted", requests + 1>>, passed))
  <2>1. PICK l \in Lesson, score \in {1, Perfect}, passed \in BOOLEAN :
              CountAttempt(w, l, Attempted(score, <<"attempted", requests + 1>>, passed))
    BY <1>4
  <2> DEFINE a == Attempted(score, <<"attempted", requests + 1>>, passed)
             ph == [j \in {l} |-> "raise"]
             arg == <<a, ph>>
  <2>2. <<"attempted", requests + 1>> # Never BY DEF Never
  <2>3. Attempt(a) BY <2>2 DEF Attempt, Attempted
  <2>4. arg[1] = a /\ arg[2] = ph /\ DOMAIN ph = {l} /\ ph[l] = "raise" /\ ph = [j \in DOMAIN ph |-> ph[j]]
    OBVIOUS
  <2>5. Begin(w, "attempt", {Progress}, arg, "lessons") BY <2>1 DEF CountAttempt
  <2> HIDE DEF a, ph
  <2>6. arg = <<arg[1], arg[2]>> BY <2>4
  <2> HIDE DEF arg
  <2> DEFINE m == [op |-> "attempt", at |-> "lessons", id |-> requests + 1, on |-> {Progress},
                   arg |-> arg, todo |-> <<>>]
  <2>8. m.op = "attempt" /\ m.arg = arg /\ m.todo = <<>> /\ m.on = {Progress} OBVIOUS
  <2>9. LessonRequest(m)
    <3> HIDE DEF m
    <3> QED BY <2>3, <2>4, <2>6, <2>8 DEF LessonRequest
  <2> QED BY <2>4, <2>5, <2>9, <1>1
<1>5. CASE \E o \in Operation : SubmitBulkComplete(w, o)
  <2>1. PICK o \in Operation : SubmitBulkComplete(w, o) BY <1>5
  <2> DEFINE a == Seeded(o)
             ph == [l \in Lesson |-> "raise"]
             arg == <<a, ph, o>>
  <2>2. <<"completed", o>> # Never BY DEF Never
  <2>3. Attempt(a) BY <2>2 DEF Attempt, Attempted, Seeded, Perfect
  <2>4. /\ arg[1] = a /\ arg[2] = ph /\ arg[3] = o /\ DOMAIN ph = Lesson
        /\ (\A l \in Lesson : ph[l] = "raise") /\ ph = [j \in DOMAIN ph |-> ph[j]]
    OBVIOUS
  <2>5. Begin(w, "bulk", {Progress}, arg, "look") BY <2>1 DEF SubmitBulkComplete
  <2>7. a = Seeded(o) OBVIOUS
  <2> HIDE DEF a, ph
  <2>6. arg = <<arg[1], arg[2], arg[3]>> BY <2>4
  <2> HIDE DEF arg
  <2> DEFINE m == [op |-> "bulk", at |-> "look", id |-> requests + 1, on |-> {Progress},
                   arg |-> arg, todo |-> <<>>]
  <2>8. m.op = "bulk" /\ m.arg = arg /\ m.todo = <<>> /\ m.on = {Progress} OBVIOUS
  <2>9. LessonRequest(m)
    <3> HIDE DEF m
    <3> QED BY <2>3, <2>4, <2>6, <2>7, <2>8 DEF LessonRequest
  <2> QED BY <2>4, <2>5, <2>9, <1>1
<1>6. CASE ResetMyProgress(w)
  <2>1. Begin(w, "reset", {Progress, Reset}, <<>>, "query") BY <1>6 DEF ResetMyProgress
  <2> DEFINE m == [op |-> "reset", at |-> "query", id |-> requests + 1, on |-> {Progress, Reset},
                   arg |-> <<>>, todo |-> <<>>]
  <2>2. m.op = "reset" /\ m.arg = <<>> /\ m.todo = <<>> /\ m.on = {Progress, Reset} OBVIOUS
  <2>9. LessonRequest(m)
    <3> HIDE DEF m
    <3> QED BY <2>2 DEF LessonRequest
  <2> QED BY <2>1, <2>9, <1>1
<1>7. CASE GetBulkOp(w)
  <2>1. k.op = "bulk" /\ k.todo = <<>> BY <1>7 DEF GetBulkOp, At
  <2>2. CASE Answer(w) BY <1>2, <2>1, <2>2
  <2>3. CASE Goto(w, "lessons")
    <3>1. /\ CallsOK' /\ n = With(k, <<>>, "lessons") /\ \A v \in Worker \ {w} : call'[v] = call[v]
          /\ items' = items /\ torn' = torn
      BY <2>1, <2>3, GotoFacts
    <3>2. Answers(n) BY <3>1 DEF Answers, With
    <3> QED BY <1>3, <2>1, <3>1, <3>2
  <2> QED BY <1>7, <2>2, <2>3 DEF GetBulkOp
<1>8. CASE SaveBulkOp(w)
  <2> DEFINE o == k.arg[3]
             S == {Put(Op(o), Accepted(o))}
  <2>1. k.op = "bulk" /\ k.todo = <<>> BY <1>8 DEF SaveBulkOp, At
  <2>2. CASE Answer(w) BY <1>2, <2>1, <2>2
  <2>3. CASE (\A l \in Lesson : Phase(w)[l] = "landed") /\ Plan(w, <<S>>)
    <3>1. Sequence(<<S>>) /\ <<S>> # <<>> BY OneSet
    <3>2. /\ CallsOK' /\ n = With(k, <<S>>, "done") /\ \A v \in Worker \ {w} : call'[v] = call[v]
          /\ items' = items /\ torn' = torn
      <4> HIDE DEF S
      <4> QED BY <2>1, <2>3, <3>1, PlanFacts
    <3>3. \A l \in Lesson : Passed(l)
      BY <2>1, <2>3 DEF InOrder, Busy, Sound, Underway, LessonRequest, Phase
    <3>4. n.todo = <<S>> /\ n.at = "done" /\ n.arg = k.arg BY <3>2 DEF With
    <3>5. Answers(n) BY <3>3, <3>4 DEF Answers
    <3> HIDE DEF S
    <3> QED BY <1>3, <2>1, <3>2, <3>5
  <2> QED BY <1>8, <2>2, <2>3 DEF SaveBulkOp
<1>9. CASE AnswerAttempt(w)
  BY <1>2, <1>9 DEF AnswerAttempt, At
<1>10. CASE DeleteAllForUser(w)
  <2> DEFINE S == {Delete(key) : key \in DOMAIN items}
  <2>1. k.op = "reset" /\ k.todo = <<>> /\ Plan(w, Batch(S)) BY <1>10 DEF DeleteAllForUser, At
  <2>2. CASE S = {}
    <3>1. DOMAIN items = {} BY <2>2
    <3>2. Answer(w) BY <2>1, <2>2 DEF Batch, Plan, Answer
    <3> QED BY <1>2, <2>1, <3>1, <3>2
  <2>3. CASE S # {}
    <3> HIDE DEF S
    <3>1. Batch(S) = <<S>> BY <2>3 DEF Batch
    <3>2. Sequence(<<S>>) /\ <<S>> # <<>> /\ Planned(<<S>>) = S BY OneSet
    <3>3. /\ CallsOK' /\ n = With(k, <<S>>, "done") /\ \A v \in Worker \ {w} : call'[v] = call[v]
          /\ items' = items /\ torn' = torn
      BY <2>1, <3>1, <3>2, PlanFacts
    <3>4. n.op = "reset" /\ n.on = k.on /\ n.todo = <<S>> /\ n.at = "done" BY <2>1, <3>3 DEF With
    <3>5. LessonRequest(k)' BY <2>1, <3>4 DEF InOrder, Busy, Sound, LessonRequest
    <3>6. \A x \in S : x.do = "delete" BY DEF S, Delete
    <3>7. DOMAIN items \subseteq {x.key : x \in S}
      <4>1. \A key : Delete(key).key = key BY DEF Delete
      <4> QED BY <4>1 DEF S
    <3>8. Deletes(k)' BY <3>2, <3>3, <3>4, <3>6, <3>7 DEF Deletes
    <3>9. Sound(k)' BY <3>4, <3>5, <3>8 DEF Sound, Underway, Answers
    <3> QED BY <2>1, <3>3, <3>4, <3>9 DEF OneMoves, Busy
  <2> QED BY <2>2, <2>3
<1> QED BY <1>4, <1>5, <1>6, <1>7, <1>8, <1>9, <1>10 DEF Requests

LEMMA WorkInOrder ==
    ASSUME CallsOK, InOrder, NEW w \in Worker, LessonWork(w)
    PROVE  CallsOK' /\ OneMoves(w) /\ (ResetAlone' => InOrder')
<1>1. CASE Crash(w) /\ UNCHANGED sqlRows
  <2>1. /\ CallsOK' /\ call'[w] = Idle /\ call[w].op # "idle" /\ items' = items
        /\ \A v \in Worker \ {w} : call'[v] = call[v]
        /\ torn' = torn \cup call[w].on
    BY <1>1, CrashFacts
  <2>2. OneMoves(w) /\ ~Busy(w)' BY <2>1, IdleCall DEF OneMoves, Busy
  <2>3. call[w].op = "reset" => Reset \in torn'
    BY <2>1 DEF InOrder, Busy, Sound, LessonRequest
  <2> QED BY <1>1, <2>1, <2>2, <2>3, QuietInOrder
<1>2. CASE Write(w) /\ sqlRows' = [l \in {k \in DOMAIN sqlRows : LessonRow(k) \in DOMAIN items'} |-> sqlRows[l]]
  <2>1. /\ CallsOK' /\ call[w].op # "idle" /\ call[w].todo # <<>> /\ torn' = torn
        /\ \A v \in Worker \ {w} : call'[v] = call[v]
        /\ \E x \in Head(call[w].todo) :
              /\ items' = After(x)
              /\ call'[w] = Onward(call[w], Rest(call[w].todo, x), call[w].at)
    BY <1>2, WriteFacts
  <2>2. OneMoves(w) BY <2>1 DEF OneMoves, Busy
  <2>3. call[w].op \in {"bulk", "reset"}
    BY <2>1 DEF InOrder, Busy, Sound, LessonRequest
  <2> QED BY <1>2, <2>1, <2>2, <2>3, SaveInOrder, WipeInOrder
<1> QED BY <1>1, <1>2 DEF LessonWork

LEMMA RollOneMoves ==
    ASSUME CallsOK, InOrder, NEW w \in Worker, RollOne(w)
    PROVE  CallsOK' /\ OneMoves(w)
<1>1. call[w].op \in {"attempt", "bulk"} /\ Busy(w) BY DEF RollOne, At, Busy
<1>2. LessonRequest(call[w]) BY <1>1 DEF InOrder, Sound
<1>3. PICK l \in DOMAIN Phase(w), next \in {"count", "landed", "failed"} :
         call' = [call EXCEPT ![w].arg[2][l] = next]
  BY DEF RollOne
<1> QED BY <1>1, <1>2, <1>3, RolledCall DEF OneMoves

LEMMA HistoryInvStep == HistoryInv /\ [HistoryNext]_historyVars => HistoryInv'
<1> SUFFICES ASSUME HistoryInv, [HistoryNext]_historyVars, ~mixed' PROVE HistoryInv'
  BY DEF HistoryInv
<1>1. CASE UNCHANGED historyVars
  <2>1. /\ items' = items /\ call' = call /\ torn' = torn /\ sqlRows' = sqlRows /\ mixed' = mixed
    BY <1>1 DEF historyVars, tableVars
  <2>2. CallsOK /\ IsFiniteSet(Running) /\ InOrder BY <2>1 DEF HistoryInv
  <2>3. CallsOK' BY <2>1, <2>2 DEF CallsOK
  <2>4. IsFiniteSet(Running)'
    <3>1. Running' = Running BY <2>1 DEF Running, Busy
    <3> QED BY <2>2, <3>1
  <2>5. \A v \in Worker : Busy(v)' <=> Busy(v) BY <2>1 DEF Busy
  <2>6. ResetAlone' /\ (\A l \in Lesson : RowAgrees(l)')
    BY <2>1, <2>2, <2>5 DEF InOrder, ResetAlone, RowAgrees, Has
  <2>7. \A l : (Passed(l)' <=> Passed(l)) /\ (HasAttribute(l, "best")' <=> HasAttribute(l, "best"))
    BY <2>1 DEF Passed, HasAttribute, Has
  <2>8. \A o : Accepted(o)' = Accepted(o) BY <2>1 DEF Accepted, HasAttribute, Has
  <2>9. \A v \in Worker : Sound(call[v]) => Sound(call[v])'
    BY <2>1, <2>7, <2>8 DEF Sound, LessonRequest, Underway, Answers, Deletes
  <2>10. AnswersKept' BY <2>1, <2>2, <2>7, <2>8 DEF InOrder, AnswersKept, Resetting, Has
  <2> QED BY <2>2, <2>3, <2>4, <2>5, <2>6, <2>9, <2>10 DEF HistoryInv, InOrder
<1>2. CASE HistoryNext
  <2>1. PICK w \in Worker : \/ Requests(w) /\ UNCHANGED sqlRows
                            \/ RollOne(w) \/ LessonWork(w)
    BY <1>2 DEF HistoryNext
  <2>2. mixed' = (mixed \/ (Cardinality(Running') > 1 /\ Resetting'))
    BY <1>2 DEF HistoryNext, Resetting
  <2>3. ~mixed BY Zenon, <2>2
  <2>4. CallsOK /\ IsFiniteSet(Running) /\ InOrder BY <2>3 DEF HistoryInv
  <2>5. CallsOK' /\ OneMoves(w) /\ (ResetAlone' => InOrder')
    BY <2>1, <2>4, RequestInOrder, WorkInOrder, RollOneMoves, RollInOrder
  <2>6. IsFiniteSet(Running)' BY <2>4, <2>5, FewRunning DEF OneMoves
  <2>7. ResetAlone' BY <2>2, <2>6, StillAlone
  <2> QED BY <2>5, <2>6, <2>7 DEF HistoryInv
<1> QED BY <1>1, <1>2

LEMMA HistoryInvImplies == HistoryInv => HistoryAddsUp
<1> SUFFICES ASSUME CallsOK, InOrder PROVE HistoryAddsUp
  BY DEF HistoryInv, HistoryAddsUp
<1>1. ASSUME NEW l \in Lesson, Has(LessonRow(l))
      PROVE  sqlRows[l] = Updated([first |-> Never], [set |-> items[LessonRow(l)], add |-> <<>>])
  BY <1>1, ShownRow DEF InOrder, RowAgrees
<1>2. ASSUME Reset \notin torn, \A w \in Worker : call[w].op # "reset",
             NEW o \in Operation, Has(Op(o))
      PROVE  (\A l \in Lesson : HasAttribute(l, "first")) /\ items[Op(o)] = Accepted(o)
  BY <1>2 DEF InOrder, AnswersKept, Resetting, Passed
<1> QED BY <1>1, <1>2 DEF HistoryAddsUp

\* For all lessons, operations and workers: however attempts and seeded completions
\* overlap, fail and are sent again, a lesson's row in DynamoDB (update_lesson_rollup)
\* is what one statement for each of them has made of it in SQLite, and an operation
\* that is answered from its kept answer is all there, with the count it was answered
\* with (save_bulk_op), unless a reset was served together with another request.
THEOREM HistoryAddsUpHolds == HistorySpec => []HistoryAddsUp
<1>1. HistoryInit => HistoryInv BY HistoryInvInit
<1>2. HistoryInv /\ [HistoryNext]_historyVars => HistoryInv' BY HistoryInvStep
<1>3. HistoryInv => HistoryAddsUp BY HistoryInvImplies
<1> QED BY <1>1, <1>2, <1>3, PTL DEF HistorySpec

-----------------------------------------------------------------------------
(* The accounts: the types of what the requests carry, whose the ids of    *)
(* accounts are, that an identity has one account and that chosen names    *)
(* differ.  A step is first reduced to what it does to the accounts and to *)
(* the call of its worker (Step), and the invariants are proved of Step.   *)

Resolvers == {"touch", "edit", "leave"}

\* Where it is not yet known which account the caller has.
Early == {"resolve", "provision", "fetch", "find"}

DrawnBy(k) == <<"uuid", k.id>>

Row(r) == /\ r = [sub |-> r.sub, name |-> r.name, registered |-> r.registered]
          /\ r.sub \in Identity

DeleteRows(id) == {Delete(Account(id)), Delete(UserSettings(id))}

\* The account a request puts: the one it has resolved, or one with a drawn id.
PutsAccount(k) ==
    \E r : /\ Row(r) /\ r.sub = k.arg[1]
           /\ k.op = "register" => r.name \in k.arg[2]
           /\ \/ k.arg[3] # NoAccount /\ k.todo = <<{Put(Account(k.arg[3]), r)}>>
              \/ /\ k.op = "register" /\ k.arg[3] = NoAccount
                 /\ k.todo = <<{PutNew(Account(DrawnBy(k)), r)}>>

\* A request, when m have begun.
GoodRequest(k, m) ==
    /\ k.op \in Resolvers \cup {"register", "remove"}
    /\ k.arg[1] \in Identity /\ k.id \in 1..m
    /\ k.arg[2] = {} \/ \E x \in Name : k.arg[2] = {x}
    /\ k.on = {Self(k.arg[1])} \cup {UserName(x) : x \in k.arg[2]}
    /\ k.at \in Early => k.arg = <<k.arg[1], k.arg[2]>> /\ k.op # "remove"
    /\ k.op = "touch" => Planned(k.todo) \subseteq {Put(UserSettings(k.arg[3]), TRUE)}
    /\ k.op \in {"leave", "remove"} => Planned(k.todo) \subseteq DeleteRows(k.arg[3])
    /\ k.op \in {"edit", "register"} =>
          (k.at = "done" <=> k.todo # <<>>) /\ (k.at = "done" => PutsAccount(k))
    /\ k.op = "register" => /\ k.at \in {"find", "name", "done"}
                            /\ \E x \in Name : k.arg[2] = {x}
                            /\ k.at = "name" => Row(k.arg[4]) /\ k.arg[4].sub = k.arg[1]
    /\ k.at \notin Early /\ k.op # "register" => k.arg[3] # NoAccount
    /\ k.todo # <<>> => k.at \in {"done", "forget"}

Known == cache = [w \in Worker |-> [s \in Identity |-> cache[w][s]]]

Typed ==
    /\ CallsOK /\ Known
    /\ requests \in 0..MaxRequests
    /\ \A w \in Worker : call[w].op # "idle" => GoodRequest(call[w], requests)
    /\ \A v, w \in Worker : call[v].op # "idle" /\ call[v].id = call[w].id => v = w
    /\ \A id : Has(Account(id)) => Row(items[Account(id)])

\* Who may use an account's id: whose it is, or who has come to it.
Ids(k) == (IF k.op = "register" THEN {DrawnBy(k)} ELSE {}) \cup
          (IF k.op = "idle" \/ k.at \in Early THEN {} ELSE {k.arg[3]})

Claims(id, s) ==
    \/ id = Provisional(s)
    \/ Has(Account(id)) /\ items[Account(id)].sub = s
    \/ \E w \in Worker : cache[w][s] = id
    \/ \E w \in Worker : id \in Ids(call[w]) /\ call[w].arg[1] = s

Owned ==
    \A id : \A s, t \in Identity : id # NoAccount /\ Claims(id, s) /\ Claims(id, t) => s = t

FreshIds ==
    \A id : \A s \in Identity :
        id # NoAccount /\ Claims(id, s) =>
            id \in {Provisional(s)} \cup {<<"uuid", m>> : m \in 1..requests}

-----------------------------------------------------------------------------
(* The steps, by what they do to the accounts and to the call of w.        *)

\* The cache of w after it may have learned that s has the account id.
Learns(w, s, id) ==
    /\ cache' = [v \in Worker |-> [t \in Identity |-> cache'[v][t]]]
    /\ \A v \in Worker, t \in Identity :
          cache'[v][t] # cache[v][t] => v = w /\ t = s /\ cache'[v][t] = id

Begins(w) ==
    LET n == call'[w]
    IN  /\ call[w] = Idle /\ n.todo = <<>> /\ n.op # "idle"
        /\ n.id = requests + 1 /\ requests' = requests + 1 /\ requests < MaxRequests
        /\ \/ n.op \in Resolvers /\ n.at = "resolve"
           \/ n.op = "register" /\ n.at = "find"
           \/ n.op = "remove" /\ n.at = "serve" /\ n.arg[3] \in AccountsOf(n.arg[1])
        /\ shared \subseteq shared'
        /\ \A v \in Worker \ {w} : n.on \cap call[v].on \subseteq shared'
        /\ UNCHANGED <<items, cache>>

\* A read: what it is, and what it leaves in the cache.
Reads(w) ==
    LET k == call[w]
        n == call'[w]
        s == k.arg[1]
        id == n.arg[3]
    IN  /\ k.op # "idle" /\ k.todo = <<>> /\ n.todo = <<>>
        /\ n.op = k.op /\ n.id = k.id /\ n.on = k.on
        /\ n.arg[1] = s /\ n.arg[2] = k.arg[2]
        /\ UNCHANGED <<items, requests, shared>>
        /\ \/ /\ k.at = "resolve" /\ n.at = "serve"
              /\ (id # NoAccount /\ id = cache[w][s]) \/ id \in AccountsOf(s)
              /\ Learns(w, s, id)
           \/ k.at = "resolve" /\ n.at = "provision" /\ AccountsOf(s) = {} /\ cache' = cache
           \/ k.at = "provision" /\ n.at = "fetch" /\ cache' = cache
           \/ k.at = "fetch" /\ n.at = "serve" /\ id = Provisional(s) /\ Learns(w, s, id)
           \/ /\ k.op = "edit" /\ k.at = "serve" /\ n.at = "read" /\ id = k.arg[3]
              /\ \A x : k.arg[2] = {x} => AccountsNamed(x) = {} \/ id \in AccountsNamed(x)
              /\ cache' = cache
           \/ /\ k.op = "register" /\ k.at = "find" /\ n.at = "name"
              /\ (id = NoAccount /\ AccountsOf(s) = {}) \/ id \in AccountsOf(s)
              /\ cache' = cache

\* The placeholder is made.
Provisions(w) ==
    LET k == call[w]
        n == call'[w]
        s == k.arg[1]
        key == Account(Provisional(s))
    IN  /\ k.op # "idle" /\ k.todo = <<>> /\ n.todo = <<>>
        /\ k.at = "provision" /\ n.at = "serve"
        /\ n.op = k.op /\ n.id = k.id /\ n.on = k.on
        /\ n.arg[1] = s /\ n.arg[2] = k.arg[2] /\ n.arg[3] = Provisional(s)
        /\ k.op \in Resolvers
        /\ ~Has(key) /\ items' = After(PutNew(key, Placeholder(s)))
        /\ Learns(w, s, Provisional(s))
        /\ UNCHANGED <<requests, shared>>

Plans(w) ==
    LET k == call[w]
        n == call'[w]
        s == k.arg[1]
        id == k.arg[3]
        old == items[Account(id)]
    IN  /\ k.op # "idle" /\ k.todo = <<>> /\ n.todo # <<>>
        /\ n.op = k.op /\ n.id = k.id /\ n.on = k.on /\ n.arg = k.arg
        /\ \/ k.op = "touch" /\ k.at \notin Early
           \/ k.op \in {"leave", "remove"} /\ k.at \notin Early
           \/ /\ k.op = "edit" /\ k.at = "read" /\ n.at = "done" /\ Has(Account(id))
              /\ \E r : /\ n.todo = <<{Put(Account(id), r)}>>
                        /\ (k.arg[2] = {} /\ r.name = old.name) \/ r.name \in k.arg[2]
           \/ /\ k.op = "register" /\ k.at = "name" /\ n.at = "done"
              /\ \A x : k.arg[2] = {x} => AccountsNamed(x) = {} \/ id \in AccountsNamed(x)
        /\ UNCHANGED <<items, cache, requests, shared>>

Saves(w) ==
    LET k == call[w]
        n == call'[w]
    IN  /\ k.op # "idle"
        /\ \E z \in Planned(k.todo) :
              /\ items' = After(z)
              /\ Planned(n.todo) \subseteq Planned(k.todo)
              /\ \/ n = Idle
                 \/ /\ n = With(k, n.todo, k.at)
                    /\ k.op \notin {"edit", "register"}
        /\ UNCHANGED <<cache, requests, shared>>

\* An answer, the end of a worker or of an entry of the cache.
Finishes(w) ==
    /\ call'[w] = Idle
    /\ cache' = [v \in Worker |-> [t \in Identity |-> cache'[v][t]]]
    /\ \A v \in Worker, t \in Identity : cache'[v][t] \in {cache[v][t], NoAccount}
    /\ UNCHANGED <<items, requests, shared>>

\* Two requests about s, one of which may change which account it has.
Racing(s) ==
    \E v, w \in Worker :
        /\ v # w
        /\ Self(s) \in call[v].on \cap call[w].on
        /\ call[v].op # "touch"

Step(w) ==
    /\ \A v \in Worker \ {w} : call'[v] = call[v]
    /\ Begins(w) \/ Reads(w) \/ Provisions(w) \/ Plans(w) \/ Saves(w) \/ Finishes(w)

LEMMA TypedKept ==
    ASSUME Typed, NEW w \in Worker, CallsOK', \A v \in Worker \ {w} : call'[v] = call[v],
           Known',
           call'[w].op # "idle" => GoodRequest(call'[w], requests'),
           \/ call'[w].op = "idle" /\ call'[w].id = 0 /\ requests' = requests
           \/ call[w].op # "idle" /\ call'[w].id = call[w].id /\ requests' = requests
           \/ call'[w].id = requests + 1 /\ requests' = requests + 1 /\ requests < MaxRequests,
           \A id : Has(Account(id))' => Row(items'[Account(id)])
    PROVE  Typed'
<1>1. requests \in Nat /\ requests' \in requests..MaxRequests BY TableConstants DEF Typed
<1>2. ASSUME NEW v \in Worker, call'[v].op # "idle" PROVE GoodRequest(call'[v], requests')
  <2>1. CASE v = w BY <1>2, <2>1
  <2>2. CASE v # w
    <3>1. call'[v] = call[v] /\ GoodRequest(call[v], requests) BY <1>2, <2>2 DEF Typed
    <3>2. call[v].id \in 1..requests => call[v].id \in 1..requests' BY <1>1
    <3> QED BY <3>1, <3>2 DEF GoodRequest
  <2> QED BY <2>1, <2>2
<1>3. ASSUME NEW u \in Worker, NEW v \in Worker, call'[u].op # "idle",
             call'[u].id = call'[v].id
      PROVE  u = v
  <2>1. \A x \in Worker \ {w} : call'[x] = call[x] /\ call[x].op # "idle" => call[x].id \in 1..requests
    BY DEF Typed, GoodRequest
  <2>2. \A x \in Worker : call[x].op = "idle" => call[x].id = 0 BY IdleCall DEF Typed, CallsOK
  <2>3. \A x \in Worker : call[x].op # "idle" => call[x].id \in 1..requests
    BY DEF Typed, GoodRequest
  <2>4. CASE u # w /\ v # w BY <1>3, <2>4 DEF Typed
  <2>5. CASE u = w /\ v # w
    BY <1>1, <1>3, <2>2, <2>3, <2>5 DEF Typed
  <2>6. CASE u # w /\ v = w
    BY <1>1, <1>3, <2>2, <2>3, <2>6 DEF Typed
  <2> QED BY <2>4, <2>5, <2>6
<1>4. requests' \in 0..MaxRequests BY <1>1, TableConstants
<1> QED BY <1>2, <1>3, <1>4 DEF Typed

-----------------------------------------------------------------------------
(* The steps keep the types of the calls: requests begin, read and end.    *)

LEMMA BeginStep ==
    ASSUME Typed, NEW w \in Worker, NEW op, NEW on, NEW arg, NEW at,
           Begin(w, op, on, arg, at), cache' = cache,
           op \in Resolvers \cup {"register", "remove"},
           GoodRequest([op |-> op, at |-> at, id |-> requests + 1, on |-> on, arg |-> arg,
                        todo |-> <<>>], requests + 1),
           \/ op \in Resolvers /\ at = "resolve"
           \/ op = "register" /\ at = "find"
           \/ op = "remove" /\ at = "serve" /\ arg[3] \in AccountsOf(arg[1])
    PROVE  Typed' /\ Step(w)
<1> DEFINE n == [op |-> op, at |-> at, id |-> requests + 1, on |-> on, arg |-> arg,
                 todo |-> <<>>]
<1>0. CallsOK /\ op # "idle" BY DEF Typed, Resolvers
<1>1. /\ CallsOK' /\ call[w] = Idle /\ requests < MaxRequests /\ requests' = requests + 1
      /\ call'[w] = n /\ \A v \in Worker \ {w} : call'[v] = call[v]
      /\ shared \subseteq shared' /\ items' = items
      /\ \A v \in Worker \ {w} : on \cap call[v].on \subseteq shared'
  BY <1>0, BeginFacts
<1>2. Known' BY DEF Typed, Known
<1>3. \A id : Has(Account(id))' => Row(items'[Account(id)]) BY <1>1 DEF Typed, Has
<1>4. call'[w].id = requests + 1 BY <1>1
<1>5. GoodRequest(call'[w], requests') BY <1>1
<1>6. Typed' BY <1>1, <1>2, <1>3, <1>4, <1>5, TypedKept
<1>7. /\ n.op = op /\ n.at = at /\ n.todo = <<>> /\ n.arg = arg /\ n.on = on
      /\ n.id = requests + 1
  OBVIOUS
<1> HIDE DEF n
<1>8. Begins(w) BY <1>0, <1>1, <1>7 DEF Begins
<1> QED BY <1>1, <1>6, <1>8 DEF Step

LEMMA RequestBegins ==
    ASSUME Typed, NEW w \in Worker, RequestsNext(w)
    PROVE  Typed' /\ Step(w)
<1>0. cache' = cache /\ requests \in Nat /\ requests + 1 \in 1..(requests + 1)
  BY TableConstants DEF RequestsNext, Typed
<1>1. ASSUME NEW op \in Resolvers \cup {"register"}, NEW s \in Identity, NEW names,
             names = {} \/ \E x \in Name : names = {x},
             op = "register" => names # {}, NEW at,
             at = IF op = "register" THEN "find" ELSE "resolve",
             Begin(w, op, {Self(s)} \cup {UserName(x) : x \in names}, <<s, names>>, at)
      PROVE  Typed' /\ Step(w)
  <2> DEFINE on == {Self(s)} \cup {UserName(x) : x \in names}
             n == [op |-> op, at |-> at, id |-> requests + 1, on |-> on, arg |-> <<s, names>>,
                   todo |-> <<>>]
  <2>1. /\ n.op = op /\ n.at = at /\ n.todo = <<>> /\ n.arg = <<s, names>> /\ n.on = on
        /\ n.id = requests + 1 /\ n.arg[1] = s /\ n.arg[2] = names
        /\ at \in {"find", "resolve"}
    BY <1>1
  <2> HIDE DEF n
  <2>2. op # "remove" BY DEF Resolvers
  <2>3. GoodRequest(n, requests + 1)
    BY <1>0, <1>1, <2>1, <2>2, NoPlan DEF GoodRequest, Early, Resolvers
  <2> QED BY <1>0, <1>1, <2>1, <2>3, BeginStep DEF n, Resolvers
<1>2. CASE \E s \in Identity : TouchAccount(w, s) \/ UpdateBio(w, s) \/ DeleteMe(w, s)
  <2>1. PICK s \in Identity, op \in Resolvers : Begin(w, op, {Self(s)}, <<s, {}>>, "resolve")
    BY <1>2 DEF TouchAccount, UpdateBio, DeleteMe, Resolvers
  <2>2. {Self(s)} = {Self(s)} \cup {UserName(x) : x \in {}} OBVIOUS
  <2> QED BY <1>1, <2>1, <2>2 DEF Resolvers
<1>3. CASE \E s \in Identity, x \in Name : UpdateMe(w, s, x)
  <2>1. PICK s \in Identity, x \in Name :
           Begin(w, "edit", {Self(s), UserName(x)}, <<s, {x}>>, "resolve")
    BY <1>3 DEF UpdateMe
  <2>2. {Self(s), UserName(x)} = {Self(s)} \cup {UserName(y) : y \in {x}} OBVIOUS
  <2> QED BY <1>1, <2>1, <2>2 DEF Resolvers
<1>4. CASE \E s \in Identity, x \in Name : RegisterUser(w, s, x)
  <2>1. PICK s \in Identity, x \in Name :
           Begin(w, "register", {Self(s), UserName(x)}, <<s, {x}>>, "find")
    BY <1>4 DEF RegisterUser
  <2>2. {Self(s), UserName(x)} = {Self(s)} \cup {UserName(y) : y \in {x}} OBVIOUS
  <2> QED BY <1>1, <2>1, <2>2 DEF Resolvers
<1>5. CASE \E s \in Identity : \E id \in AccountsOf(s) : AdminDeleteUser(w, id)
  <2>0. PICK s \in Identity : \E id \in AccountsOf(s) : AdminDeleteUser(w, id) BY <1>5
  <2>1. PICK id \in AccountsOf(s) : AdminDeleteUser(w, id) BY <2>0
  <2>2. items[Account(id)].sub = s BY <2>1 DEF AccountsOf
  <2>3. Begin(w, "remove", {Self(s)}, <<s, {}, id>>, "serve") BY <2>1, <2>2 DEF AdminDeleteUser
  <2> DEFINE n == [op |-> "remove", at |-> "serve", id |-> requests + 1, on |-> {Self(s)},
                   arg |-> <<s, {}, id>>, todo |-> <<>>]
  <2>4. /\ n.op = "remove" /\ n.at = "serve" /\ n.todo = <<>> /\ n.on = {Self(s)}
        /\ n.id = requests + 1 /\ n.arg[1] = s /\ n.arg[2] = {}
    OBVIOUS
  <2>5. {Self(s)} = {Self(s)} \cup {UserName(x) : x \in {}} OBVIOUS
  <2> HIDE DEF n
  <2>7. n.arg[3] \in AccountsOf(n.arg[1]) /\ n.arg[3] # NoAccount
    BY <2>1 DEF n, AccountsOf, Accounts, AccountIds, Provisional, NoAccount
  <2>6. GoodRequest(n, requests + 1)
    BY <1>0, <2>4, <2>5, <2>7, NoPlan DEF GoodRequest, Early, Resolvers
  <2>8. <<s, {}, id>>[3] \in AccountsOf(<<s, {}, id>>[1]) BY <2>1
  <2> QED BY <1>0, <2>3, <2>6, <2>8, BeginStep DEF n
<1> QED BY <1>2, <1>3, <1>4, <1>5 DEF RequestsNext

\* A step of a request that reads, and one that ends it.
LEMMA ReadStep ==
    ASSUME Typed, NEW w \in Worker, CallsOK', \A v \in Worker \ {w} : call'[v] = call[v],
           Known', requests' = requests,
           call[w].op # "idle", call'[w].op = call[w].op, call'[w].id = call[w].id,
           GoodRequest(call'[w], requests),
           Reads(w) \/ Provisions(w) \/ Plans(w),
           \A id : Has(Account(id))' => Row(items'[Account(id)])
    PROVE  Typed' /\ Step(w)
<1>1. Typed' BY TypedKept
<1> QED BY <1>1 DEF Step

LEMMA EndStep ==
    ASSUME Typed, NEW w \in Worker, CallsOK', \A v \in Worker \ {w} : call'[v] = call[v],
           Known', call'[w] = Idle, requests' = requests, items' = items, shared' = shared,
           \A v \in Worker, t \in Identity : cache'[v][t] \in {cache[v][t], NoAccount}
    PROVE  Typed' /\ Step(w)
<1>1. \A id : Has(Account(id))' => Row(items'[Account(id)]) BY DEF Typed, Has
<1>2. Typed' BY <1>1, IdleCall, TypedKept
<1>3. Finishes(w) BY DEF Finishes, Known
<1> QED BY <1>2, <1>3 DEF Step

LEMMA AnswerStep ==
    ASSUME Typed, NEW w \in Worker, call[w].op # "idle", Answer(w), cache' = cache
    PROVE  Typed' /\ Step(w)
<1>0. CallsOK /\ Known /\ Known' BY DEF Typed, Known
<1>1. /\ CallsOK' /\ call'[w] = Idle /\ \A v \in Worker \ {w} : call'[v] = call[v]
      /\ items' = items /\ requests' = requests /\ shared' = shared
  BY <1>0, AnswerFacts
<1> QED BY <1>0, <1>1, EndStep

LEMMA KeepsCache == ASSUME Known, cache' = cache PROVE Known'
BY DEF Known

LEMMA Remembers ==
    ASSUME Known, NEW w \in Worker, NEW s \in Identity, NEW id, Remember(w, s, id)
    PROVE  Known' /\ Learns(w, s, id)
<1>1. cache' = [v \in Worker |-> [t \in Identity |->
                   IF v = w /\ t = s THEN id ELSE cache[v][t]]]
  BY DEF Known, Remember
<1>2. /\ \A v \in Worker, t \in Identity :
            cache'[v][t] = IF v = w /\ t = s THEN id ELSE cache[v][t]
  BY <1>1
<1>3. cache' = [v \in Worker |-> [t \in Identity |-> cache'[v][t]]] BY <1>1
<1> QED BY <1>2, <1>3 DEF Known, Learns

LEMMA LearnsNothing ==
    ASSUME Known, cache' = cache, NEW w, NEW s, NEW id
    PROVE  Learns(w, s, id)
BY DEF Known, Learns

-----------------------------------------------------------------------------
(* Which account the caller has.                                           *)

LEMMA AccountKinds ==
    /\ \A s : Provisional(s) # NoAccount
    /\ NoAccount \notin AccountIds
    /\ \A s \in Identity : Provisional(s) \in AccountIds
BY DEF Provisional, NoAccount, AccountIds

LEMMA OneOfThem ==
    ASSUME NEW ids, NEW id \in OneOf(ids), ids \subseteq AccountIds
    PROVE  IF id = NoAccount THEN ids = {} ELSE id \in ids
BY AccountKinds DEF OneOf

LEMMA TheNameOf == ASSUME NEW w, NEW x, Wanted(w) = {x} PROVE TheName(w) = x
BY DEF TheName

\* A call with other arguments.
ArgCall(k, y, at) ==
    [op |-> k.op, at |-> at, id |-> k.id, on |-> k.on, arg |-> y, todo |-> k.todo]

ArgChanged(k, y, at) == [k EXCEPT !.arg = y, !.at = at]

LEMMA ArgOf ==
    ASSUME NEW k, Shaped(k), NEW y, NEW at
    PROVE  ArgCall(k, y, at) = ArgChanged(k, y, at)
<1>1. PICK n : n = [k EXCEPT !.arg = y, !.at = at] OBVIOUS
<1>2. n = ArgCall(k, y, at) BY <1>1, ShapedArg DEF ArgCall
<1> QED BY <1>1, <1>2 DEF ArgChanged

LEMMA ArgFacts ==
    ASSUME CallsOK, NEW w \in Worker, NEW n, NEW y, NEW at, call[w].op # "idle",
           n = ArgCall(call[w], y, at), call' = [call EXCEPT ![w] = n]
    PROVE  /\ CallsOK' /\ call'[w] = n
           /\ \A v \in Worker \ {w} : call'[v] = call[v]
<1>1. Shaped(call[w]) /\ Sequence(call[w].todo) BY DEF CallsOK
<1>2. Shaped(n) /\ n.todo = call[w].todo /\ n.op = call[w].op BY DEF Shaped, ArgCall
<1>3. Only(w, n) BY OnlyCalls
<1> QED BY <1>1, <1>2, <1>3, CallsKept

LEMMA Joined ==
    ASSUME NEW s, NEW a, NEW b, s = <<a, b>>, NEW c, NEW d
    PROVE  LET t == s \o <<c, d>>
           IN  t[1] = a /\ t[2] = b /\ t[3] = c /\ t[4] = d
<1> DEFINE R == {a, b, c, d}
           u == <<c, d>>
<1>1. s \in Seq(R) /\ Len(s) = 2 /\ s[1] = a /\ s[2] = b OBVIOUS
<1>2. u \in Seq(R) /\ Len(u) = 2 /\ u[1] = c /\ u[2] = d OBVIOUS
<1> HIDE DEF u, R
<1>3. /\ (s \o u)[1] = s[1] /\ (s \o u)[2] = s[2]
      /\ (s \o u)[3] = u[1] /\ (s \o u)[4] = u[2]
  BY <1>1, <1>2
<1> QED BY <1>1, <1>2, <1>3 DEF u

Serves(w, id) == call' = [call EXCEPT ![w].arg = Append(@, id), ![w].at = "serve"]

\* A request that has resolved an account has its arguments in place.
LEMMA Resolves ==
    ASSUME Typed, NEW w \in Worker, call[w].op \in Resolvers, call[w].at \in Early,
           NEW id, id # NoAccount, Serves(w, id)
    PROVE  LET k == call[w]
               n == call'[w]
           IN  /\ CallsOK' /\ \A v \in Worker \ {w} : call'[v] = call[v]
               /\ n.op = k.op /\ n.id = k.id /\ n.on = k.on /\ n.at = "serve"
               /\ n.arg[1] = k.arg[1] /\ n.arg[2] = k.arg[2] /\ n.arg[3] = id
               /\ k.todo = <<>> /\ n.todo = <<>>
               /\ GoodRequest(n, requests)
<1> DEFINE k == call[w]
           n == call'[w]
<1>0. CallsOK /\ k.op # "idle" /\ k.op \notin {"register", "remove", "idle"}
  BY DEF Typed, Resolvers
<1>1. GoodRequest(k, requests) BY <1>0 DEF Typed
<1>2. k.arg = <<k.arg[1], k.arg[2]>> /\ k.todo = <<>> BY <1>1 DEF GoodRequest, Early
<1>8. PICK y : y = Append(k.arg, id) OBVIOUS
<1>9. PICK m : m = ArgCall(k, y, "serve") OBVIOUS
<1>7. call' = [call EXCEPT ![w] = m]
  <2>1. Shaped(k) BY <1>0 DEF CallsOK
  <2>2. m = ArgChanged(k, y, "serve") BY <1>9, <2>1, ArgOf
  <2> QED BY <1>0, <1>8, <2>2 DEF CallsOK, Serves, ArgChanged
<1>3. CallsOK' /\ n = m /\ \A v \in Worker \ {w} : call'[v] = call[v]
  BY <1>0, <1>7, <1>9, ArgFacts
<1>4. n.op = k.op /\ n.id = k.id /\ n.on = k.on /\ n.at = "serve" /\ n.todo = <<>>
      /\ n.arg = Append(k.arg, id)
  BY <1>2, <1>3, <1>8, <1>9 DEF ArgCall
<1>5. n.arg[1] = k.arg[1] /\ n.arg[2] = k.arg[2] /\ n.arg[3] = id
  BY <1>2, <1>4, AppendTwo
<1>6. GoodRequest(n, requests) BY <1>0, <1>1, <1>4, <1>5, NoPlan DEF GoodRequest, Early
<1> QED BY <1>2, <1>3, <1>4, <1>5, <1>6

LEMMA CallGoesOn ==
    ASSUME Typed, NEW w \in Worker, call[w].op # "idle", call[w].todo = <<>>,
           NEW at, at \notin {"done", "find"}, Goto(w, at),
           call[w].op # "register",
           at \in Early <=> call[w].at \in Early,
           cache' = cache
    PROVE  LET k == call[w]
               n == call'[w]
           IN  /\ CallsOK' /\ Known' /\ \A v \in Worker \ {w} : call'[v] = call[v]
               /\ items' = items /\ requests' = requests /\ shared' = shared
               /\ n.op = k.op /\ n.id = k.id /\ n.on = k.on /\ n.at = at /\ n.arg = k.arg
               /\ n.todo = <<>>
               /\ GoodRequest(n, requests)
<1> DEFINE k == call[w]
           n == call'[w]
<1>0. CallsOK /\ Known' BY KeepsCache DEF Typed
<1>1. GoodRequest(k, requests) BY DEF Typed
<1>2. /\ CallsOK' /\ n = With(k, <<>>, at) /\ \A v \in Worker \ {w} : call'[v] = call[v]
      /\ items' = items /\ requests' = requests /\ shared' = shared
  BY <1>0, GotoFacts
<1>3. /\ n.op = k.op /\ n.id = k.id /\ n.on = k.on /\ n.at = at /\ n.arg = k.arg
      /\ n.todo = <<>>
  BY <1>2 DEF With
<1>4. GoodRequest(n, requests) BY <1>1, <1>3, NoPlan DEF GoodRequest
<1> QED BY <1>0, <1>2, <1>3, <1>4

LEMMA RowsSame == ASSUME Typed, items' = items
                  PROVE  \A id : Has(Account(id))' => Row(items'[Account(id)])
BY DEF Typed, Has

LEMMA ResolveStep ==
    ASSUME Typed, NEW w \in Worker, ResolveUserId(w)
    PROVE  Typed' /\ Step(w)
<1> DEFINE k == call[w]
           n == call'[w]
           s == k.arg[1]
<1>1. k.op \in Resolvers /\ k.at = "resolve" /\ k.todo = <<>> /\ k.at \in Early
      /\ k.op # "idle" /\ k.op # "register"
  BY DEF ResolveUserId, Calls, At, Resolvers, Early
<1>2. Known /\ s \in Identity BY <1>1 DEF Typed, GoodRequest
<1>3. ASSUME NEW id, Keep(w, id, "serve"),
             (id # NoAccount /\ id = cache[w][s]) \/ id \in AccountsOf(s), id # NoAccount,
             cache' = cache \/ Remember(w, s, id)
      PROVE  Typed' /\ Step(w)
  <2>1. Known' /\ Learns(w, s, id) BY <1>2, <1>3, KeepsCache, LearnsNothing, Remembers
  <2>2. /\ CallsOK' /\ \A v \in Worker \ {w} : call'[v] = call[v]
        /\ items' = items /\ requests' = requests /\ shared' = shared
        /\ n.op = k.op /\ n.id = k.id /\ n.on = k.on /\ n.at = "serve"
        /\ n.arg[1] = k.arg[1] /\ n.arg[2] = k.arg[2] /\ n.arg[3] = id
        /\ k.todo = <<>> /\ n.todo = <<>>
        /\ GoodRequest(n, requests)
    BY <1>1, <1>3, Resolves DEF Keep, Serves
  <2>3. Reads(w) BY <1>1, <1>3, <2>1, <2>2 DEF Reads
  <2> QED BY <1>1, <2>1, <2>2, <2>3, RowsSame, ReadStep
<1>4. ASSUME AccountsOf(s) = {}, Goto(w, "provision"), cache' = cache
      PROVE  Typed' /\ Step(w)
  <2>1. /\ CallsOK' /\ Known' /\ \A v \in Worker \ {w} : call'[v] = call[v]
        /\ items' = items /\ requests' = requests /\ shared' = shared
        /\ n.op = k.op /\ n.id = k.id /\ n.on = k.on /\ n.at = "provision" /\ n.arg = k.arg
        /\ n.todo = <<>>
        /\ GoodRequest(n, requests)
    BY <1>1, <1>4, CallGoesOn DEF Early
  <2>2. Reads(w) BY <1>1, <1>4, <2>1 DEF Reads
  <2> QED BY <1>1, <2>1, <2>2, RowsSame, ReadStep
<1>5. \/ \E id : /\ Keep(w, id, "serve")
                 /\ (id # NoAccount /\ id = cache[w][s]) \/ id \in AccountsOf(s)
                 /\ id # NoAccount
                 /\ cache' = cache \/ Remember(w, s, id)
      \/ AccountsOf(s) = {} /\ Goto(w, "provision") /\ cache' = cache
  <2>1. AccountsOf(s) \subseteq AccountIds BY DEF AccountsOf, Accounts
  <2>2. CASE cache[w][s] # NoAccount
    BY <2>2 DEF ResolveUserId, Caller, AccountArg
  <2>3. CASE cache[w][s] = NoAccount
    <3>1. PICK id \in OneOf(AccountsOf(s)) :
             IF id # NoAccount THEN Keep(w, id, "serve") /\ Remember(w, s, id)
             ELSE Goto(w, "provision") /\ UNCHANGED cache
      BY <2>3 DEF ResolveUserId, Caller, AccountArg
    <3> QED BY <2>1, <3>1, OneOfThem
  <2> QED BY <2>2, <2>3
<1> QED BY <1>3, <1>4, <1>5

\* The rows after one of them is put.
LEMMA RowAfter ==
    ASSUME Typed, NEW id, NEW r, Row(r),
           items' = After(Put(Account(id), r)) \/ items' = After(PutNew(Account(id), r))
    PROVE  \A i : Has(Account(i))' => Row(items'[Account(i)])
<1> SUFFICES ASSUME NEW i, Has(Account(i))' PROVE Row(items'[Account(i)]) OBVIOUS
<1> DEFINE key == Account(i)
<1>1. \/ items'[key] = r
      \/ Has(key) /\ items'[key] = items[key]
  <2>1. CASE items' = After(Put(Account(id), r))
    <3> DEFINE z == Put(Account(id), r)
    <3>1. z.do = "put" /\ z.key = Account(id) /\ z.val = r BY DEF Put
    <3> HIDE DEF z, key
    <3>2. /\ DOMAIN items' = DOMAIN items \cup {z.key} /\ items'[z.key] = z.val
          /\ \A x \in DOMAIN items \ {z.key} : items'[x] = items[x]
      BY <2>1, <3>1, PutFacts DEF z
    <3> QED BY <3>1, <3>2 DEF Has, key
  <2>2. CASE items' = After(PutNew(Account(id), r))
    <3> DEFINE z == PutNew(Account(id), r)
    <3>1. z.do = "putNew" /\ z.key = Account(id) /\ z.val = r BY DEF PutNew
    <3> HIDE DEF z, key
    <3>2. /\ z.key \in DOMAIN items => items' = items
          /\ z.key \notin DOMAIN items =>
               /\ DOMAIN items' = DOMAIN items \cup {z.key} /\ items'[z.key] = z.val
               /\ \A x \in DOMAIN items : items'[x] = items[x]
      BY <2>2, <3>1, PutNewFacts DEF z
    <3> QED BY <3>1, <3>2 DEF Has, key
  <2> QED BY <2>1, <2>2
<1> QED BY <1>1 DEF Typed

-----------------------------------------------------------------------------
(* Placeholders, settings.                                                 *)

LEMMA ProvisionStep ==
    ASSUME Typed, NEW w \in Worker, ProvisionUser(w)
    PROVE  Typed' /\ Step(w)
<1> DEFINE k == call[w]
           n == call'[w]
           s == k.arg[1]
           id == Provisional(s)
           key == Account(id)
<1>1. k.op \in Resolvers /\ k.at \in {"provision", "fetch"} /\ k.todo = <<>> /\ k.at \in Early
      /\ k.op # "idle" /\ k.op # "register"
  BY DEF ProvisionUser, Calls, At, Resolvers, Early
<1>2. Known /\ s \in Identity BY <1>1 DEF Typed, GoodRequest
<1>3. Caller(w) = s /\ ProvisionalUserId(w, s) = id /\ id # NoAccount
  BY AccountKinds DEF Caller, AccountArg, ProvisionalUserId
<1>4. CASE k.at = "provision" /\ Has(key)
  <2>1. Goto(w, "fetch") /\ cache' = cache
    BY <1>3, <1>4 DEF ProvisionUser, Calls, At
  <2>2. /\ CallsOK' /\ Known' /\ \A v \in Worker \ {w} : call'[v] = call[v]
        /\ items' = items /\ requests' = requests /\ shared' = shared
        /\ n.op = k.op /\ n.id = k.id /\ n.on = k.on /\ n.at = "fetch" /\ n.arg = k.arg
        /\ n.todo = <<>>
        /\ GoodRequest(n, requests)
    BY <1>1, <2>1, CallGoesOn DEF Early
  <2>3. Reads(w) BY <1>1, <1>4, <2>1, <2>2 DEF Reads
  <2> QED BY <1>1, <2>2, <2>3, RowsSame, ReadStep
<1>5. CASE k.at = "provision" /\ ~Has(key)
  <2> DEFINE r == Placeholder(s)
  <2>1. /\ items' = After(PutNew(key, r))
        /\ Serves(w, id)
        /\ requests' = requests /\ shared' = shared
        /\ Remember(w, s, id)
    BY <1>3, <1>5 DEF ProvisionUser, Calls, At, Serves
  <2>2. /\ CallsOK' /\ \A v \in Worker \ {w} : call'[v] = call[v]
        /\ n.op = k.op /\ n.id = k.id /\ n.on = k.on /\ n.at = "serve"
        /\ n.arg[1] = k.arg[1] /\ n.arg[2] = k.arg[2] /\ n.arg[3] = id
        /\ k.todo = <<>> /\ n.todo = <<>>
        /\ GoodRequest(n, requests)
    BY <1>1, <1>3, <2>1, Resolves
  <2>3. Known' /\ Learns(w, s, id) BY <1>2, <2>1, Remembers
  <2>4. Row(r) BY <1>2 DEF Row, Placeholder
  <2>5. Provisions(w) BY <1>1, <1>5, <2>1, <2>2, <2>3 DEF Provisions
  <2> HIDE DEF r
  <2>6. \A i : Has(Account(i))' => Row(items'[Account(i)]) BY <2>1, <2>4, RowAfter
  <2> QED BY <1>1, <2>1, <2>2, <2>3, <2>5, <2>6, ReadStep
<1>6. CASE k.at = "fetch" /\ Has(key)
  <2>1. Keep(w, id, "serve") /\ Remember(w, s, id)
    BY <1>3, <1>6 DEF ProvisionUser, Calls, At
  <2>2. /\ CallsOK' /\ \A v \in Worker \ {w} : call'[v] = call[v]
        /\ items' = items /\ requests' = requests /\ shared' = shared
        /\ n.op = k.op /\ n.id = k.id /\ n.on = k.on /\ n.at = "serve"
        /\ n.arg[1] = k.arg[1] /\ n.arg[2] = k.arg[2] /\ n.arg[3] = id
        /\ k.todo = <<>> /\ n.todo = <<>>
        /\ GoodRequest(n, requests)
    BY <1>1, <1>3, <2>1, Resolves DEF Keep, Serves
  <2>3. Known' /\ Learns(w, s, id) BY <1>2, <2>1, Remembers
  <2>4. Reads(w) BY <1>1, <1>6, <2>2, <2>3 DEF Reads
  <2> QED BY <1>1, <2>2, <2>3, <2>4, RowsSame, ReadStep
<1>7. CASE k.at = "fetch" /\ ~Has(key)
  <2>1. Answer(w) /\ cache' = cache
    BY <1>3, <1>7 DEF ProvisionUser, Calls, At
  <2> QED BY <1>1, <2>1, AnswerStep
<1> QED BY <1>1, <1>4, <1>5, <1>6, <1>7

\* A request plans its writes.
LEMMA Planning ==
    ASSUME Typed, NEW w \in Worker, call[w].op # "idle", call[w].todo = <<>>,
           NEW todo, NEW at, Sequence(todo), todo # <<>>, Proceed(w, todo, at),
           GoodRequest(With(call[w], todo, at), requests), cache' = cache
    PROVE  LET k == call[w]
               n == call'[w]
           IN  /\ n.op = k.op /\ n.id = k.id /\ n.on = k.on /\ n.at = at /\ n.arg = k.arg
               /\ n.todo = todo
               /\ items' = items /\ requests' = requests /\ shared' = shared
               /\ Plans(w) => Typed' /\ Step(w)
<1> DEFINE k == call[w]
           n == call'[w]
<1>0. CallsOK /\ Known' BY KeepsCache DEF Typed
<1>1. Shaped(k) BY <1>0 DEF CallsOK
<1>2. /\ CallsOK' /\ n = With(k, todo, at) /\ \A v \in Worker \ {w} : call'[v] = call[v]
      /\ items' = items /\ requests' = requests /\ shared' = shared
  BY <1>0, <1>1, ProceedFacts, OnwardWith
<1>3. /\ n.op = k.op /\ n.id = k.id /\ n.on = k.on /\ n.at = at /\ n.arg = k.arg
      /\ n.todo = todo
  BY <1>2 DEF With
<1>4. GoodRequest(n, requests) BY <1>2
<1>5. ASSUME Plans(w) PROVE Typed' /\ Step(w)
  BY <1>0, <1>2, <1>3, <1>4, <1>5, RowsSame, ReadStep
<1> QED BY <1>2, <1>3, <1>5

LEMMA WithFields ==
    ASSUME NEW k, NEW todo, NEW at
    PROVE  LET n == With(k, todo, at)
           IN  /\ n.op = k.op /\ n.id = k.id /\ n.on = k.on /\ n.at = at /\ n.arg = k.arg
               /\ n.todo = todo
BY DEF With

LEMMA SettingsStep ==
    ASSUME Typed, NEW w \in Worker, SaveSettings(w)
    PROVE  Typed' /\ Step(w)
<1> DEFINE k == call[w]
<1>1. k.op = "touch" /\ k.op # "idle" /\ k.at = "serve" /\ k.at \notin Early /\ k.todo = <<>>
      /\ cache' = cache
  BY DEF SaveSettings, At, Early
<1>2. CASE Answer(w) BY <1>1, <1>2, AnswerStep
<1>3. CASE ~Answer(w)
  <2>0. PICK z : z = Put(UserSettings(Resolved(w)), TRUE) OBVIOUS
  <2> DEFINE todo == <<{z}>>
             n == With(k, todo, "done")
  <2>1. Plan(w, todo) BY <1>3, <2>0 DEF SaveSettings
  <2>2. Sequence(todo) /\ Planned(todo) = {z} /\ todo # <<>> BY OneSet
  <2> HIDE DEF todo
  <2>3. /\ n.op = k.op /\ n.id = k.id /\ n.on = k.on /\ n.at = "done" /\ n.arg = k.arg
        /\ n.todo = todo
    BY WithFields
  <2> HIDE DEF n
  <2>4. GoodRequest(k, requests) BY <1>1 DEF Typed
  <2>5. z = Put(UserSettings(k.arg[3]), TRUE) BY <2>0 DEF Resolved, AccountArg
  <2>6. Planned(n.todo) \subseteq {Put(UserSettings(n.arg[3]), TRUE)}
    BY <2>2, <2>3, <2>5
  <2>7. GoodRequest(n, requests)
    BY <1>1, <2>3, <2>4, <2>6 DEF GoodRequest, Early
  <2>8. LET m == call'[w]
        IN  /\ m.op = k.op /\ m.id = k.id /\ m.on = k.on /\ m.at = "done" /\ m.arg = k.arg
            /\ m.todo = todo
            /\ items' = items /\ requests' = requests /\ shared' = shared
            /\ Plans(w) => Typed' /\ Step(w)
    BY <1>1, <2>1, <2>2, <2>7, Planning DEF Plan, n
  <2>9. Plans(w) BY <1>1, <2>2, <2>8 DEF Plans
  <2> QED BY <2>8, <2>9
<1> QED BY <1>2, <1>3

-----------------------------------------------------------------------------
(* Edits.                                                                  *)

LEMMA Named ==
    ASSUME NEW w, NEW id, NEW x, Wanted(w) = {x},
           NEW taken \in OneOf(AccountsNamed(TheName(w))), MayTake(id, taken)
    PROVE  AccountsNamed(x) = {} \/ id \in AccountsNamed(x)
<1>1. TheName(w) = x BY TheNameOf
<1>2. AccountsNamed(x) \subseteq AccountIds BY DEF AccountsNamed, Accounts
<1> QED BY <1>1, <1>2, OneOfThem DEF MayTake

\* The identity whose account a request has resolved.
LEMMA OwnerOf ==
    ASSUME Typed, Owned, NEW w \in Worker, call[w].op # "idle", call[w].at \notin Early,
           call[w].arg[3] # NoAccount, Has(Account(call[w].arg[3]))
    PROVE  items[Account(call[w].arg[3])].sub = call[w].arg[1]
<1> DEFINE k == call[w]
           id == k.arg[3]
<1>1. GoodRequest(k, requests) BY DEF Typed
<1>2. k.arg[1] \in Identity /\ items[Account(id)].sub \in Identity
  BY <1>1 DEF GoodRequest, Typed, Row
<1>3. Claims(id, k.arg[1]) /\ Claims(id, items[Account(id)].sub) BY DEF Claims, Ids
<1> QED BY <1>2, <1>3 DEF Owned

LEMMA EditStep ==
    ASSUME Typed, Owned, NEW w \in Worker, EditAccount(w)
    PROVE  Typed' /\ Step(w)
<1> DEFINE k == call[w]
           id == k.arg[3]
           old == items[Account(id)]
<1>1. /\ k.op = "edit" /\ k.op # "idle" /\ k.op # "register" /\ k.at \notin Early /\ k.todo = <<>>
      /\ k.at \in {"serve", "read"} /\ cache' = cache
  BY DEF EditAccount, At, Early
<1>2. GoodRequest(k, requests) BY <1>1 DEF Typed
<1>3. /\ Resolved(w) = id /\ Wanted(w) = k.arg[2] /\ id # NoAccount
      /\ k.arg[2] = {} \/ \E x \in Name : k.arg[2] = {x}
  BY <1>1, <1>2 DEF Resolved, Wanted, AccountArg, GoodRequest
<1>4. CASE Answer(w) BY <1>1, <1>4, AnswerStep
<1>5. CASE k.at = "serve" /\ ~Answer(w)
  <2> DEFINE n == call'[w]
  <2>1. /\ Goto(w, "read")
        /\ \/ Wanted(w) = {}
           \/ \E taken \in OneOf(AccountsNamed(TheName(w))) : MayTake(Resolved(w), taken)
    BY <1>5 DEF EditAccount, At
  <2>2. \A x : k.arg[2] = {x} => AccountsNamed(x) = {} \/ id \in AccountsNamed(x)
    BY <1>3, <2>1, Named
  <2>3. "read" \notin Early BY DEF Early
  <2>4. /\ CallsOK' /\ Known' /\ \A v \in Worker \ {w} : call'[v] = call[v]
        /\ items' = items /\ requests' = requests /\ shared' = shared
        /\ n.op = k.op /\ n.id = k.id /\ n.on = k.on /\ n.at = "read" /\ n.arg = k.arg
        /\ n.todo = <<>>
        /\ GoodRequest(n, requests)
    BY <1>1, <2>1, <2>3, CallGoesOn
  <2>5. Reads(w) BY <1>1, <1>5, <2>2, <2>4 DEF Reads
  <2> QED BY <1>1, <2>4, <2>5, RowsSame, ReadStep
<1>6. CASE k.at = "read" /\ ~Answer(w)
  <2>1. /\ Has(Account(id))
        /\ \E display \in BOOLEAN :
              Plan(w, <<{Put(Account(id),
                 [old EXCEPT !.registered = @ \/ display,
                             !.name = IF Wanted(w) = {} THEN @ ELSE TheName(w)])}>>)
    BY <1>3, <1>6 DEF EditAccount, At
  <2>4. Row(old) BY <2>1 DEF Typed
  <2>16. PICK display : 
           Plan(w, <<{Put(Account(id),
                 [old EXCEPT !.registered = @ \/ display,
                             !.name = IF Wanted(w) = {} THEN @ ELSE TheName(w)])}>>)
    BY <2>1
  <2>17. PICK reg : reg = (old.registered \/ display) OBVIOUS
  <2>18. PICK x : x = IF Wanted(w) = {} THEN old.name ELSE TheName(w) OBVIOUS
  <2>19. \E r : /\ r = [old EXCEPT !.registered = @ \/ display,
                                   !.name = IF Wanted(w) = {} THEN @ ELSE TheName(w)]
                /\ Plan(w, <<{Put(Account(id), r)}>>)
    <3> WITNESS [old EXCEPT !.registered = @ \/ display,
                            !.name = IF Wanted(w) = {} THEN @ ELSE TheName(w)]
    <3> QED BY <2>16
  <2>21. PICK r : /\ r = [old EXCEPT !.registered = @ \/ display,
                                   !.name = IF Wanted(w) = {} THEN @ ELSE TheName(w)]
                /\ Plan(w, <<{Put(Account(id), r)}>>)
    BY <2>19
  <2>20. r = [old EXCEPT !.registered = reg, !.name = x]
     BY <2>4, <2>17, <2>18, <2>21 DEF Row
  <2>2. /\ Plan(w, <<{Put(Account(id), r)}>>)
        /\ x = IF Wanted(w) = {} THEN old.name ELSE TheName(w)
    BY <2>18, <2>21
  <2>3. PICK o : o = old OBVIOUS
  <2>22. Row(o) /\ r = [o EXCEPT !.registered = reg, !.name = x] BY <2>3, <2>20, <2>4
  <2>5. Row(r) /\ r.sub = old.sub /\ r.name = x BY <2>3, <2>22 DEF Row
  <2>6. r.sub = k.arg[1] BY <1>1, <1>3, <2>1, <2>5, OwnerOf
  <2>7. (k.arg[2] = {} /\ r.name = old.name) \/ r.name \in k.arg[2]
    BY <1>3, <2>2, <2>5, TheNameOf
  <2>8. PICK todo : todo = <<{Put(Account(id), r)}>> OBVIOUS
  <2>9. Sequence(todo) /\ todo # <<>> BY <2>8, OneSet
  <2> DEFINE m == With(k, todo, "done")
  <2>10. /\ m.op = k.op /\ m.id = k.id /\ m.on = k.on /\ m.at = "done" /\ m.arg = k.arg
         /\ m.todo = todo
    BY WithFields
  <2> HIDE DEF m
  <2>11. PutsAccount(m) BY <1>1, <1>3, <2>5, <2>6, <2>8, <2>10 DEF PutsAccount
  <2>12. GoodRequest(m, requests)
    BY <1>1, <1>2, <2>9, <2>10, <2>11 DEF GoodRequest, Early
  <2>13. Proceed(w, todo, "done") BY <2>2, <2>8 DEF Plan
  <2>14. LET n == call'[w]
         IN  /\ n.op = k.op /\ n.id = k.id /\ n.on = k.on /\ n.at = "done" /\ n.arg = k.arg
             /\ n.todo = todo
             /\ items' = items /\ requests' = requests /\ shared' = shared
             /\ Plans(w) => Typed' /\ Step(w)
    BY <1>1, <2>9, <2>12, <2>13, Planning DEF m
  <2>15. Plans(w) BY <1>1, <1>6, <2>1, <2>7, <2>8, <2>9, <2>14 DEF Plans
  <2> QED BY <2>14, <2>15
<1> QED BY <1>1, <1>4, <1>5, <1>6

-----------------------------------------------------------------------------
(* Registrations.                                                          *)

\* A registration knows who it is.
Finds(w, found, read) ==
    call' = [call EXCEPT ![w].arg = @ \o <<found, read>>, ![w].at = "name"]

LEMMA FindStep ==
    ASSUME Typed, NEW w \in Worker, call[w].op = "register", call[w].at = "find",
           NEW found, NEW read, Finds(w, found, read),
           Row(read), read.sub = call[w].arg[1],
           (found = NoAccount /\ AccountsOf(call[w].arg[1]) = {})
              \/ found \in AccountsOf(call[w].arg[1]),
           items' = items, requests' = requests, shared' = shared, cache' = cache
    PROVE  Typed' /\ Step(w)
<1> DEFINE k == call[w]
           n == call'[w]
<1>0. CallsOK /\ k.op # "idle" /\ Known' /\ k.at \in Early BY KeepsCache DEF Typed, Early
<1>1. GoodRequest(k, requests) BY <1>0 DEF Typed
<1>2. k.arg = <<k.arg[1], k.arg[2]>> /\ k.todo = <<>> BY <1>0, <1>1 DEF GoodRequest
<1>3. PICK y : y = k.arg \o <<found, read>> OBVIOUS
<1>11. PICK a, b : a = k.arg[1] /\ b = k.arg[2] OBVIOUS
<1>12. y = <<a, b>> \o <<found, read>> BY <1>2, <1>3, <1>11
<1>14. y[1] = a /\ y[2] = b /\ y[3] = found /\ y[4] = read BY <1>12, Joined
<1>4. y[1] = k.arg[1] /\ y[2] = k.arg[2] /\ y[3] = found /\ y[4] = read
  BY <1>11, <1>14
<1>5. PICK m : m = ArgCall(k, y, "name") OBVIOUS
<1>6. call' = [call EXCEPT ![w] = m]
  <2>1. Shaped(k) BY <1>0 DEF CallsOK
  <2>2. m = ArgChanged(k, y, "name") BY <1>5, <2>1, ArgOf
  <2> QED BY <1>0, <1>3, <2>2 DEF CallsOK, Finds, ArgChanged
<1>7. CallsOK' /\ n = m /\ \A v \in Worker \ {w} : call'[v] = call[v]
  BY <1>0, <1>5, <1>6, ArgFacts
<1>8. n.op = k.op /\ n.id = k.id /\ n.on = k.on /\ n.at = "name" /\ n.todo = <<>> /\ n.arg = y
  BY <1>2, <1>5, <1>7 DEF ArgCall
<1>9. n.op = "register" /\ n.op \notin {"touch", "edit", "leave", "remove"} BY <1>8
<1>10. GoodRequest(n, requests) BY <1>1, <1>4, <1>8, <1>9, NoPlan DEF GoodRequest, Early
<1>13. Reads(w) BY <1>0, <1>2, <1>4, <1>8 DEF Reads
<1> QED BY <1>0, <1>7, <1>8, <1>10, <1>13, RowsSame, ReadStep

LEMMA RegisterStep ==
    ASSUME Typed, NEW w \in Worker, WriteRegistration(w)
    PROVE  Typed' /\ Step(w)
<1> DEFINE k == call[w]
           s == k.arg[1]
           id == k.arg[3]
<1>1. /\ k.op = "register" /\ k.op # "idle" /\ k.todo = <<>>
      /\ k.at \in {"find", "name"} /\ cache' = cache
  BY DEF WriteRegistration, At
<1>2. GoodRequest(k, requests) BY <1>1 DEF Typed
<1>3. /\ Resolved(w) = id /\ Wanted(w) = k.arg[2] /\ Caller(w) = s /\ RowRead(w) = k.arg[4]
      /\ s \in Identity
  BY <1>1, <1>2 DEF Resolved, Wanted, Caller, RowRead, AccountArg, GoodRequest
<1>x. PICK x \in Name : k.arg[2] = {x} BY <1>1, <1>2 DEF GoodRequest
<1>n. TheName(w) = x BY <1>3, <1>x, TheNameOf
<1>4. CASE Answer(w) BY <1>1, <1>4, AnswerStep
<1>5. CASE k.at = "find" /\ ~Answer(w)
  <2>1. PICK found \in OneOf(AccountsOf(s)) :
           LET read == IF found = NoAccount THEN Placeholder(s) ELSE items[Account(found)]
           IN  /\ Finds(w, found, read)
               /\ items' = items /\ requests' = requests /\ shared' = shared
    BY <1>3, <1>5 DEF WriteRegistration, At, Finds
  <2>2. PICK read : read = IF found = NoAccount THEN Placeholder(s) ELSE items[Account(found)]
    OBVIOUS
  <2>3. AccountsOf(s) \subseteq AccountIds BY DEF AccountsOf, Accounts
  <2>4. (found = NoAccount /\ AccountsOf(s) = {}) \/ found \in AccountsOf(s)
    BY <2>3, OneOfThem
  <2>5. Row(read) /\ read.sub = s
    <3>1. CASE found = NoAccount BY <1>3, <2>2, <3>1 DEF Placeholder, Row
    <3>2. CASE found # NoAccount
      BY <2>2, <2>4, <3>2 DEF AccountsOf, Accounts, Typed
    <3> QED BY <3>1, <3>2
  <2>6. Finds(w, found, read) BY <2>1, <2>2
  <2> QED BY <1>1, <1>5, <2>1, <2>4, <2>5, <2>6, FindStep
<1>6. CASE k.at = "name" /\ ~Answer(w)
  <2>1. PICK r : r = [RowRead(w) EXCEPT !.name = TheName(w), !.registered = TRUE] OBVIOUS
  <2>2. PICK taken \in OneOf(AccountsNamed(TheName(w))) :
           /\ MayTake(id, taken)
           /\ IF id = NoAccount THEN Plan(w, <<{PutNew(Account(Drawn(w)), r)}>>)
              ELSE Plan(w, <<{Put(Account(id), r)}>>)
    BY <1>3, <1>6, <2>1 DEF WriteRegistration, At
  <2>3. AccountsNamed(x) = {} \/ id \in AccountsNamed(x) BY <1>3, <1>x, <2>2, Named
  <2>4. PICK old : old = k.arg[4] OBVIOUS
  <2>5. Row(old) /\ old.sub = s BY <1>1, <1>2, <1>6, <2>4 DEF GoodRequest
  <2>17. r = [old EXCEPT !.name = x, !.registered = TRUE] BY <1>3, <1>n, <2>1, <2>4
  <2>6. Row(r) /\ r.sub = s /\ r.name = x BY <2>5, <2>17 DEF Row
  <2>7. PICK z : z = IF id = NoAccount THEN PutNew(Account(DrawnBy(k)), r) ELSE Put(Account(id), r)
    OBVIOUS
  <2>8. PICK todo : todo = <<{z}>> OBVIOUS
  <2>9. Sequence(todo) /\ todo # <<>> BY <2>8, OneSet
  <2> DEFINE m == With(k, todo, "done")
  <2>10. /\ m.op = k.op /\ m.id = k.id /\ m.on = k.on /\ m.at = "done" /\ m.arg = k.arg
         /\ m.todo = todo
    BY WithFields
  <2> HIDE DEF m
  <2>11. PutsAccount(m)
    BY <1>1, <1>x, <2>6, <2>7, <2>8, <2>10 DEF PutsAccount, DrawnBy
  <2>12. m.op \notin {"touch", "edit", "leave", "remove"} BY <1>1, <2>10
  <2>13. GoodRequest(m, requests)
    BY <1>1, <1>2, <2>9, <2>10, <2>11, <2>12 DEF GoodRequest, Early
  <2>14. Proceed(w, todo, "done") BY <2>2, <2>7, <2>8 DEF Plan, Drawn, DrawnBy
  <2>15. LET n == call'[w]
         IN  /\ n.op = k.op /\ n.id = k.id /\ n.on = k.on /\ n.at = "done" /\ n.arg = k.arg
             /\ n.todo = todo
             /\ items' = items /\ requests' = requests /\ shared' = shared
             /\ Plans(w) => Typed' /\ Step(w)
    BY <1>1, <2>9, <2>13, <2>14, Planning DEF m
  <2>16. Plans(w) BY <1>1, <1>6, <1>x, <2>3, <2>9, <2>15 DEF Plans
  <2> QED BY <2>15, <2>16
<1> QED BY <1>1, <1>4, <1>5, <1>6

-----------------------------------------------------------------------------
(* Deletions, writes and crashes; every step.                              *)

LEMMA DeleteStep ==
    ASSUME Typed, NEW w \in Worker, DeleteAccount(w)
    PROVE  Typed' /\ Step(w)
<1> DEFINE k == call[w]
           id == k.arg[3]
<1>1. /\ k.op \in {"leave", "remove"} /\ k.op \notin {"idle", "touch", "edit", "register"}
      /\ k.at \in {"serve", "forget"} /\ k.at \notin Early /\ k.todo = <<>>
  BY DEF DeleteAccount, At, Early
<1>2. GoodRequest(k, requests) BY <1>1 DEF Typed
<1>3. Resolved(w) = id BY DEF Resolved, AccountArg
<1>4. CASE k.op = "leave" /\ k.at = "forget"
  <2>1. Answer(w) /\ Remember(w, Caller(w), NoAccount) BY <1>4 DEF DeleteAccount, At
  <2>2. PICK s \in Identity : Remember(w, s, NoAccount)
    BY <1>2, <2>1 DEF Caller, AccountArg, GoodRequest
  <2>3. CallsOK /\ Known BY DEF Typed
  <2>4. Known' /\ Learns(w, s, NoAccount) BY <2>2, <2>3, Remembers
  <2>5. \A v \in Worker, t \in Identity : cache'[v][t] \in {cache[v][t], NoAccount}
    BY <2>4 DEF Learns
  <2>6. /\ CallsOK' /\ call'[w] = Idle /\ \A v \in Worker \ {w} : call'[v] = call[v]
        /\ items' = items /\ requests' = requests /\ shared' = shared
    BY <1>1, <2>1, <2>3, AnswerFacts
  <2> QED BY <2>4, <2>5, <2>6, EndStep
<1>5. CASE Answer(w) /\ k.at = "serve"
  <2>1. cache' = cache BY <1>5 DEF DeleteAccount, At
  <2> QED BY <1>1, <1>5, <2>1, AnswerStep
<1>6. CASE k.at = "serve" /\ ~Answer(w)
  <2>1. PICK at \in {"forget", "done"} :
           /\ Proceed(w, <<{Delete(Account(id))}, {Delete(UserSettings(id))}>>, at)
           /\ cache' = cache
    BY <1>3, <1>6 DEF DeleteAccount, At, Plan
  <2>2. PICK a, b : a = Delete(Account(id)) /\ b = Delete(UserSettings(id)) OBVIOUS
  <2>3. PICK todo : todo = <<{a}, {b}>> OBVIOUS
  <2>4. Sequence(todo) /\ todo # <<>> /\ Planned(todo) = {a, b} BY <2>3, TwoSets
  <2> DEFINE m == With(k, todo, at)
  <2>5. /\ m.op = k.op /\ m.id = k.id /\ m.on = k.on /\ m.at = at /\ m.arg = k.arg
        /\ m.todo = todo
    BY WithFields
  <2> HIDE DEF m
  <2>6. Planned(m.todo) \subseteq DeleteRows(m.arg[3]) BY <2>2, <2>4, <2>5 DEF DeleteRows
  <2>7. m.at \notin Early /\ m.at \in {"done", "forget"} BY <2>5 DEF Early
  <2>8. GoodRequest(m, requests)
    BY <1>1, <1>2, <2>5, <2>6, <2>7 DEF GoodRequest
  <2>9. Proceed(w, todo, at) BY <2>1, <2>2, <2>3
  <2>10. LET n == call'[w]
         IN  /\ n.op = k.op /\ n.id = k.id /\ n.on = k.on /\ n.at = at /\ n.arg = k.arg
             /\ n.todo = todo
             /\ items' = items /\ requests' = requests /\ shared' = shared
             /\ Plans(w) => Typed' /\ Step(w)
    BY <1>1, <2>1, <2>4, <2>8, <2>9, Planning DEF m
  <2>11. Plans(w) BY <1>1, <2>1, <2>4, <2>10 DEF Plans
  <2> QED BY <2>10, <2>11
<1> QED BY <1>1, <1>4, <1>5, <1>6 DEF DeleteAccount, At

LEMMA CrashStep ==
    ASSUME Typed, NEW w \in Worker, Crash(w), cache' = cache
    PROVE  Typed' /\ Step(w)
<1>0. CallsOK /\ Known /\ Known' BY KeepsCache DEF Typed
<1>1. /\ CallsOK' /\ call'[w] = Idle /\ \A v \in Worker \ {w} : call'[v] = call[v]
      /\ items' = items /\ requests' = requests /\ shared' = shared
  BY <1>0, CrashFacts
<1> QED BY <1>0, <1>1, EndStep

LEMMA ForgetStep ==
    ASSUME Typed, NEW w \in Worker, NEW s \in Identity, ForgetUserId(w, s)
    PROVE  Typed' /\ Step(w)
<1>0. CallsOK /\ Known BY DEF Typed
<1>1. /\ call' = call /\ items' = items /\ requests' = requests /\ shared' = shared
      /\ call[w].op = "idle" /\ Remember(w, s, NoAccount)
  BY DEF ForgetUserId, tableVars, Busy
<1>2. Known' /\ Learns(w, s, NoAccount) BY <1>0, <1>1, Remembers
<1>3. \A v \in Worker, t \in Identity : cache'[v][t] \in {cache[v][t], NoAccount}
  BY <1>2 DEF Learns
<1>4. CallsOK' /\ call'[w] = Idle BY <1>0, <1>1 DEF CallsOK
<1> QED BY <1>1, <1>2, <1>3, <1>4, EndStep

LEMMA KeyKinds ==
    /\ \A i, j : Account(i) # UserSettings(j)
    /\ \A i, j : Account(i) = Account(j) => i = j
BY DEF Account, UserSettings

\* What a write may be, and the rows it leaves.
Writable(k, z) ==
    \/ k.op = "touch" /\ z = Put(UserSettings(k.arg[3]), TRUE)
    \/ k.op \in {"leave", "remove"} /\ z \in DeleteRows(k.arg[3])
    \/ /\ k.op \in {"edit", "register"} /\ k.todo = <<{z}>> /\ k.at = "done"
       /\ \E r : /\ Row(r) /\ r.sub = k.arg[1]
                 /\ k.op = "register" => r.name \in k.arg[2]
                 /\ \/ k.arg[3] # NoAccount /\ z = Put(Account(k.arg[3]), r)
                    \/ /\ k.op = "register" /\ k.arg[3] = NoAccount
                       /\ z = PutNew(Account(DrawnBy(k)), r)

LEMMA WritableOf ==
    ASSUME NEW k, NEW m, GoodRequest(k, m), NEW z \in Planned(k.todo), k.op # "idle"
    PROVE  Writable(k, z)
<1>1. CASE k.op \in {"touch", "leave", "remove"} BY <1>1 DEF GoodRequest, Writable
<1>2. CASE k.op \in {"edit", "register"}
  <2>1. k.todo # <<>> BY NoPlan
  <2>2. PutsAccount(k) /\ k.at = "done" BY <1>2, <2>1 DEF GoodRequest
  <2>3. PICK r, y : /\ Row(r) /\ r.sub = k.arg[1] /\ k.todo = <<{y}>>
                    /\ k.op = "register" => r.name \in k.arg[2]
                    /\ \/ k.arg[3] # NoAccount /\ y = Put(Account(k.arg[3]), r)
                       \/ /\ k.op = "register" /\ k.arg[3] = NoAccount
                          /\ y = PutNew(Account(DrawnBy(k)), r)
    BY <2>2 DEF PutsAccount
  <2>4. z = y BY <2>3, OneSet
  <2> QED BY <1>2, <2>2, <2>3, <2>4 DEF Writable
<1> QED BY <1>1, <1>2 DEF GoodRequest, Resolvers

LEMMA RowsWritten ==
    ASSUME Typed, NEW k, NEW z, Writable(k, z), items' = After(z)
    PROVE  \A i : Has(Account(i))' => Row(items'[Account(i)])
<1>1. CASE k.op = "touch" /\ z = Put(UserSettings(k.arg[3]), TRUE)
  <2>1. PICK key : key = UserSettings(k.arg[3]) OBVIOUS
  <2>2. z.do = "put" /\ z.key = key BY <1>1, <2>1 DEF Put
  <2>3. /\ DOMAIN items' = DOMAIN items \cup {z.key}
        /\ \A x \in DOMAIN items \ {z.key} : items'[x] = items[x]
    BY <2>2, PutFacts
  <2> QED BY <2>1, <2>2, <2>3, KeyKinds DEF Typed, Has
<1>2. CASE z \in DeleteRows(k.arg[3])
  <2>1. z.do = "delete" BY <1>2 DEF DeleteRows, Delete
  <2>2. /\ DOMAIN items' = DOMAIN items \ {z.key}
        /\ \A x \in DOMAIN items' : items'[x] = items[x]
    BY <2>1, DeleteFacts
  <2> QED BY <2>2 DEF Typed, Has
<1>3. CASE \E r : /\ Row(r)
                  /\ z = Put(Account(k.arg[3]), r) \/ z = PutNew(Account(DrawnBy(k)), r)
  <2>1. PICK r, id : Row(r) /\ (z = Put(Account(id), r) \/ z = PutNew(Account(id), r)) BY <1>3
  <2> QED BY <2>1, RowAfter
<1> QED BY <1>1, <1>2, <1>3 DEF Writable

LEMMA WriteStep ==
    ASSUME Typed, NEW w \in Worker, Write(w), cache' = cache
    PROVE  Typed' /\ Step(w)
<1> DEFINE k == call[w]
           n == call'[w]
<1>0. CallsOK /\ Known' BY KeepsCache DEF Typed
<1>1. PICK z, todo :
         /\ CallsOK' /\ \A v \in Worker \ {w} : call'[v] = call[v]
         /\ k.op # "idle" /\ k.todo # <<>>
         /\ z \in Head(k.todo) /\ todo = Rest(k.todo, z)
         /\ items' = After(z)
         /\ n = Onward(k, todo, k.at)
         /\ Sequence(todo)
         /\ requests' = requests /\ shared' = shared
  BY <1>0, WriteFacts
<1>2. GoodRequest(k, requests) BY <1>1 DEF Typed
<1>3. Shaped(k) /\ Sequence(k.todo) BY <1>0 DEF CallsOK
<1>4. z \in Planned(k.todo) /\ Planned(todo) \subseteq Planned(k.todo) BY <1>1, <1>3, RestOf
<1>5. Writable(k, z) BY <1>1, <1>2, <1>4, WritableOf
<1>6. \A i : Has(Account(i))' => Row(items'[Account(i)]) BY <1>1, <1>5, RowsWritten
<1>7. CASE n = Idle
  <2>1. n.op = "idle" /\ n.id = 0 /\ n.todo = <<>> BY <1>7, IdleCall
  <2>2. Planned(n.todo) \subseteq Planned(k.todo) BY <2>1, NoPlan
  <2>3. Typed' BY <1>0, <1>1, <1>6, <2>1, TypedKept
  <2>4. Saves(w) BY <1>1, <1>4, <1>7, <2>2 DEF Saves
  <2> QED BY <1>1, <2>3, <2>4 DEF Step
<1>8. CASE n # Idle
  <2>8. todo # <<>> \/ k.at # "done" BY <1>1, <1>8 DEF Onward
  <2>1. n = With(k, todo, k.at) BY <1>1, <1>3, <2>8, OnwardWith
  <2>2. /\ n.op = k.op /\ n.id = k.id /\ n.on = k.on /\ n.at = k.at /\ n.arg = k.arg
        /\ n.todo = todo
    BY <2>1, WithFields
  <2>3. k.op \notin {"edit", "register"}
    <3>1. SUFFICES ASSUME k.op \in {"edit", "register"} PROVE FALSE OBVIOUS
    <3>2. k.todo = <<{z}>> /\ k.at = "done" BY <1>5, <3>1 DEF Writable
    <3>3. Rest(<<{z}>>, z) = <<>>
      <4>0. PICK S : S = {z} OBVIOUS
      <4>1. S \ {z} = {} BY <4>0
      <4>2. Rest(<<S>>, z) = <<>> BY <4>1, RestOfOne
      <4> QED BY <4>0, <4>2
    <3>4. todo = <<>> BY <1>1, <3>2, <3>3
    <3> QED BY <1>1, <1>8, <3>2, <3>4 DEF Onward
  <2>4. k.todo # <<>> /\ k.at \in {"done", "forget"} BY <1>1, <1>2 DEF GoodRequest
  <2>5. GoodRequest(n, requests)
    BY <1>2, <1>4, <2>2, <2>3, <2>4 DEF GoodRequest, Early
  <2>6. Typed' BY <1>0, <1>1, <1>6, <2>2, <2>5, TypedKept
  <2>7. Saves(w) BY <1>1, <1>4, <2>1, <2>2, <2>3 DEF Saves
  <2> QED BY <1>1, <2>6, <2>7 DEF Step
<1> QED BY <1>7, <1>8

LEMMA Steps ==
    ASSUME Typed, Owned, AccountsNext
    PROVE  Typed' /\ \E w \in Worker : Step(w)
<1>1. PICK w \in Worker : RequestsNext(w) \/ StepsNext(w) BY DEF AccountsNext
<1>2. Typed' /\ Step(w)
  BY <1>1, RequestBegins, ForgetStep, ResolveStep, ProvisionStep, SettingsStep, EditStep,
     RegisterStep, DeleteStep, WriteStep, CrashStep
     DEF StepsNext
<1> QED BY <1>2

LEMMA TypedInit == AccountsInit => Typed
<1> SUFFICES ASSUME AccountsInit PROVE Typed OBVIOUS
<1>1. /\ items = <<>> /\ call = [w \in Worker |-> Idle] /\ requests = 0
      /\ cache = NobodyKnown
  BY DEF AccountsInit, TableInit
<1>2. CallsOK BY <1>1, IdleCall DEF CallsOK
<1>3. Known BY <1>1 DEF Known, NobodyKnown
<1>4. \A w \in Worker : call[w].op = "idle" BY <1>1, IdleCall
<1>5. \A key : ~Has(key) BY <1>1 DEF Has
<1> QED BY <1>1, <1>2, <1>3, <1>4, <1>5, TableConstants DEF Typed

-----------------------------------------------------------------------------
(* What a write does to the accounts.                                      *)

LEMMA IdleIds == Ids(Idle) = {} /\ Idle.op = "idle"
BY IdleCall DEF Ids

LEMMA CallClaims ==
    ASSUME NEW w \in Worker, NEW id, NEW s, id \in Ids(call[w]), call[w].arg[1] = s
    PROVE  Claims(id, s)
BY DEF Claims

LEMMA RowClaims ==
    ASSUME NEW s, NEW id \in AccountsOf(s) PROVE Claims(id, s)
BY DEF Claims, AccountsOf, Accounts

\* The accounts after a put.
LEMMA PutRow ==
    ASSUME NEW j, NEW r, items' = After(Put(Account(j), r))
    PROVE  /\ Has(Account(j))' /\ items'[Account(j)] = r
           /\ \A i : i # j => /\ Has(Account(i))' <=> Has(Account(i))
                              /\ Has(Account(i)) => items'[Account(i)] = items[Account(i)]
<1>1. PICK z : z = Put(Account(j), r) OBVIOUS
<1>2. z.do = "put" /\ z.key = Account(j) /\ z.val = r BY <1>1 DEF Put
<1>3. /\ DOMAIN items' = DOMAIN items \cup {z.key} /\ items'[z.key] = z.val
      /\ \A x \in DOMAIN items \ {z.key} : items'[x] = items[x]
  BY <1>1, <1>2, PutFacts
<1> QED BY <1>2, <1>3, KeyKinds DEF Has

LEMMA PutNewRow ==
    ASSUME NEW j, NEW r, items' = After(PutNew(Account(j), r))
    PROVE  \/ Has(Account(j)) /\ items' = items
           \/ /\ ~Has(Account(j)) /\ Has(Account(j))' /\ items'[Account(j)] = r
              /\ \A i : i # j => /\ Has(Account(i))' <=> Has(Account(i))
                                 /\ Has(Account(i)) => items'[Account(i)] = items[Account(i)]
<1>1. PICK z : z = PutNew(Account(j), r) OBVIOUS
<1>2. z.do = "putNew" /\ z.key = Account(j) /\ z.val = r BY <1>1 DEF PutNew
<1>3. /\ z.key \in DOMAIN items => items' = items
      /\ z.key \notin DOMAIN items =>
            /\ DOMAIN items' = DOMAIN items \cup {z.key} /\ items'[z.key] = z.val
            /\ \A x \in DOMAIN items : items'[x] = items[x]
  BY <1>1, <1>2, PutNewFacts
<1> QED BY <1>2, <1>3, KeyKinds DEF Has

\* A write that puts no account.
LEMMA OtherRow ==
    ASSUME NEW k, NEW z, Writable(k, z), k.op \notin {"edit", "register"}, items' = After(z)
    PROVE  /\ \A i : Has(Account(i))' => /\ Has(Account(i))
                                         /\ items'[Account(i)] = items[Account(i)]
           /\ \A i : Has(Account(i)) /\ ~Has(Account(i))' =>
                        k.op \in {"leave", "remove"} /\ i = k.arg[3]
<1>1. CASE k.op = "touch" /\ z = Put(UserSettings(k.arg[3]), TRUE)
  <2>1. PICK key : key = UserSettings(k.arg[3]) OBVIOUS
  <2>2. z.do = "put" /\ z.key = key BY <1>1, <2>1 DEF Put
  <2>3. /\ DOMAIN items' = DOMAIN items \cup {z.key}
        /\ \A x \in DOMAIN items \ {z.key} : items'[x] = items[x]
    BY <2>2, PutFacts
  <2> QED BY <2>1, <2>2, <2>3, KeyKinds DEF Has
<1>2. CASE k.op \in {"leave", "remove"} /\ z \in DeleteRows(k.arg[3])
  <2>1. /\ z.do = "delete"
        /\ z.key = Account(k.arg[3]) \/ z.key = UserSettings(k.arg[3])
    BY <1>2 DEF DeleteRows, Delete
  <2>2. /\ DOMAIN items' = DOMAIN items \ {z.key}
        /\ \A x \in DOMAIN items' : items'[x] = items[x]
    BY <2>1, DeleteFacts
  <2> QED BY <1>2, <2>1, <2>2, KeyKinds DEF Has
<1> QED BY <1>1, <1>2 DEF Writable

\* What a write does to the accounts: it puts the caller's, or at most drops it.
PutsRow(w) ==
    LET k == call[w]
    IN  /\ k.op \in {"edit", "register"} /\ k.at = "done" /\ call'[w] = Idle
        /\ \E j, r :
              /\ Row(r) /\ r.sub = k.arg[1] /\ Has(Account(j))'
              /\ k.op = "register" => r.name \in k.arg[2]
              /\ \/ /\ k.arg[3] # NoAccount /\ j = k.arg[3]
                    /\ k.todo = <<{Put(Account(j), r)}>> /\ items'[Account(j)] = r
                 \/ /\ k.op = "register" /\ k.arg[3] = NoAccount /\ j = DrawnBy(k)
                    /\ items' = items \/ (items'[Account(j)] = r /\ ~Has(Account(j)))
              /\ \A i : i # j =>
                    /\ Has(Account(i))' <=> Has(Account(i))
                    /\ Has(Account(i)) => items'[Account(i)] = items[Account(i)]

DropsRow(w) ==
    LET k == call[w]
    IN  /\ k.op \in {"touch", "leave", "remove"}
        /\ \A i : Has(Account(i))' => /\ Has(Account(i))
                                      /\ items'[Account(i)] = items[Account(i)]
        /\ \A i : Has(Account(i)) /\ ~Has(Account(i))' =>
              k.op \in {"leave", "remove"} /\ i = k.arg[3]
        /\ call'[w] = Idle \/ call'[w] = With(call[w], call'[w].todo, call[w].at)

LEMMA SaveKinds ==
    ASSUME Typed, NEW w \in Worker, Saves(w)
    PROVE  PutsRow(w) \/ DropsRow(w)
<1> DEFINE k == call[w]
<1>1. PICK z \in Planned(k.todo) :
         /\ items' = After(z)
         /\ \/ call'[w] = Idle
            \/ /\ k.op \notin {"edit", "register"}
               /\ call'[w] = With(k, call'[w].todo, k.at)
  BY DEF Saves
<1>2. k.op # "idle" /\ GoodRequest(k, requests) BY DEF Saves, Typed
<1>3. Writable(k, z) BY <1>2, WritableOf
<1>4. CASE k.op \in {"edit", "register"}
  <2>1. call'[w] = Idle /\ k.at = "done" /\ k.todo = <<{z}>> BY <1>1, <1>3, <1>4 DEF Writable
  <2>3. PICK r : /\ Row(r) /\ r.sub = k.arg[1]
                 /\ k.op = "register" => r.name \in k.arg[2]
                 /\ \/ k.arg[3] # NoAccount /\ z = Put(Account(k.arg[3]), r)
                    \/ /\ k.op = "register" /\ k.arg[3] = NoAccount
                       /\ z = PutNew(Account(DrawnBy(k)), r)
    BY <1>3, <1>4 DEF Writable
  <2>4. CASE k.arg[3] # NoAccount /\ z = Put(Account(k.arg[3]), r)
    <3>1. PICK j : j = k.arg[3] OBVIOUS
    <3>2. items' = After(Put(Account(j), r)) BY <1>1, <2>4, <3>1
    <3>3. /\ Has(Account(j))' /\ items'[Account(j)] = r
          /\ \A i : i # j => /\ Has(Account(i))' <=> Has(Account(i))
                             /\ Has(Account(i)) => items'[Account(i)] = items[Account(i)]
      BY <3>2, PutRow
    <3> QED BY <1>4, <2>1, <2>3, <2>4, <3>1, <3>3 DEF PutsRow
  <2>5. CASE /\ k.op = "register" /\ k.arg[3] = NoAccount
             /\ z = PutNew(Account(DrawnBy(k)), r)
    <3>1. PICK j : j = DrawnBy(k) OBVIOUS
    <3>2. items' = After(PutNew(Account(j), r)) BY <1>1, <2>5, <3>1
    <3>3. \/ Has(Account(j)) /\ items' = items
          \/ /\ ~Has(Account(j)) /\ Has(Account(j))' /\ items'[Account(j)] = r
             /\ \A i : i # j => /\ Has(Account(i))' <=> Has(Account(i))
                                /\ Has(Account(i)) => items'[Account(i)] = items[Account(i)]
      BY <3>2, PutNewRow
    <3>4. Has(Account(j))' BY <3>3 DEF Has
    <3>5. \A i : i # j => /\ Has(Account(i))' <=> Has(Account(i))
                          /\ Has(Account(i)) => items'[Account(i)] = items[Account(i)]
      BY <3>3 DEF Has
    <3> QED BY <1>4, <2>1, <2>3, <2>5, <3>1, <3>3, <3>4, <3>5 DEF PutsRow
  <2> QED BY <2>3, <2>4, <2>5
<1>5. CASE k.op \notin {"edit", "register"}
  <2>1. k.op \in {"touch", "leave", "remove"} BY <1>2, <1>5 DEF GoodRequest, Resolvers
  <2> QED BY <1>1, <1>3, <1>5, <2>1, OtherRow DEF DropsRow
<1> QED BY <1>4, <1>5

-----------------------------------------------------------------------------
(* Ids belong to one identity.                                             *)

\* Ids that come to be claimed: by a request that begins.
ClaimsNew(w, id, s) ==
    /\ id = <<"uuid", requests + 1>> /\ requests' = requests + 1
    /\ s = call'[w].arg[1]

\* What the account of w's request is after its step.
LEMMA StepIds ==
    ASSUME Typed, NEW w \in Worker, Step(w), NEW id, id # NoAccount, id \in Ids(call'[w]),
           NEW s \in Identity, s = call'[w].arg[1]
    PROVE  Claims(id, s) \/ ClaimsNew(w, id, s)
<1> DEFINE k == call[w]
           n == call'[w]
<1>1. CASE Begins(w)
  <2>1. n.at \in Early \/ n.arg[3] \in AccountsOf(n.arg[1]) BY <1>1 DEF Begins, Early
  <2>2. n.id = requests + 1 /\ requests' = requests + 1 BY <1>1 DEF Begins
  <2> QED BY <2>1, <2>2, RowClaims DEF Ids, DrawnBy, ClaimsNew
<1>2. CASE Reads(w)
  <2>1. n.op = k.op /\ n.id = k.id /\ n.arg[1] = k.arg[1] /\ k.op # "idle" BY <1>2 DEF Reads
  <2>2. CASE n.at \in Early BY <2>1, <2>2, CallClaims DEF Ids, DrawnBy
  <2>3. CASE n.at \notin Early
    <3>1. \/ n.arg[3] # NoAccount /\ n.arg[3] = cache[w][s]
          \/ n.arg[3] \in AccountsOf(s)
          \/ n.arg[3] = Provisional(s)
          \/ n.arg[3] = NoAccount
          \/ k.at \notin Early /\ n.arg[3] = k.arg[3]
      BY <1>2, <2>1, <2>3 DEF Reads, Early
    <3>2. id = n.arg[3] => Claims(id, s)
      BY <2>1, <3>1, RowClaims, CallClaims DEF Claims, Ids
    <3>3. n.op = "register" /\ id = DrawnBy(k) => Claims(id, s)
      BY <2>1, CallClaims DEF Ids
    <3> QED BY <2>1, <3>2, <3>3 DEF Ids, DrawnBy
  <2> QED BY <2>2, <2>3
<1>3. CASE Provisions(w)
  <2>1. n.arg[1] = k.arg[1] /\ n.arg[3] = Provisional(k.arg[1]) /\ n.op # "register"
    BY <1>3 DEF Provisions, Resolvers
  <2> QED BY <2>1 DEF Ids, Claims
<1>4. CASE Plans(w)
  <2>1. n.op = k.op /\ n.id = k.id /\ n.arg = k.arg /\ k.op # "idle" /\ k.at \notin Early
    BY <1>4 DEF Plans, Early
  <2> QED BY <2>1, CallClaims DEF Ids, DrawnBy
<1>5. CASE Saves(w)
  <2>1. CASE n = Idle BY <2>1, IdleIds
  <2>2. CASE n # Idle
    <3>1. n = With(k, n.todo, k.at) BY <1>5, <2>2 DEF Saves
    <3>2. n.op = k.op /\ n.id = k.id /\ n.at = k.at /\ n.arg = k.arg BY <3>1, WithFields
    <3> QED BY <3>2, CallClaims DEF Ids, DrawnBy
  <2> QED BY <2>1, <2>2
<1>6. CASE Finishes(w) BY <1>6, IdleIds DEF Finishes
<1> QED BY <1>1, <1>2, <1>3, <1>4, <1>5, <1>6 DEF Step

\* Whose the account of the caller is, when it is written.
LEMMA DoneClaims ==
    ASSUME Typed, NEW w \in Worker, NEW j, call[w].op \in {"edit", "register"},
           call[w].at = "done",
           j = call[w].arg[3] \/ (call[w].op = "register" /\ j = DrawnBy(call[w]))
    PROVE  Claims(j, call[w].arg[1])
<1>1. j \in Ids(call[w]) BY DEF Ids, Early
<1> QED BY <1>1, CallClaims

LEMMA StepRows ==
    ASSUME Typed, NEW w \in Worker, Step(w), NEW id, NEW s \in Identity,
           Has(Account(id))', items'[Account(id)].sub = s
    PROVE  Claims(id, s)
<1> DEFINE k == call[w]
<1>1. CASE items' = items
  BY <1>1 DEF Claims, Has
<1>2. CASE Provisions(w)
  <2>1. PICK t, j, r : /\ t = k.arg[1] /\ j = Provisional(t) /\ r = Placeholder(t)
    OBVIOUS
  <2>2. items' = After(PutNew(Account(j), r)) BY <1>2, <2>1 DEF Provisions
  <2>3. CASE id = j /\ items'[Account(j)] = r
    <3>1. s = t BY <2>1, <2>3 DEF Placeholder
    <3> QED BY <2>1, <2>3, <3>1 DEF Claims
  <2>4. CASE Has(Account(id)) /\ items'[Account(id)] = items[Account(id)]
    BY <2>4 DEF Claims
  <2>5. \/ items' = items
        \/ /\ items'[Account(j)] = r
           /\ \A i : i # j => /\ Has(Account(i))' <=> Has(Account(i))
                              /\ Has(Account(i)) => items'[Account(i)] = items[Account(i)]
    BY <2>2, PutNewRow
  <2> QED BY <1>1, <2>3, <2>4, <2>5
<1>3. CASE Saves(w)
  <2>1. CASE PutsRow(w)
    <3>1. PICK j, r :
             /\ r.sub = k.arg[1]
             /\ j = k.arg[3] \/ (k.op = "register" /\ j = DrawnBy(k))
             /\ items' = items \/ items'[Account(j)] = r
             /\ \A i : i # j =>
                    /\ Has(Account(i))' <=> Has(Account(i))
                    /\ Has(Account(i)) => items'[Account(i)] = items[Account(i)]
      BY <2>1 DEF PutsRow
    <3>2. Claims(j, k.arg[1]) BY <2>1, <3>1, DoneClaims DEF PutsRow
    <3>3. CASE id = j /\ items'[Account(j)] = r BY <3>1, <3>2, <3>3
    <3>4. CASE id # j BY <3>1, <3>4 DEF Claims
    <3> QED BY <1>1, <3>1, <3>3, <3>4
  <2>2. CASE DropsRow(w) BY <2>2 DEF DropsRow, Claims
  <2> QED BY <1>3, <2>1, <2>2, SaveKinds
<1> QED BY <1>1, <1>2, <1>3 DEF Step, Begins, Reads, Plans, Finishes

LEMMA StepCache ==
    ASSUME Typed, NEW w \in Worker, Step(w), NEW id, id # NoAccount, NEW s \in Identity,
           NEW v \in Worker, cache'[v][s] = id
    PROVE  Claims(id, s)
<1> DEFINE k == call[w]
           n == call'[w]
<1>1. CASE cache'[v][s] = cache[v][s] BY <1>1 DEF Claims
<1>2. CASE cache'[v][s] # cache[v][s]
  <2>1. CASE Finishes(w) BY <1>2, <2>1 DEF Finishes
  <2>2. CASE Provisions(w)
    <3>1. s = k.arg[1] /\ id = Provisional(k.arg[1]) BY <1>2, <2>2 DEF Provisions, Learns
    <3> QED BY <3>1 DEF Claims
  <2>3. CASE Reads(w)
    <3>1. PICK t, j : t = k.arg[1] /\ j = n.arg[3] OBVIOUS
    <3>2. /\ Learns(w, t, j)
          /\ (j # NoAccount /\ j = cache[w][t]) \/ j \in AccountsOf(t) \/ j = Provisional(t)
      BY <1>2, <2>3, <3>1 DEF Reads
    <3>3. s = t /\ id = j BY <1>2, <3>2 DEF Learns
    <3> QED BY <3>2, <3>3, RowClaims DEF Claims
  <2> QED BY <1>2, <2>1, <2>2, <2>3 DEF Step, Begins, Plans, Saves
<1> QED BY <1>1, <1>2

LEMMA StepClaims ==
    ASSUME Typed, NEW w \in Worker, Step(w), NEW id, id # NoAccount, NEW s \in Identity,
           Claims(id, s)'
    PROVE  Claims(id, s) \/ ClaimsNew(w, id, s)
<1>1. CASE id = Provisional(s) BY <1>1 DEF Claims
<1>2. CASE Has(Account(id))' /\ items'[Account(id)].sub = s BY <1>2, StepRows
<1>3. CASE \E v \in Worker : cache'[v][s] = id BY <1>3, StepCache
<1>4. CASE \E v \in Worker : id \in Ids(call'[v]) /\ call'[v].arg[1] = s
  <2>1. PICK v \in Worker : id \in Ids(call'[v]) /\ call'[v].arg[1] = s BY <1>4
  <2>2. CASE v = w BY <2>1, <2>2, StepIds
  <2>3. CASE v # w
    <3>1. call'[v] = call[v] BY <2>3 DEF Step
    <3> QED BY <2>1, <3>1, CallClaims
  <2> QED BY <2>2, <2>3
<1> QED BY <1>1, <1>2, <1>3, <1>4 DEF Claims

LEMMA FreshKept ==
    ASSUME Typed, FreshIds, NEW w \in Worker, Step(w), requests' \in {requests, requests + 1}
    PROVE  FreshIds'
<1>0. requests \in Nat BY TableConstants DEF Typed
<1> SUFFICES ASSUME NEW id, NEW s \in Identity, id # NoAccount, Claims(id, s)'
             PROVE  id \in {Provisional(s)} \cup {<<"uuid", m>> : m \in 1..requests'}
  BY DEF FreshIds
<1>1. CASE Claims(id, s) BY <1>0, <1>1 DEF FreshIds
<1>2. CASE ClaimsNew(w, id, s)
  <2>1. requests + 1 \in 1..requests' BY <1>0, <1>2 DEF ClaimsNew
  <2> QED BY <1>2, <2>1 DEF ClaimsNew
<1> QED BY <1>1, <1>2, StepClaims

LEMMA OwnedKept ==
    ASSUME Typed, FreshIds, Owned, NEW w \in Worker, Step(w)
    PROVE  Owned'
<1>0. requests \in Nat BY TableConstants DEF Typed
<1> SUFFICES ASSUME NEW id, NEW s \in Identity, NEW t \in Identity, id # NoAccount,
                    Claims(id, s)', Claims(id, t)'
             PROVE  s = t
  BY DEF Owned
<1>1. /\ Claims(id, s) \/ ClaimsNew(w, id, s)
      /\ Claims(id, t) \/ ClaimsNew(w, id, t)
  BY StepClaims
<1>2. ASSUME NEW u \in Identity, id = <<"uuid", requests + 1>> PROVE ~Claims(id, u)
  <2>1. id # Provisional(u) BY <1>2 DEF Provisional
  <2>2. \A m \in 1..requests : id # <<"uuid", m>> BY <1>0, <1>2
  <2> QED BY <2>1, <2>2 DEF FreshIds
<1>3. CASE Claims(id, s) /\ Claims(id, t) BY <1>3 DEF Owned
<1>4. CASE ClaimsNew(w, id, s) /\ ClaimsNew(w, id, t) BY <1>4 DEF ClaimsNew
<1> QED BY <1>1, <1>2, <1>3, <1>4 DEF ClaimsNew

LEMMA ClaimsInit ==
    ASSUME AccountsInit PROVE Owned /\ FreshIds
<1>1. /\ items = <<>> /\ call = [w \in Worker |-> Idle] /\ cache = NobodyKnown
  BY DEF AccountsInit, TableInit
<1>2. ASSUME NEW id, NEW s \in Identity, id # NoAccount, Claims(id, s)
      PROVE  id = Provisional(s)
  <2>1. ~Has(Account(id)) BY <1>1 DEF Has
  <2>2. \A w \in Worker : cache[w][s] = NoAccount BY <1>1 DEF NobodyKnown
  <2>3. \A w \in Worker : Ids(call[w]) = {} BY <1>1, IdleIds
  <2> QED BY <1>2, <2>1, <2>2, <2>3 DEF Claims
<1> QED BY <1>2 DEF Owned, FreshIds, Provisional

-----------------------------------------------------------------------------
(* An identity has one account.                                            *)

\* What a request has concluded about its caller's account still holds.
Concluded(k) ==
    LET s == k.arg[1]
        id == k.arg[3]
    IN  /\ k.at \in {"provision", "fetch"} => AccountsOf(s) \subseteq {Provisional(s)}
        /\ (k.op = "edit" /\ k.at = "done") \/ (k.op = "register" /\ k.at # "find") =>
              AccountsOf(s) \subseteq {id}
        /\ k.op = "edit" /\ k.at = "done" =>
              /\ Has(Account(id))
              /\ \A r : k.todo = <<{Put(Account(id), r)}>> =>
                    r.name \in k.arg[2] \/ r.name = items[Account(id)].name

\* An identity whose requests did not race.
Single(s) ==
    /\ ~Racing(s)
    /\ \A i, j \in AccountsOf(s) : i = j
    /\ \A w \in Worker : call[w].op # "idle" /\ call[w].arg[1] = s => Concluded(call[w])

Singles == \A s \in Identity \ raced : Single(s)

LEMMA AloneIn ==
    ASSUME Typed, NEW s, ~Racing(s), NEW v \in Worker, NEW w \in Worker, v # w,
           call[v].op # "idle", call[w].op # "idle",
           call[v].arg[1] = s, call[w].arg[1] = s
    PROVE  call[v].op = "touch" /\ call[w].op = "touch"
<1>1. GoodRequest(call[v], requests) /\ GoodRequest(call[w], requests) BY DEF Typed
<1>2. Self(s) \in call[v].on /\ Self(s) \in call[w].on BY <1>1 DEF GoodRequest
<1> QED BY <1>2 DEF Racing

\* The id of an account one has come to is an account's id.
LEMMA IdsKnown ==
    ASSUME Typed, FreshIds, NEW s \in Identity, NEW id, id # NoAccount, Claims(id, s)
    PROVE  id \in AccountIds
<1>1. requests \in Nat /\ requests <= MaxRequests /\ MaxRequests \in Nat
  BY TableConstants DEF Typed
<1>2. \A m \in 1..requests : m \in 1..MaxRequests BY <1>1
<1> QED BY <1>2 DEF FreshIds, AccountIds

LEMMA InAccounts ==
    ASSUME NEW s
    PROVE  /\ \A i : i \in AccountsOf(s) <=>
                 i \in AccountIds /\ Has(Account(i)) /\ items[Account(i)].sub = s
           /\ \A i : i \in AccountsOf(s)' <=>
                 i \in AccountIds /\ Has(Account(i))' /\ items'[Account(i)].sub = s
BY DEF AccountsOf, Accounts

\* How a step may add to an identity's accounts.
LEMMA AccountsAfter ==
    ASSUME Typed, NEW w \in Worker, Step(w), NEW s \in Identity
    PROVE  LET k == call[w]
           IN  \/ AccountsOf(s)' \subseteq AccountsOf(s)
               \/ /\ Provisions(w) /\ s = k.arg[1]
                  /\ AccountsOf(s)' \subseteq AccountsOf(s) \cup {Provisional(s)}
               \/ /\ PutsRow(w) /\ s = k.arg[1]
                  /\ \E j : /\ k.arg[3] # NoAccount => j = k.arg[3]
                            /\ AccountsOf(s)' \subseteq AccountsOf(s) \cup {j}
<1> DEFINE k == call[w]
<1>1. CASE items' = items BY <1>1 DEF AccountsOf, Accounts, Has
<1>2. CASE Provisions(w)
  <2>1. PICK t, j, r : t = k.arg[1] /\ j = Provisional(t) /\ r = Placeholder(t) OBVIOUS
  <2>2. items' = After(PutNew(Account(j), r)) BY <1>2, <2>1 DEF Provisions
  <2>3. r.sub = t BY <2>1 DEF Placeholder
  <2>4. \/ items' = items
        \/ /\ items'[Account(j)] = r
           /\ \A i : i # j => /\ Has(Account(i))' <=> Has(Account(i))
                              /\ Has(Account(i)) => items'[Account(i)] = items[Account(i)]
    BY <2>2, PutNewRow
  <2>5. CASE items'[Account(j)] = r /\ (\A i : i # j =>
               /\ Has(Account(i))' <=> Has(Account(i))
               /\ Has(Account(i)) => items'[Account(i)] = items[Account(i)])
    <3>1. \A i \in AccountsOf(s)' : i # j => i \in AccountsOf(s) BY <2>5, InAccounts
    <3>2. CASE s = t BY <1>2, <2>1, <3>1, <3>2
    <3>3. CASE s # t
      <4>1. j \notin AccountsOf(s)' BY <2>3, <2>5, <3>3, InAccounts
      <4> QED BY <3>1, <4>1
    <3> QED BY <3>2, <3>3
  <2> QED BY <1>1, <2>4, <2>5
<1>3. CASE PutsRow(w)
  <2>1. PICK j, r :
           /\ r.sub = k.arg[1]
           /\ k.arg[3] # NoAccount => j = k.arg[3]
           /\ items' = items \/ items'[Account(j)] = r
           /\ \A i : i # j =>
                 /\ Has(Account(i))' <=> Has(Account(i))
                 /\ Has(Account(i)) => items'[Account(i)] = items[Account(i)]
    BY <1>3 DEF PutsRow
  <2>2. \A i \in AccountsOf(s)' : i # j => i \in AccountsOf(s) BY <2>1, InAccounts
  <2>3. CASE s = k.arg[1] BY <1>3, <2>1, <2>2, <2>3
  <2>4. CASE s # k.arg[1] /\ items'[Account(j)] = r
    <3>1. j \notin AccountsOf(s)' BY <2>1, <2>4, InAccounts
    <3> QED BY <2>2, <3>1
  <2> QED BY <1>1, <2>1, <2>3, <2>4
<1>4. CASE DropsRow(w)
  <2>1. \A i \in AccountsOf(s)' : i \in AccountsOf(s) BY <1>4, InAccounts DEF DropsRow
  <2> QED BY <2>1
<1>5. CASE Saves(w) BY <1>3, <1>4, <1>5, SaveKinds
<1> QED BY <1>1, <1>2, <1>5 DEF Step, Begins, Reads, Plans, Finishes

\* A step leaves the account another request edits as it is, if they did not race.
LEMMA RowUndisturbed ==
    ASSUME Typed, Owned, NEW w \in Worker, Step(w), NEW v \in Worker, v # w,
           NEW s \in Identity, ~Racing(s), call[v].op \in {"edit", "register"},
           call[v].arg[1] = s, NEW id, id # NoAccount, Claims(id, s), Has(Account(id))
    PROVE  Has(Account(id))' /\ items'[Account(id)] = items[Account(id)]
<1> DEFINE k == call[w]
<1>1. CASE items' = items BY <1>1 DEF Has
<1>2. CASE Provisions(w)
  <2>1. PICK j, r : j = Provisional(k.arg[1]) /\ r = Placeholder(k.arg[1]) OBVIOUS
  <2>2. items' = After(PutNew(Account(j), r)) /\ ~Has(Account(j))
    BY <1>2, <2>1 DEF Provisions
  <2> QED BY <2>2, PutNewRow
<1>3. CASE Saves(w)
  <2>1. /\ k.op # "idle" /\ GoodRequest(k, requests) /\ k.todo # <<>>
    <3>1. k.op # "idle" /\ Planned(k.todo) # {} BY <1>3 DEF Saves
    <3> QED BY <3>1, NoPlan DEF Typed
  <2>2. k.arg[1] \in Identity /\ k.at \notin Early BY <2>1 DEF GoodRequest, Early
  <2>3. ASSUME k.op # "touch" PROVE k.arg[1] # s
    <3>1. SUFFICES ASSUME k.arg[1] = s PROVE FALSE OBVIOUS
    <3> QED BY <2>1, <2>3, <3>1, AloneIn
  <2>4. CASE PutsRow(w)
    <3>1. PICK j :
             /\ j = k.arg[3] \/ (k.op = "register" /\ j = DrawnBy(k))
             /\ j = k.arg[3] => k.arg[3] # NoAccount
             /\ \A i : i # j =>
                    /\ Has(Account(i))' <=> Has(Account(i))
                    /\ Has(Account(i)) => items'[Account(i)] = items[Account(i)]
      BY <2>4 DEF PutsRow, DrawnBy, NoAccount
    <3>2. Claims(j, k.arg[1]) BY <2>4, <3>1, DoneClaims DEF PutsRow
    <3>3. k.arg[1] # s BY <2>3, <2>4 DEF PutsRow
    <3>4. id # j BY <2>2, <3>2, <3>3 DEF Owned
    <3> QED BY <3>1, <3>4
  <2>5. CASE DropsRow(w)
    <3>1. CASE Has(Account(id))' BY <2>5, <3>1 DEF DropsRow
    <3>2. CASE ~Has(Account(id))'
      <4>1. k.op \in {"leave", "remove"} /\ id = k.arg[3] BY <2>5, <3>2 DEF DropsRow
      <4>2. Claims(id, k.arg[1]) BY <2>1, <2>2, <4>1, CallClaims DEF Ids
      <4> QED BY <2>2, <2>3, <4>1, <4>2 DEF Owned
    <3> QED BY <3>1, <3>2
  <2> QED BY <1>3, <2>4, <2>5, SaveKinds
<1> QED BY <1>1, <1>2, <1>3 DEF Step, Begins, Reads, Plans, Finishes

\* What another request of the identity has concluded.
LEMMA OthersConcluded ==
    ASSUME Typed, FreshIds, Owned, NEW w \in Worker, Step(w), NEW s \in Identity, Single(s),
           NEW v \in Worker, v # w, call[v].op # "idle", call[v].arg[1] = s
    PROVE  Concluded(call[v])'
<1> DEFINE k == call[v]
           id == k.arg[3]
<1>0. call'[v] = k BY DEF Step
<1>1. Concluded(k) /\ ~Racing(s) BY DEF Single
<1>2. GoodRequest(k, requests) BY DEF Typed
<1>3. PutsRow(w) => call[w].op \in {"edit", "register"} BY DEF PutsRow
<1>4. Provisions(w) => call[w].op # "idle" BY DEF Provisions
<1>5. PutsRow(w) => call[w].arg[1] # s
  <2>1. SUFFICES ASSUME PutsRow(w), call[w].arg[1] = s PROVE FALSE OBVIOUS
  <2>2. call[w].op # "idle" /\ call[w].op # "touch" BY <1>3, <2>1
  <2> QED BY <1>1, <2>1, <2>2, AloneIn
<1>6. k.op # "touch" /\ Provisions(w) => call[w].arg[1] # s
  <2>1. SUFFICES ASSUME k.op # "touch", Provisions(w), call[w].arg[1] = s PROVE FALSE OBVIOUS
  <2> QED BY <1>1, <1>4, <2>1, AloneIn
<1>7. ASSUME k.at \in {"provision", "fetch"}
      PROVE  AccountsOf(s)' \subseteq {Provisional(s)}
  <2>1. AccountsOf(s) \subseteq {Provisional(s)} BY <1>1, <1>7 DEF Concluded
  <2> QED BY <1>5, <2>1, AccountsAfter
<1>8. ASSUME k.op \in {"edit", "register"}
      PROVE  AccountsOf(s)' \subseteq AccountsOf(s)
  BY <1>5, <1>6, <1>8, AccountsAfter
<1>9. ASSUME k.op = "edit", k.at = "done"
      PROVE  \A i : i = id => Has(Account(i))' /\ items'[Account(i)] = items[Account(i)]
  <2> SUFFICES ASSUME NEW i, i = id
               PROVE  Has(Account(i))' /\ items'[Account(i)] = items[Account(i)]
    OBVIOUS
  <2>1. Has(Account(i)) BY <1>1, <1>9 DEF Concluded
  <2>2. i # NoAccount BY <1>2, <1>9 DEF GoodRequest, Early
  <2>3. i \in Ids(k) BY <1>9 DEF Ids, Early
  <2>4. Claims(i, s) BY <2>3, CallClaims
  <2> QED BY <1>1, <1>9, <2>1, <2>2, <2>4, RowUndisturbed
<1>10. Concluded(k) => (k.op = "edit" /\ k.at = "done" =>
           \A r : k.todo = <<{Put(Account(id), r)}>> =>
                    r.name \in k.arg[2] \/ r.name = items[Account(id)].name)
  BY DEF Concluded
<1>11. Concluded(k) => ((k.op = "edit" /\ k.at = "done") \/ (k.op = "register" /\ k.at # "find") =>
           AccountsOf(s) \subseteq {id})
  BY DEF Concluded
<1>12. PICK i : i = id OBVIOUS
<1>13. k.op = "edit" /\ k.at = "done" =>
          /\ Has(Account(i))'
          /\ \A r : k.todo = <<{Put(Account(i), r)}>> =>
                   r.name \in k.arg[2] \/ r.name = items'[Account(i)].name
  BY <1>1, <1>9, <1>10, <1>12
<1> QED BY <1>0, <1>1, <1>7, <1>8, <1>11, <1>12, <1>13 DEF Concluded

\* What the request that takes the step concludes.
LEMMA OwnSound ==
    ASSUME Typed, FreshIds, Owned, NEW w \in Worker, Step(w), Typed', NEW s \in Identity,
           Single(s), call'[w].op # "idle", call'[w].arg[1] = s
    PROVE  Concluded(call[w])'
<1> DEFINE k == call[w]
           n == call'[w]
<1>1. \A i, j \in AccountsOf(s) : i = j BY DEF Single
<1>2. CASE n.at \notin {"provision", "fetch"} /\ n.op \notin {"edit", "register"}
  BY <1>2 DEF Concluded
<1>3. CASE Begins(w)
  <2>1. n.at \notin {"provision", "fetch", "done"} /\ (n.op = "register" => n.at = "find")
    BY <1>3 DEF Begins, Resolvers
  <2> QED BY <2>1 DEF Concluded
<1>4. CASE Reads(w)
  <2>1. k.op # "idle" /\ n.op = k.op /\ k.arg[1] = s /\ items' = items BY <1>4 DEF Reads
  <2>2. Concluded(k) /\ GoodRequest(k, requests) BY <2>1 DEF Single, Typed
  <2>3. AccountsOf(s)' = AccountsOf(s) BY <2>1 DEF AccountsOf, Accounts, Has
  <2>4. n.at # "done" BY <1>4 DEF Reads
  <2>5. ASSUME n.at \in {"provision", "fetch"}
        PROVE  AccountsOf(s) \subseteq {Provisional(s)}
    <3>1. AccountsOf(s) = {} \/ k.at = "provision" BY <1>4, <2>1, <2>5 DEF Reads
    <3> QED BY <2>1, <2>2, <3>1 DEF Concluded
  <2>6. ASSUME n.op = "register" PROVE AccountsOf(s) \subseteq {n.arg[3]}
    <3>1. k.at = "find" BY <1>4, <2>1, <2>2, <2>6 DEF Reads, GoodRequest
    <3>2. AccountsOf(s) = {} \/ n.arg[3] \in AccountsOf(s) BY <1>4, <2>1, <3>1 DEF Reads
    <3> QED BY <1>1, <3>2
  <2> QED BY <2>3, <2>4, <2>5, <2>6 DEF Concluded
<1>5. CASE Provisions(w)
  <2>1. n.at = "serve" /\ n.op # "register" BY <1>5 DEF Provisions, Resolvers
  <2> QED BY <2>1 DEF Concluded
<1>6. CASE Plans(w)
  <2>1. k.op # "idle" /\ n.op = k.op /\ n.arg = k.arg /\ items' = items BY <1>6 DEF Plans
  <2>2. Concluded(k) /\ GoodRequest(k, requests) BY <2>1 DEF Single, Typed
  <2>3. AccountsOf(s)' = AccountsOf(s) BY <2>1 DEF AccountsOf, Accounts, Has
  <2>4. CASE k.op = "edit"
    <3>1. k.at = "read" /\ n.at = "done" /\ Has(Account(k.arg[3])) BY <1>6, <2>4 DEF Plans
    <3>2. PICK id : id = k.arg[3] OBVIOUS
    <3>3. PICK r : /\ n.todo = <<{Put(Account(id), r)}>>
                   /\ (k.arg[2] = {} /\ r.name = items[Account(id)].name) \/ r.name \in k.arg[2]
      BY <1>6, <2>4, <3>2 DEF Plans
    <3>4. k.at \notin Early /\ id # NoAccount
      BY <2>2, <2>4, <3>1, <3>2 DEF GoodRequest, Early
    <3>5. items[Account(id)].sub = s BY <2>1, <3>1, <3>2, <3>4, OwnerOf
    <3>6. Claims(id, s) BY <3>1, <3>2, <3>5 DEF Claims
    <3>7. id \in AccountsOf(s) BY <3>1, <3>2, <3>4, <3>5, <3>6, IdsKnown, InAccounts
    <3>8. \A x : n.todo = <<{Put(Account(id), x)}>> => x = r
      <4> SUFFICES ASSUME NEW x, n.todo = <<{Put(Account(id), x)}>> PROVE x = r OBVIOUS
      <4>1. <<{Put(Account(id), x)}>>[1] = <<{Put(Account(id), r)}>>[1] BY <3>3
      <4>2. Put(Account(id), x) = Put(Account(id), r) BY <4>1
      <4> QED BY <4>2 DEF Put
    <3>9. Has(Account(id))' /\ items'[Account(id)] = items[Account(id)]
      BY <2>1, <3>1, <3>2 DEF Has
    <3> QED BY <1>1, <2>1, <2>3, <2>4, <3>1, <3>2, <3>3, <3>7, <3>8, <3>9 DEF Concluded
  <2>5. CASE k.op = "register"
    <3>1. k.at = "name" /\ n.at = "done" BY <1>6, <2>5 DEF Plans
    <3>2. AccountsOf(s) \subseteq {k.arg[3]} BY <2>1, <2>2, <2>5, <3>1 DEF Concluded
    <3> QED BY <2>1, <2>3, <2>5, <3>1, <3>2 DEF Concluded
  <2>6. CASE k.op \notin {"edit", "register"}
    <3>1. n.at \in {"done", "forget"}
      <4>1. GoodRequest(n, requests') /\ n.todo # <<>> BY <1>6, <2>1 DEF Typed, Plans
      <4> QED BY <4>1 DEF GoodRequest
    <3> QED BY <1>2, <2>1, <2>6, <3>1
  <2> QED BY <2>4, <2>5, <2>6
<1>7. CASE Saves(w)
  <2>1. n # Idle BY IdleIds
  <2>2. n = With(k, n.todo, k.at) /\ k.op \notin {"edit", "register"} /\ k.op # "idle"
    BY <1>7, <2>1 DEF Saves
  <2>3. n.op = k.op /\ n.at = k.at BY <2>2, WithFields
  <2>4. k.todo # <<>>
    <3>1. Planned(k.todo) # {} BY <1>7 DEF Saves
    <3> QED BY <3>1, NoPlan
  <2>5. k.at \in {"done", "forget"} BY <2>2, <2>4 DEF Typed, GoodRequest
  <2> QED BY <1>2, <2>2, <2>3, <2>5
<1>8. CASE Finishes(w) BY <1>8, IdleIds DEF Finishes
<1> QED BY <1>3, <1>4, <1>5, <1>6, <1>7, <1>8 DEF Step

LEMMA SingleKept ==
    ASSUME Typed, FreshIds, Owned, NEW w \in Worker, Step(w), Typed', NEW s \in Identity,
           Single(s), ~Racing(s)'
    PROVE  Single(s)'
<1> DEFINE k == call[w]
<1>1. ASSUME NEW v \in Worker, call'[v].op # "idle", call'[v].arg[1] = s
      PROVE  Concluded(call[v])'
  <2>1. CASE v = w BY <1>1, <2>1, OwnSound
  <2>2. CASE v # w
    <3>1. call'[v] = call[v] BY <2>2 DEF Step
    <3> QED BY <1>1, <2>2, <3>1, OthersConcluded
  <2> QED BY <2>1, <2>2
<1>2. \A i, j \in AccountsOf(s) : i = j BY DEF Single
<1>3. \A i, j \in AccountsOf(s)' : i = j
  <2>1. CASE AccountsOf(s)' \subseteq AccountsOf(s) BY <1>2, <2>1
  <2>2. CASE /\ Provisions(w) /\ s = k.arg[1]
             /\ AccountsOf(s)' \subseteq AccountsOf(s) \cup {Provisional(s)}
    <3>1. k.at = "provision" /\ k.op # "idle" BY <2>2 DEF Provisions
    <3>2. AccountsOf(s) \subseteq {Provisional(s)} BY <2>2, <3>1 DEF Single, Concluded
    <3> QED BY <2>2, <3>2
  <2>3. CASE /\ PutsRow(w) /\ s = k.arg[1]
             /\ \E j : /\ k.arg[3] # NoAccount => j = k.arg[3]
                       /\ AccountsOf(s)' \subseteq AccountsOf(s) \cup {j}
    <3>1. k.op \in {"edit", "register"} /\ k.at = "done" /\ k.op # "idle" BY <2>3 DEF PutsRow
    <3>2. AccountsOf(s) \subseteq {k.arg[3]} BY <2>3, <3>1 DEF Single, Concluded
    <3>3. NoAccount \notin AccountsOf(s) BY AccountKinds, InAccounts
    <3>4. PICK j : /\ k.arg[3] # NoAccount => j = k.arg[3]
                   /\ AccountsOf(s)' \subseteq AccountsOf(s) \cup {j}
      BY <2>3
    <3>5. AccountsOf(s)' \subseteq {j} BY <3>2, <3>3, <3>4
    <3> QED BY <3>5
  <2> QED BY <2>1, <2>2, <2>3, AccountsAfter
<1> QED BY <1>1, <1>3 DEF Single

-----------------------------------------------------------------------------
(* Chosen names.                                                           *)

OneAt(x) == \A v, w \in Worker : x \in call[v].on /\ x \in call[w].on => v = w

Owner(i) == items[Account(i)].sub

\* A request that has found the name free, or its caller's.
Takes(k, n) ==
    /\ k.op # "idle" /\ k.arg[2] = {n}
    /\ (k.op = "edit" /\ k.at \in {"read", "done"}) \/ (k.op = "register" /\ k.at = "done")

\* A name that was asked for by one request at a time.
NameOnce(n) ==
    /\ OneAt(UserName(n))
    /\ \A i, j \in AccountsNamed(n) : i = j \/ Owner(i) \in raced \/ Owner(j) \in raced
    /\ \A w \in Worker : Takes(call[w], n) =>
          \A i \in AccountsNamed(n) :
              i = call[w].arg[3] \/ Owner(i) \in raced \/ call[w].arg[1] \in raced

ChosenNames == Name \ {Placeholder(s).name : s \in Identity}

NamesOnce == \A n \in ChosenNames : UserName(n) \notin shared => NameOnce(n)

\* The id of the account a registration or an edit puts.
PutId(k) == IF k.arg[3] = NoAccount THEN DrawnBy(k) ELSE k.arg[3]

LEMMA InNamed ==
    ASSUME NEW n
    PROVE  /\ \A i : i \in AccountsNamed(n) <=>
                 i \in AccountIds /\ Has(Account(i)) /\ items[Account(i)].name = n
           /\ \A i : i \in AccountsNamed(n)' <=>
                 i \in AccountIds /\ Has(Account(i))' /\ items'[Account(i)].name = n
BY DEF AccountsNamed, Accounts

\* How a step may give an account a chosen name.
LEMMA NamedAfter ==
    ASSUME Typed, Owned, Singles, NEW w \in Worker, Step(w), NEW n \in ChosenNames,
           NEW i \in AccountsNamed(n)'
    PROVE  LET k == call[w]
           IN  \/ i \in AccountsNamed(n) /\ items'[Account(i)].sub = items[Account(i)].sub
               \/ /\ PutsRow(w) /\ items'[Account(i)].sub = k.arg[1]
                  /\ k.arg[2] = {n} \/ k.arg[1] \in raced
                  /\ i = PutId(k)
<1> DEFINE k == call[w]
<1>0. i \in AccountIds /\ Has(Account(i))' /\ items'[Account(i)].name = n BY InNamed
<1>1. CASE items' = items BY <1>0, <1>1, InNamed DEF Has
<1>2. CASE Has(Account(i)) /\ items'[Account(i)] = items[Account(i)]
  BY <1>0, <1>2, InNamed
<1>3. CASE Provisions(w)
  <2>1. PICK t, j, r : t = k.arg[1] /\ j = Provisional(t) /\ r = Placeholder(t) OBVIOUS
  <2>2. items' = After(PutNew(Account(j), r)) BY <1>3, <2>1 DEF Provisions
  <2>3. t \in Identity BY <1>3, <2>1 DEF Provisions, Typed, GoodRequest
  <2>4. r.name # n BY <2>1, <2>3 DEF ChosenNames
  <2>5. \/ items' = items
        \/ /\ items'[Account(j)] = r
           /\ \A x : x # j => /\ Has(Account(x))' <=> Has(Account(x))
                              /\ Has(Account(x)) => items'[Account(x)] = items[Account(x)]
    BY <2>2, PutNewRow
  <2> QED BY <1>0, <1>1, <1>2, <2>4, <2>5
<1>4. CASE PutsRow(w)
  <2>1. PICK j, r :
           /\ r.sub = k.arg[1]
           /\ k.op = "register" => r.name \in k.arg[2]
           /\ \/ /\ k.arg[3] # NoAccount /\ j = k.arg[3]
                 /\ k.todo = <<{Put(Account(j), r)}>> /\ items'[Account(j)] = r
              \/ /\ k.op = "register" /\ k.arg[3] = NoAccount /\ j = DrawnBy(k)
                 /\ items' = items \/ items'[Account(j)] = r
           /\ \A x : x # j =>
                 /\ Has(Account(x))' <=> Has(Account(x))
                 /\ Has(Account(x)) => items'[Account(x)] = items[Account(x)]
    BY <1>4 DEF PutsRow
  <2>2. CASE i # j BY <1>0, <1>2, <2>1, <2>2
  <2>3. CASE i = j /\ items'[Account(j)] = r
    <3>1. r.name = n BY <1>0, <2>3
    <3>2. k.op \in {"edit", "register"} /\ k.at = "done" /\ k.op # "idle" BY <1>4 DEF PutsRow
    <3>3. GoodRequest(k, requests) BY <3>2 DEF Typed
    <3>4. CASE n \in k.arg[2] \/ k.arg[1] \in raced
      <4>1. k.arg[2] = {n} \/ k.arg[1] \in raced BY <3>3, <3>4 DEF GoodRequest
      <4> QED BY <1>4, <2>1, <2>3, <4>1 DEF PutId
    <3>5. CASE n \notin k.arg[2] /\ k.arg[1] \notin raced
      <4>1. k.op = "edit" /\ k.op # "register" BY <2>1, <3>1, <3>2, <3>5
      <4>2. k.arg[3] # NoAccount /\ k.arg[1] \in Identity /\ j = k.arg[3]
            /\ k.todo = <<{Put(Account(j), r)}>>
        BY <2>1, <3>3, <4>1 DEF GoodRequest
      <4>3. Concluded(k) BY <3>2, <3>5, <4>2 DEF Singles, Single
      <4>4. Has(Account(j)) /\ r.name = items[Account(j)].name
        BY <3>1, <3>2, <3>5, <4>1, <4>2, <4>3 DEF Concluded
      <4>5. items[Account(j)].sub = k.arg[1]
        BY <3>2, <4>2, <4>4, OwnerOf DEF Early
      <4>6. i \in AccountsNamed(n) BY <1>0, <2>3, <3>1, <4>4, InNamed
      <4> QED BY <2>1, <2>3, <4>5, <4>6
    <3> QED BY <3>4, <3>5
  <2>4. CASE items' = items BY <1>1, <2>4
  <2> QED BY <2>1, <2>2, <2>3, <2>4
<1>5. CASE DropsRow(w) BY <1>0, <1>2, <1>5 DEF DropsRow
<1>6. CASE Saves(w) BY <1>4, <1>5, <1>6, SaveKinds
<1> QED BY <1>1, <1>3, <1>6 DEF Step, Begins, Reads, Plans, Finishes

LEMMA OnAfter ==
    ASSUME Typed, NEW w \in Worker, Step(w), NEW x, x \in call'[w].on, x \notin shared'
    PROVE  /\ x \in call[w].on \/ (Begins(w) /\ \A v \in Worker \ {w} : x \notin call[v].on)
           /\ call'[w] # Idle
<1> DEFINE k == call[w]
           n == call'[w]
<1>0. n # Idle BY IdleCall
<1>1. CASE Begins(w) BY <1>0, <1>1 DEF Begins
<1>2. CASE Reads(w) \/ Provisions(w) \/ Plans(w)
  BY <1>0, <1>2 DEF Reads, Provisions, Plans
<1>3. CASE Saves(w)
  <2>1. n = With(k, n.todo, k.at) BY <1>0, <1>3 DEF Saves
  <2>2. n.on = k.on BY <2>1, WithFields
  <2> QED BY <1>0, <2>2
<1>4. CASE Finishes(w) BY <1>0, <1>4 DEF Finishes
<1> QED BY <1>1, <1>2, <1>3, <1>4 DEF Step

\* The name is free, or the caller's own.
LEMMA TakesOwn ==
    ASSUME Typed, Owned, NEW n, NameOnce(n), NEW w \in Worker, call[w].op # "idle",
           call[w].at \notin Early,
           AccountsNamed(n) = {} \/ call[w].arg[3] \in AccountsNamed(n),
           NEW i \in AccountsNamed(n)
    PROVE  i = call[w].arg[3] \/ Owner(i) \in raced \/ call[w].arg[1] \in raced
<1> DEFINE id == call[w].arg[3]
<1>1. id \in AccountsNamed(n) OBVIOUS
<1>2. Has(Account(id)) /\ id # NoAccount BY <1>1, InNamed, AccountKinds
<1>3. Owner(id) = call[w].arg[1] BY <1>2, OwnerOf DEF Owner
<1>4. i = id \/ Owner(i) \in raced \/ Owner(id) \in raced BY <1>1 DEF NameOnce
<1> QED BY <1>3, <1>4

LEMMA NameKept ==
    ASSUME Typed, Owned, Singles, NEW w \in Worker, Step(w), NEW n \in ChosenNames,
           NameOnce(n), UserName(n) \notin shared', raced \subseteq raced'
    PROVE  NameOnce(n)'
<1> DEFINE k == call[w]
           m == call'[w]
           x == UserName(n)
<1>0. \A v \in Worker : v # w => call'[v] = call[v] BY DEF Step
<1>1. ASSUME NEW u \in Worker, NEW v \in Worker, x \in call'[u].on, x \in call'[v].on
      PROVE  u = v
  <2>1. OneAt(x) BY DEF NameOnce
  <2>2. ASSUME x \in m.on
        PROVE  x \in k.on \/ \A z \in Worker \ {w} : x \notin call[z].on
    BY <2>2, OnAfter
  <2> HIDE DEF x
  <2> QED BY <1>0, <1>1, <2>1, <2>2 DEF OneAt
<1>2. ASSUME NEW i \in AccountsNamed(n)'
      PROVE  \/ i \in AccountsNamed(n) /\ items'[Account(i)].sub = Owner(i)
             \/ items'[Account(i)].sub \in raced
             \/ PutsRow(w) /\ k.arg[2] = {n} /\ i = PutId(k)
  BY NamedAfter DEF Owner
<1>3. ASSUME PutsRow(w), k.arg[2] = {n}, NEW j \in AccountsNamed(n)
      PROVE  j = PutId(k) \/ Owner(j) \in raced \/ k.arg[1] \in raced
  <2>1. Takes(k, n) BY <1>3 DEF Takes, PutsRow
  <2>2. j # NoAccount BY <1>3, InNamed, AccountKinds
  <2> QED BY <1>3, <2>1, <2>2 DEF NameOnce, PutId
<1>4. ASSUME PutsRow(w), NEW i \in AccountsNamed(n)', i = PutId(k), k.arg[1] \in raced
      PROVE  items'[Account(i)].sub \in raced
  <2>1. PICK j, r : /\ r.sub = k.arg[1] /\ Has(Account(j))'
                    /\ j = PutId(k)
                    /\ items'[Account(j)] = r \/ items' = items
    BY <1>4 DEF PutsRow, PutId
  <2>2. CASE items'[Account(j)] = r BY <1>4, <2>1, <2>2
  <2>3. CASE items' = items
    <3>1. Has(Account(i)) BY <1>4, <2>1, <2>3 DEF Has
    <3>2. Claims(i, k.arg[1])
      BY <1>4, DoneClaims DEF PutsRow, PutId
    <3>3. k.arg[1] \in Identity /\ items[Account(i)].sub \in Identity
      BY <1>4, <3>1 DEF PutsRow, Typed, GoodRequest, Row
    <3>4. i # NoAccount BY <1>4 DEF PutId, DrawnBy, NoAccount
    <3>5. Claims(i, items[Account(i)].sub) BY <3>1 DEF Claims
    <3>6. items[Account(i)].sub = k.arg[1] BY <3>2, <3>3, <3>4, <3>5 DEF Owned
    <3> QED BY <1>4, <2>3, <3>6
  <2> QED BY <2>1, <2>2, <2>3
<1>5. ASSUME NEW i \in AccountsNamed(n)', NEW j \in AccountsNamed(n)'
      PROVE  i = j \/ items'[Account(i)].sub \in raced' \/ items'[Account(j)].sub \in raced'
  <2>1. CASE /\ i \in AccountsNamed(n) /\ items'[Account(i)].sub = Owner(i)
             /\ j \in AccountsNamed(n) /\ items'[Account(j)].sub = Owner(j)
    BY <2>1 DEF NameOnce
  <2>2. CASE items'[Account(i)].sub \in raced \/ items'[Account(j)].sub \in raced BY <2>2
  <2>3. CASE /\ PutsRow(w) /\ k.arg[2] = {n} /\ i = PutId(k)
             /\ j \in AccountsNamed(n) /\ items'[Account(j)].sub = Owner(j)
    BY <1>3, <1>4, <1>5, <2>3
  <2>4. CASE /\ PutsRow(w) /\ k.arg[2] = {n} /\ j = PutId(k)
             /\ i \in AccountsNamed(n) /\ items'[Account(i)].sub = Owner(i)
    BY <1>3, <1>4, <1>5, <2>4
  <2>5. CASE i = PutId(k) /\ j = PutId(k) BY <2>5
  <2> QED BY <1>2, <1>5, <2>1, <2>2, <2>3, <2>4, <2>5
<1>6. ASSUME NEW v \in Worker, Takes(call'[v], n), NEW i \in AccountsNamed(n)'
      PROVE  i = call'[v].arg[3] \/ items'[Account(i)].sub \in raced' \/ call'[v].arg[1] \in raced'
  <2>1. CASE v # w
    <3>1. call'[v] = call[v] /\ Takes(call[v], n) BY <1>0, <1>6, <2>1
    <3>2. ~(PutsRow(w) /\ k.arg[2] = {n})
      <4>1. SUFFICES ASSUME PutsRow(w), k.arg[2] = {n} PROVE FALSE OBVIOUS
      <4>2. k.op # "idle" BY <4>1 DEF PutsRow
      <4>3. GoodRequest(k, requests) /\ GoodRequest(call[v], requests)
        BY <3>1, <4>2 DEF Typed, Takes
      <4>4. x \in k.on /\ x \in call[v].on BY <3>1, <4>1, <4>3 DEF GoodRequest, Takes
      <4> QED BY <2>1, <4>4 DEF NameOnce, OneAt
    <3>3. CASE i \in AccountsNamed(n) /\ items'[Account(i)].sub = Owner(i)
      BY <3>1, <3>3 DEF NameOnce
    <3> QED BY <1>2, <1>6, <3>2, <3>3
  <2>2. CASE v = w
    <3>1. m.op # "idle" /\ m # Idle /\ m.op \in {"edit", "register"}
          /\ m.at \in {"read", "done"} /\ (m.op = "register" => m.at = "done")
      BY <1>6, <2>2, IdleCall DEF Takes
    <3>2. (Reads(w) /\ m.at = "read") \/ Plans(w)
      <4>1. ~Begins(w) BY <3>1 DEF Begins, Resolvers
      <4>2. ~Provisions(w) BY <3>1 DEF Provisions
      <4>3. ~Finishes(w) BY <3>1 DEF Finishes
      <4>4. ~Saves(w)
        <5>1. SUFFICES ASSUME Saves(w) PROVE FALSE OBVIOUS
        <5>2. m = With(k, m.todo, k.at) /\ k.op \notin {"edit", "register"}
          BY <3>1, <5>1 DEF Saves
        <5>3. m.op = k.op BY <5>2, WithFields
        <5> QED BY <3>1, <5>2, <5>3
      <4>5. Reads(w) => m.at # "done" BY DEF Reads
      <4> QED BY <3>1, <4>1, <4>2, <4>3, <4>4, <4>5 DEF Step
    <3>3. /\ items' = items /\ k.op # "idle" /\ m.op = k.op
          /\ m.arg[1] = k.arg[1] /\ m.arg[2] = k.arg[2] /\ m.arg[3] = k.arg[3]
      BY <3>1, <3>2 DEF Reads, Plans
    <3>4. i \in AccountsNamed(n) /\ items'[Account(i)].sub = Owner(i)
      BY <1>6, <3>3 DEF AccountsNamed, Accounts, Has, Owner
    <3>5. k.arg[2] = {n} BY <1>6, <2>2, <3>3 DEF Takes
    <3>6. \/ Takes(k, n)
          \/ /\ k.at \notin Early
             /\ AccountsNamed(n) = {} \/ k.arg[3] \in AccountsNamed(n)
      <4>1. CASE Reads(w) /\ m.at = "read" BY <3>3, <3>5, <4>1 DEF Reads, Early
      <4>2. CASE Plans(w) BY <3>1, <3>3, <3>5, <4>2 DEF Plans, Early, Takes
      <4> QED BY <3>2, <4>1, <4>2
    <3>7. i = k.arg[3] \/ Owner(i) \in raced \/ k.arg[1] \in raced
      BY <3>3, <3>4, <3>6, TakesOwn DEF NameOnce
    <3> QED BY <2>2, <3>3, <3>4, <3>7
  <2> QED BY <2>1, <2>2
<1> QED BY <1>1, <1>5, <1>6 DEF NameOnce, OneAt, Owner

-----------------------------------------------------------------------------
(* The inductive invariant.                                                *)

AccountsInv == Typed /\ Owned /\ FreshIds /\ Singles /\ NamesOnce

LEMMA InvInit == AccountsInit => AccountsInv
<1> SUFFICES ASSUME AccountsInit PROVE AccountsInv OBVIOUS
<1>1. /\ items = <<>> /\ call = [w \in Worker |-> Idle]
  BY DEF AccountsInit, TableInit
<1>2. Typed /\ Owned /\ FreshIds BY TypedInit, ClaimsInit
<1>3. \A w \in Worker : call[w].op = "idle" /\ call[w].on = {} BY <1>1, IdleCall
<1>4. \A key : ~Has(key) BY <1>1 DEF Has
<1>5. Singles
  <2>1. \A s : AccountsOf(s) = {} BY <1>4, InAccounts
  <2> QED BY <1>3, <2>1 DEF Singles, Single, Racing
<1>6. NamesOnce
  <2>1. \A n : AccountsNamed(n) = {} BY <1>4, InNamed
  <2> QED BY <1>3, <2>1 DEF NamesOnce, NameOnce, OneAt, Takes
<1> QED BY <1>2, <1>5, <1>6 DEF AccountsInv

LEMMA StepCounts ==
    ASSUME NEW w \in Worker, Step(w)
    PROVE  requests' \in {requests, requests + 1} /\ shared \subseteq shared'
BY DEF Step, Begins, Reads, Provisions, Plans, Saves, Finishes

LEMMA InvStep ==
    ASSUME AccountsInv, AccountsNext
    PROVE  AccountsInv'
<1>0. Typed /\ Owned /\ FreshIds /\ Singles /\ NamesOnce BY DEF AccountsInv
<1>1. Typed' BY <1>0, Steps
<1>2. PICK w \in Worker : Step(w) BY <1>0, Steps
<1>3. raced' = raced \cup {s \in Identity : Racing(s)'} BY DEF AccountsNext, Races, Racing
<1>4. requests' \in {requests, requests + 1} /\ shared \subseteq shared' BY <1>2, StepCounts
<1>5. Owned' BY <1>0, <1>2, OwnedKept
<1>6. FreshIds' BY <1>0, <1>2, <1>4, FreshKept
<1>7. Singles'
  <2> SUFFICES ASSUME NEW s \in Identity \ raced' PROVE Single(s)' BY DEF Singles
  <2>1. s \notin raced /\ ~Racing(s)' BY <1>3
  <2>2. Single(s) BY <1>0, <2>1 DEF Singles
  <2> QED BY <1>0, <1>1, <1>2, <2>1, <2>2, SingleKept
<1>8. NamesOnce'
  <2> SUFFICES ASSUME NEW n \in ChosenNames, UserName(n) \notin shared' PROVE NameOnce(n)'
    BY DEF NamesOnce
  <2>1. UserName(n) \notin shared /\ raced \subseteq raced' BY <1>3, <1>4
  <2>2. NameOnce(n) BY <1>0, <2>1 DEF NamesOnce
  <2> QED BY <1>0, <1>2, <2>1, <2>2, NameKept
<1> QED BY <1>1, <1>5, <1>6, <1>7, <1>8 DEF AccountsInv

LEMMA InvStutter ==
    ASSUME AccountsInv, UNCHANGED accountsVars
    PROVE  AccountsInv'
<1>1. /\ items' = items /\ call' = call /\ requests' = requests /\ shared' = shared
      /\ cache' = cache /\ raced' = raced
  BY DEF accountsVars, tableVars
<1>2. Typed'
  <2>0. Typed BY DEF AccountsInv
  <2>1. CallsOK' /\ Known' BY <1>1, <2>0 DEF Typed, CallsOK, Known
  <2>2. \A id : Has(Account(id))' => Row(items'[Account(id)]) BY <1>1, <2>0, RowsSame
  <2>3. \A w \in Worker : call'[w].op # "idle" => GoodRequest(call'[w], requests')
    BY <1>1, <2>0 DEF Typed
  <2>4. \A v, w \in Worker : call'[v].op # "idle" /\ call'[w].id = call'[v].id => v = w
    BY <1>1, <2>0 DEF Typed
  <2> QED BY <1>1, <2>0, <2>1, <2>2, <2>3, <2>4 DEF Typed
<1>3. (\A i : Has(Account(i))' <=> Has(Account(i))) BY <1>1 DEF Has
<1>4. Owned' /\ FreshIds'
  <2>1. ASSUME NEW id, NEW s PROVE Claims(id, s)' <=> Claims(id, s)
    <3>1. Has(Account(id))' /\ items'[Account(id)].sub = s
             <=> Has(Account(id)) /\ items[Account(id)].sub = s
      BY <1>1, <1>3
    <3>2. (\E w \in Worker : cache'[w][s] = id) <=> (\E w \in Worker : cache[w][s] = id)
      BY <1>1
    <3>3. (\E w \in Worker : id \in Ids(call'[w]) /\ call'[w].arg[1] = s)
             <=> (\E w \in Worker : id \in Ids(call[w]) /\ call[w].arg[1] = s)
      BY <1>1
    <3> QED BY <3>1, <3>2, <3>3 DEF Claims
  <2> QED BY <1>1, <2>1 DEF AccountsInv, Owned, FreshIds
<1>5. \A s : AccountsOf(s)' = AccountsOf(s) BY <1>1 DEF AccountsOf, Accounts, Has
<1>6. \A n : AccountsNamed(n)' = AccountsNamed(n) BY <1>1 DEF AccountsNamed, Accounts, Has
<1>7. Singles' BY <1>1, <1>3, <1>5 DEF AccountsInv, Singles, Single, Racing, Concluded
<1>8. NamesOnce' BY <1>1, <1>6 DEF AccountsInv, NamesOnce, NameOnce, OneAt, Owner
<1> QED BY <1>2, <1>4, <1>7, <1>8 DEF AccountsInv

\* The invariant holds of every behaviour of the module: what requests have found
\* out about accounts stays true until they use it.
THEOREM AccountsInvHolds == AccountsSpec => []AccountsInv
<1>1. AccountsInv /\ [AccountsNext]_accountsVars => AccountsInv' BY InvStep, InvStutter
<1> QED BY <1>1, InvInit, PTL DEF AccountsSpec

LEMMA InvOneAccount == AccountsInv => OneAccount
<1> SUFFICES ASSUME AccountsInv PROVE OneAccount OBVIOUS
<1>1. ASSUME NEW s \in Identity \ raced PROVE Cardinality(AccountsOf(s)) <= 1
  <2>1. \A i, j \in AccountsOf(s) : i = j BY DEF AccountsInv, Singles, Single
  <2>2. AtMostOne(AccountsOf(s)) BY <2>1 DEF AtMostOne
  <2> QED BY <2>2, AtMostOneOf
<1>2. ASSUME NEW w \in Worker, NEW s \in Identity, cache[w][s] \in Accounts
      PROVE  items[Account(cache[w][s])].sub = s
  <2>1. PICK i : i = cache[w][s] OBVIOUS
  <2>2. i # NoAccount /\ Has(Account(i)) BY <1>2, <2>1, AccountKinds DEF Accounts
  <2>3. items[Account(i)].sub \in Identity BY <2>2 DEF AccountsInv, Typed, Row
  <2>4. Claims(i, s) /\ Claims(i, items[Account(i)].sub) BY <2>1, <2>2 DEF Claims
  <2> QED BY <2>1, <2>2, <2>3, <2>4 DEF AccountsInv, Owned
<1> QED BY <1>1, <1>2 DEF OneAccount

LEMMA InvNamesDiffer == AccountsInv => NamesDiffer
<1> SUFFICES ASSUME AccountsInv PROVE NamesDiffer OBVIOUS
<1> SUFFICES ASSUME NEW n \in ChosenNames, UserName(n) \notin shared,
                    NEW i \in AccountsNamed(n), NEW j \in AccountsNamed(n), i # j
             PROVE  {items[Account(i)].sub, items[Account(j)].sub} \cap raced # {}
  BY DEF NamesDiffer, ChosenNames
<1>1. NameOnce(n) BY DEF AccountsInv, NamesOnce
<1> QED BY <1>1 DEF NameOnce, Owner

\* An identity has at most one account unless a registration, an edit or a deletion
\* of it overlapped with another of its requests; and no process remembers for it an
\* account of somebody else.  The reason is that a provisional id is the identity's
\* own, and that nobody else ever comes to the id of an account
\* (_provision_user, register_user, get_current_user_id).
THEOREM AccountsAreSingle == AccountsSpec => []OneAccount
BY AccountsInvHolds, InvOneAccount, PTL

\* Two accounts have the same chosen name only if requests for the name overlapped
\* or an account was put back over another request of its user: the answer of the
\* look-up (get_by_username) stays true until the account is written.
THEOREM NamesAreDifferent == AccountsSpec => []NamesDiffer
BY AccountsInvHolds, InvNamesDiffer, PTL
=============================================================================
