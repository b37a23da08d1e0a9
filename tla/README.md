# TLA+ models of lingo-core

lingo-core is the FastAPI service behind a language-learning app. It runs as a
Lambda function (and, in development, as one process), keeps its state in
DynamoDB tables (SQLite in development), and talks to a client that buffers its
work and synchronises now and then. Nothing in the service is locked: a handler
is a sequence of awaited calls to repositories, each of which is atomic for one
item at most, and between any two of them other requests of the same user run,
or the process dies. These models are about what that can do to the data.

Paths below are relative to the repository; `router.py:212` is a line number.

## The system

| component | state | operations | hard behaviour | what makes it correct |
|---|---|---|---|---|
| quests (`app/quests`, `app/db/dynamo/quests.py`) | one item per quest of a user: status, progress, expiry | bump, claim, list (sweeps and mints), refresh, and the internal bump called by the worker service | the row is read, then written without a condition; the sweep deletes by type and restores; expiry depends on the user's time zone, which moves | a quest is settled and paid once; what is listed is current |
| progress batch (`app/progress/router.py`, `app/db/dynamo/progress.py`) | ATTEMPT#, CLIENT#, LESSON#, DAY#, CONCEPT#, OP# items; XP, lingots, streak on the user row; streak freezes in the settings item | batch, bulk-complete, reset, reads | four writes per attempt that are not one transaction; client retries; overlapping batches; the user row written back whole; midnight | nothing lost, nothing counted or paid twice, streak earned |
| user row (`app/users`, `app/db/dynamo/user.py`, `app/admin/ban_router.py`, `app/admin/xp_router.py`, shop and unlocks in `app/progress/router.py`) | one item per user and one settings item | register, update, delete, grant XP, ban, buy, unlock | `update_user` puts back the whole row it read, or was given | a write by one feature does not undo another's |
| authentication (`app/auth`) | the user row; an in-process cache of user ids; the zone stored for the user | resolve, provision on first touch, impersonate, `sync_request_timezone` | concurrent first requests; a cache that outlives the row | one account per identity |
| SRS (`app/srs`, `app/db/dynamo/srs.py`) | one item per card, per user | sync, upsert, delete, clear | two devices; last review wins, decided by a read or by a condition | no review is replaced by an older one |
| social (`app/social`, `app/db/dynamo/social.py`) | requests, friendship edges, blocks, reactions, invites, redemptions, threads, messages | send, accept, reject, unfriend, block, invite, redeem, open thread, post | most facts are two items; several reads, then several writes, none conditional | no friendship nobody agreed to; a block leaves none; a cap is a cap; two users have one thread |
| leaderboard (`app/db/dynamo/leaderboard.py`) | XP per bucket, added up by another service | global board, friends' board, spotlight | rank, size and page are queries side by side | the parts of one answer agree |
| decks, stories, tags, subscriptions (`app/decks`, `app/stories`, `app/tags`, `app/users/subscriptions`) | decks with their cards, votes, tags and their mirrors, stories, subscriptions | create, edit, approve, add cards, vote, tag, subscribe, delete | read, changed in memory, put back whole; deletions that cascade | what is deleted stays deleted and leaves no orphan; an update keeps what it does not name |
| community (`app/community`) | threads, posts with a copy in their thread, votes, counters, addons, markdown | create, edit, reply, vote, publish | counters and copies are written after what they are derived from | counters equal what they count; copies equal their originals |
| repositories (`app/db/dynamo`, `app/db/sqlite`) | the same facts as items in DynamoDB, as tables in SQLite | every method | mirror rows, indexes with copies of their sort keys, filters in memory | both answer the same |
| paged lists (attempts, users, audit log) | - | one page after another, by cursor | rows come and go between two pages; cursors are times, offsets or keys | no row skipped, none twice |
| admin, telemetry, ads, settings, moderation, finance, boot | mostly single items, append-only logs, or nothing | queries and single-item writes | few | - |
| client and worker service (not in this repository) | the client's buffer; the event queue | sends batches, drops what was accepted; bumps quests on events | gives up and resends | - |

The components meet in the user row: quest rewards, batches, bans, purchases and
the time zone are attributes of one item, and each writer puts the whole item.
They also meet in events: a batch publishes `lesson_completed`, whose consumer
calls the internal quest bump, once for each time it is published.

## Modules

* `Quests` - the quests of one user, every endpoint, call by call, with the
  reward on the user row and the time zone (`GET /boot`).
* `MCQuests` - its instance for TLC.
* `QuestsProofs` - its theorems.
* `ProgressSync` - `POST /progress/lessons/batch` with the client's buffer, the
  progress table, the user row, the streak and the freezes.
* `MCProgressSync` - its instances for TLC; `ProgressSyncProofs` - its theorems.
* `UserRow` - every writer of the user row and of the settings item: awards,
  adjustments, quest rewards, bans, resets, registration, lessons, unlocks, the
  shop, deletion and first touch, each down to the put of a whole item.
* `Ledger` - the account those two items stand for: one step per request.
* `UserRowLedger` - the mapping of the items to the account, and the claim that
  requests served in order implement it.
* `MCUserRow` - the instances for TLC; `UserRowProofs` - the theorems.
* `SrsSync` - the cards of a user: push, delete, clear; `MCSrsSync` - its
  instance; `SrsSyncProofs` - its theorems, and the one about `Leaderboards`.
* `Table` - what the following modules share: a table of items, workers that
  make one call to it at a time, plans of writes, crashes; `TableProofs` - lemmas
  about them.
* `SocialGraph` - friends, requests, blocks, invites, threads, reactions;
  `Leaderboards` - the boards; `MCSocialGraph` - the instances of both.
  `SocialGraphProofs` - what each kind of step of `SocialGraph` does, and its
  theorems.
* `Community` - threads, posts, votes, addons; `ForumStores`, `SocialStores` -
  the community and social repositories of DynamoDB and SQLite side by side;
  `MCCommunity` - the instances of the three; `CommunityProofs` - the theorems
  of `Community`.
* `Content` - decks, tags, stories, subscriptions; `Accounts` - identities, user
  names, provisioning, deletion; `LessonHistory` - the rows of the lessons with
  bulk-complete and reset; `LibraryStores` - the repositories of decks, tags,
  stories and subscriptions; `Listings` - the lists that come in pages;
  `MCContent` - the instances of the five; `ContentProofs` - the theorems of
  `Content`, `LessonHistory` and `Accounts`.

The first four groups follow one convention: a worker's record `call[w]` holds a program counter
and the handler's local variables; **one action is one call to the repository,
with the decision the handler takes on its result**. So a value that is read in
one action and used in a later one may be stale, as it may be in the code. A
worker that dies (`Crash`) loses its record and nothing else.

The modules over `Table` shorten that: a handler there is reads with decisions
(an action each, `Keep` for what it goes on with), and then a *plan*, a sequence
of sets of writes: `Write` makes one of them, so two calls of a plan are two
steps; the writes of one set have no order, as those of a batch or of
`asyncio.gather` have none. `Write` is atomic for one item and does what the call
does: `Update` on a key that is not there makes an item of the attributes it
sets. A request is *about* some subjects, and `shared` and `torn` remember the
subjects about which two requests were served at once, or one ended in the
middle. Many properties hold of a subject only while it is in neither: they say
what a sequence of requests guarantees, and their runs contain the overlaps that
would break them. The others hold whatever overlaps.

### Quests

`rows` is the quests table: an id is `<<type, slot, bucket>>`, where the bucket
is the local day or week, because the code's ids are made of the slug and the
local date (`router.py:302,326`) and the pick is a pure function of them
(`_seeded_pick`). A row has its status, progress, expiry, and `whole`: an
unconditional `update_item` (`dynamo/quests.py:182`) on a key that a sweep
deleted creates an item with two attributes only, on which every later listing
raises `KeyError` (`item["id"]`).

| actions | code |
|---|---|
| `BumpRead`, `BumpWrite` | `update_progress`: a read, then a SET of what was computed from it |
| `ClaimRead`, `ClaimFlip`, `ClaimLost` | `claim_quest`: a read, then the conditional update |
| `ReadPurse`, `ReadRow`, `PayReward` | the reward: `get_user_by_id`, then the read and the put in `update_user` |
| `ListStart`, `ListRows`, `QueryKind`, `DeleteRow`, `Refetch`, `RestoreRow`, `MintRow` | `list_quests` and `_ensure_active_catalog` |
| `RefreshStart`, `QueryAll`, `WipeRow`, `Reseed`, `MintRow` | `refresh_quests` |
| `BootRead`, `SyncTimezone` | `sync_request_timezone`, which puts back the row read by `get_boot` |
| `Tick`, `Crash` | time; a process that dies |

Left out: quest texts and pools (`Slot` says which are picked), daylight saving
(an offset is fixed), friend quests (no endpoint mints them), and reward sizes
(`lingots` counts rewards). Deletions in a batch are one action each, in any
order, as `BatchWriteItem` gives no order.

The history variables say which quests were flipped (`flips`), which flips were
paid (`paid`), which completed rows were overwritten or deleted (`disturbed`),
and whether requests came one at a time (`orderly`); no action reads them but
the bound `MaxClaims`.

### ProgressSync

`buffer`, `fresh` and `waiting` are the client: it sends its whole buffer, in any
order, waits,
gives up, sends again, drops accepted final attempts, keeps drafts, and replaces
a draft by the final attempt of its lesson (ADR-0001, "Sync model" and "Client
buffer"). `log` and `applied` are the ATTEMPT# and CLIENT# items; `lessons`
counts, for each attempt, how often it was added to the LESSON# rollup; `days` has
the dates of the DAY# rows it was added to, one for each time; `user.xp`
counts how often each attempt is part of the row's XP and lingots.

| actions | code |
|---|---|
| `ReadUser` | the read before the loop, and the first `date.today()` |
| `CheckAttempt` | `attempt_exists` and the branches on it: replay, draft, too short, new, repair |
| `UpdateSteps`, `PutAttempt`, `UpdateLessonRollup`, `UpdateDayRollup`, `MarkRollupApplied` | the calls of `_process_one_attempt` |
| `Fail` | any of them raises without effect, and the loop goes on (`router.py:142`); one that has had its effect is the same as the next one raising |
| `FailAfterMark` | the mark, which is the last, raises though it has landed |
| `Settle`, `ReadFreezes`, `SpendFreezes` | the streak, with the second `date.today()` |
| `WriteUser`, `Answer` | `update_user(..., current=user_record)`, the response |
| `Complete`, `Send`, `GiveUp` | the client (external) |
| `Midnight`, `Crash` | the environment |

Left out: the content of attempts and scores, the events that are published
after the write, the settings read for them, and concept rollups (never written
on this path). `checkStreak` is the client's word; the model lets it be anything.

### UserRow, Ledger, UserRowLedger

`update_user` (`dynamo/user.py:142`) reads the row unless the handler passes the
one it has, merges the patch and puts the item, with no condition;
`update_settings` does the same with the settings. So the model has two kinds of
writer: `Update(patch)` computes a patch from one read and merges it into a
second (`ReadRow`, `PutRow`), and a `Lesson`, `Register` or `Boot` puts back the
row of its first read. `Merge` is `dict.update`.

| actions | code |
|---|---|
| `AwardXp` | `award_xp`, `adjust_lms_xp`, `internal_add_xp`: XP and level in one patch |
| `AdjustLingots` | `adjust_lms_lingots`, `watched_ad` (the ad's credit) |
| `BanUser`, `UnbanUser`, `SetStatus` | `admin_ban_user`, `admin_unban_user`, the status in `PATCH /admin/users/{id}` |
| `ClaimQuest`, `RewardQuest` | the credit of `claim_quest` (`quests/router.py:540`): XP and lingots in one patch, without the level (the quests themselves are in `Quests`) |
| `ResetProgress`, `UpdateProfile` | `reset_lms_progress`; `update_me` and the other edits of fields that are not modelled |
| `Lesson`, `SpendFreeze` | the user row and the freezes of `submit_attempt_batch` (its attempts are in `ProgressSync`) |
| `Register`, `Boot`, `Touch`, `CreateUser` | `register_user`, `sync_request_timezone`, first-touch provisioning |
| `Unlock`, `PatchLearning`, `PatchSettings`, `ReadSettings`, `PutSettings` | `add_unlock_map`, `patch_lms_learning`, `patch_settings`, `update_settings` |
| `BuyReadSettings`, `BuyReadRow`, `BuyDecide` | `purchase_shop_item`: two reads in parallel, the decision, then the row, then the settings |
| `Delete`, `DeleteRow`, `DeleteSettings` | `delete_user` |

Kept of the items are the fields that must agree with each other or are paid
for. The ban gate (`raise_if_user_banned`) and a handler's first read are one
action, as nothing they compare can differ by more than one request in between.
Left out: the expiry of bans and the community ban (the same code on other
fields), user names (one user is modelled), the ads' in-memory dedup, and the
day rollups, audit records and events that follow a put.

`Ledger` says what a reader of the API expects: an award adds, a purchase takes
the price and gives the ware in one step, a deletion takes everything.
`UserRowLedger` maps the two items to it; half-way through a purchase, a bridged
lesson or a deletion the mapping counts the settings as if they were already (or
not yet) written, whichever the row says.

### SrsSync

`store` has the item of each card: the review it is the result of (its date, and
its time unless the client is too old to send one, ordered as
`_max_last_review` orders the strings) and until when it is buried. The calls
for the cards of a request run side by side (`asyncio.gather`), so a worker has a
task for each card, and answers when all of them have ended.

| actions | code |
|---|---|
| `Sync`, `Write`, `Reread`, `WriteBack` | `upsert_cards`, `_write_if_newer`, the read and the unconditional put of `_upsert_one` |
| `DeleteCards`, `ClearAll`, `Delete` | `delete_cards`, `clear_all` |
| `Raise` | a call raises, with or without effect; the other tasks go on, but for a clear's |
| `Answer`, `Crash` | the answer names the cards that landed; or it is lost |

A push with a bury date of its own (or with none, where the item has one) that
lost to a newer review reads the item and writes it back with no condition. If
the card is reviewed or deleted in between, that review is lost, against "if the
server has a newer review for a card, the server version is kept"
(`srs/router.py:47`). `overtaken` names the cards this has happened to, and
`AckedSurvives` says that it is the only way to lose an acknowledged review.
`cut` names the cards deleted while a request ran: a push that finds its card
gone answers with what it was sent, as if it had landed before the deletion.
Left out: the events for the quests, the width of the fan-out (25), scheduling
data that no rule reads, and items from before FSRS.

### SocialGraph, Leaderboards

| actions | code |
|---|---|
| `SendFriendRequest`, `SendStops`, `SendMeets`, `SendUpserts` | `send_friend_request`: blocked either way, friends, asked by the other (then both agree), asked before |
| `AcceptFriendRequest`, `Accept` | `accept_friend_request`, and the administrator's (`admin/social_router.py`) |
| `RemoveRequest`, `Unfriend`, `BlockRequest`, `UnblockUser`, `WriteBlindly` | the four that write without reading |
| `GetInviteOffer`, `OfferOwner`, `OfferCandidate`, `OfferCreate` | `get_invite_offer`, `_resolve_or_create_invite`, `create_invite_code` |
| `RedeemInvite`, `RedeemLookup`, `RedeemKnown`, `RedeemCounted` | `redeem_invite` |
| `OpenThread`, `OpenOrCreateThread`, `SendThreadMessage`, `PutMessage` | threads and messages |
| `ToggleActivityReaction`, `ToggleReaction` | reactions |
| `GlobalBoard`, `LeagueSpotlight`, `ReadTop`, `ReadSize`, `ReadEntry`, `ReadRank` | `_build_global_leaderboard`, `_build_league_spotlight`, query by query |
| `Earn`, `Publish`, `LoseUser` | an attempt; the service that adds up XP; `delete_user` |

`ListFriends`, `FriendshipStatus`, `ListFriendSuggestions`, `FriendsBoard` and
the like are the read endpoints, as functions of the items. Left out: the months
of the invite cap, profile fields, the text of messages.

### Community

| actions | code |
|---|---|
| `CreateTag`, `CreateThread`, `PutRow`, `TagAndLink` | `create_tag`, `create_thread`, `set_thread_tags`, `add_content_link` |
| `ReadThread`, `UpdateThread`, `TouchThread` | `get_thread` (counts a view), `update_thread` |
| `CreatePost`, `PutPost`; `UpdatePost`, `RewritePost` | `create_post` (two rows, then the counter); `update_post` (two rows) |
| `VoteOn`, `UpsertVote`, `RecomputeVoteCounts`, `WritePostCounts` | the vote, the query of all votes, the count that is written by the next calls |
| `CreateAddon`, `PutAddon`, `UpdateAddon`, `StoreMarkdown`, `DeleteMarkdown`, `WriteByHand` | addons and markdown |
| `PutAddonDeck`, `StoreDeck` | `put_addon_deck`: the markdown, then the count of the cards |

`spoiled` holds the subjects whose derived values may be stale; a request that
has its subject to itself and derives them anew takes it out again.
Users are finite in number (`CommunityConstants`), since votes are counted.

### Content, Accounts, LessonHistory

| actions | code |
|---|---|
| `CreateDeck`, `UpdateDeck`, `AdminUpdateDeckStatus`, `AddCardsToDeck`, `ReadDeck`, `ResolveTags`, `SetDeckTags`, `UpsertDeck` | the writers of a deck: one read, tags checked and written, `upsert_deck` with a read of its own and a put of the whole item |
| `VoteOnDeck`, `AdminDeleteDeck`, `CountOrDelete` | votes; deletion and its cascade |
| `CreateTag`, `UpdateTag`, `DeleteTag`, `WriteTag` | tags and their mirrors |
| `CreateStory`, `UpdateStory`, `AdminUpdateStory`, `AdminDeleteStory`, `WriteStory` | stories: read for the author, read again, merged and put |
| `AddSubscription`, `UpdateSubscription`, `RemoveSubscription`, `WriteSubscription` | subscriptions |
| `GetMyVocabDeck`, `MyVocab` | `get_my_vocab_deck` |
| `TouchAccount`, `ResolveUserId`, `ProvisionUser`, `ForgetUserId` | `get_registered_user`, `_provision_user`, the cache of user ids with its TTL |
| `UpdateMe`, `UpdateBio`, `RegisterUser`, `EditAccount`, `WriteRegistration` | `update_me`, `register_user` |
| `DeleteMe`, `AdminDeleteUser`, `DeleteAccount` | both deletions |
| `CountAttempt`, `SubmitBulkComplete`, `GetBulkOp`, `RollOne`, `SaveBulkOp` | `update_lesson_rollup` by a batch and by bulk-complete, its operation row |
| `ResetMyProgress`, `DeleteAllForUser` | `reset_my_progress`: a query of the keys, a batch of deletions |

`NamesDiffer` leaves out the names of placeholders, `user_` and twelve digits of a
hash of the identity (`auth/dependencies.py:379`): they are given without a look at
the other accounts, and nothing but chance keeps a user from choosing one.

`RollOne` is one call about one lesson: it raises the best score, or fails the
condition and then counts without it, and it may raise before or after it has
written. `sqlRows` is the same table in SQLite, where a row is one upsert.

### The repositories side by side

`SocialStores`, `ForumStores` and `LibraryStores` call the methods of both
repositories, one at a time. What DynamoDB writes is not written down again: the
modules instantiate `SocialGraph`, `Community` and `Content` and make the writes
of their operators (`INSTANCE ... WITH items <- ...`), with the attributes that
the listings need beside; what SQLite does is sets of rows. The read methods of
both are operators, and the properties say that they answer the same, in the same
order, to whatever is asked.

They do not in some cases, and the modules leave those out:

* with a tag *and* content asked for, `list_threads` of DynamoDB does not look at
  the tag (SQLite joins both), though a comment there says the filtering keeps
  multi-axis filters correct;
* threads of some content come by time of the update in SQLite, by the order of
  the links in DynamoDB, and SQLite repeats a thread that is linked twice;
* a message moves its thread up in SQLite only, and threads are listed by time
  there, by key in DynamoDB; the times of an edge are rewritten by DynamoDB only;
* `count_redemptions` of SQLite leaves out those marked invalid;
* `update_settings` of SQLite answers False to an empty patch; its `update_story`
  ignores the author, its `create_story` raises on an id that is there, its
  `set_deck_tags` does not look for the tags, and the slug of a community tag is
  unique there and not in DynamoDB.

### Listings

A `Walk` asks for a page, then for the next with the cursor it was given, while
rows are added, deleted, moved or reset (`Change`). `ListAttempts`,
`ListLessonAttempts`, `ListByOffset`, `ListAudit` and `ListScanned` are the ways
a page is made: a moment as the cursor (attempts), an offset (users and audit in
SQLite), a key of the index (audit in DynamoDB), or where a scan stopped (users in
DynamoDB). Rows of one moment come in any order.

## Runs

| run | instance | shows |
|---|---|---|
| `Quests` | 2 workers, bump/claim/list/refresh, across the end of a day, 1 crash, 2 claims; or bump/claim/list/boot one after another, three days, zones a day apart; 2 dailies and 1 weekly | `TypeOK`; `SettledOnce`: of overlapping claims one settles a quest, unless its completed row was overwritten or deleted; `LingotsBacked`: the balance never exceeds the flips; `PaidOnceInOrder`: without overlap, crash or refresh no quest is paid twice, wherever the user travels; `ListIsCurrent`: what a list returns is current, and each bucket of it whole and alone |
| `ProgressSync` | 2 workers, 2 final attempts, 1 day, a give-up, a crash, a call that raises, with or without effect | `CountedOnce`: markers, rollups and XP against the log; `DroppedIsStored`; `PaidOnceInOrder`: without give-up and crash every passed attempt is paid once, and only one whose mark landed in a call that raised is not |
| `ProgressDays` | 1 worker, 4 days, a draft, its final attempt, one that always raises, a crash, a freeze | `TypeOK`, `StreakIsEarned`, `BufferDrains` (liveness) |
| `UserRow` | 2 workers, any 4 requests of 16 kinds, 1 crash | `TypeOK` (no negative balance), `StatusAgreesWithHistory`, `DeliveredWasCharged`: what stays consistent though whole items are put back over each other |
| `UserRowInOrder` | 1 worker, any 6 requests of 17 kinds | `ServedInOrder`: the items implement `Ledger` |
| `SrsSync` | 2 workers, any 3 requests on 2 cards, 2 reviews, 2 bury dates, a call that raises, a crash | `TypeOK`, `AckedSurvives` |
| `SocialGraph` | 2 workers, any 4 requests about friends, invites or threads of up to 3 users, a crash; or boards of 3 players | whatever overlaps: `EdgesWereAgreed`, and the cap exceeded by no more than what ran at once (`InvitesHold`); in order: `BlockSevers`, `SuggestedAreStrangers`, `OneThread`; while nothing changes: `BoardAgrees` |
| `Community` | 2 workers, any 3 requests about threads, posts, votes or addons, a crash; any 3 or 4 calls of the repositories | `CountsAreBacked`, `MirrorsAgree`, `SocialAgree`, `ForumAgree` |
| `Content` | 2 workers, any 3 requests about decks, tags, library, vocabulary, accounts or lessons, a crash; any 3 calls of the repositories; a walk through up to 4 rows | `GoneStaysGone`, `NoOrphans`, `OneVocabulary`, `UpdatesKeepTheRest`, `OneAccount`, `NamesDiffer`, `HistoryAddsUp`, `LibraryAgree`, `PagesAddUp` |
| `QuestsStaleBump` | 2 workers, one quest, no time | **violated** `PaidOnce`: see findings |
| `AttemptsTwice` | 2 attempts, one walk | **violated** `AttemptsShownOnce`: see findings |
| `UserRowLevel` | 1 worker, any 3 requests of 16 kinds | **violated** `LevelFollowsXp`: see findings |

The modules of a run that share no item are checked in one run, and a behaviour
is about one of them (`about` in the MC modules): their product would say no more.

Bounds. Two workers are enough for every hazard listed: each is a race of one
handler with one other (a third only repeats the second's part). One quest and
two claims let a claimed quest be claimed again; two dailies and a weekly are
needed to see a bucket that is half there, and one type swept while another
stays. Overlapping requests see one day end, and bump and claim one of the
quests; one after another they go on until the first week has expired and its ids
could come up again in the other zone. Two final attempts let one fail while the other
succeeds; one give-up, crash and failure each let them combine in any order.
Four requests let a user earn, buy, and have two more requests overlap with it,
or be banned, unbanned and banned beyond the cap of two records; six in a row
let a purchase follow what pays for it and a deletion and a new account follow
both. One item and one freeze suffice, as wares do not depend on each other; a
lesson earns the price of one item or two freezes. `StatusAgreesWithHistory`
leaves out `SetStatus`, which sets the status without a record by intent.
Requests for the vocabulary meet updates of decks, as both put a deck.
Four requests about two users are a request or a friendship, two that
overlap, and one that comes after; three are enough where a first item is there
at the start. A third user is there to redeem, and to be suggested. Three players
have ties in the middle, at the top and at the bottom. Three calls of two
repositories put, change and delete; four are needed for the order of threads by
votes and replies. Four rows make three pages of one and two of two, with a row
that changes in between. Three pushes on a card are a stored review, one that loses to it, and one that
overtakes it. Deadlock is not checked: a run stops where its clock, its claims or its attempts
end, as the constants bound them.

Fairness (`FairSpec` of `ProgressSync`): a worker that has a request takes its
next step (an event loop runs its ready coroutines, and a Lambda invocation is
awake while it has one); the client sends when its buffer is not empty and it is
not waiting (its periodic flush); and it gives up on a request that does not
answer (every HTTP client has a timeout). No fairness is assumed of users, time,
failures or crashes.

## Findings

* **A stale bump reopens a claimed quest** (`dynamo/quests.py:182`). The status
  written is computed from the row read before; a claim in between is undone,
  the quest is claimable again and paid again. The contract of `claim`
  (`protocols/quests.py:42`) promises one credit under concurrency. The SQLite
  repository has the same read and write.
* **Attempts are listed twice** (`dynamo/progress.py:233`). The ATTEMPT# and the
  CLIENT# item of an attempt are made of one base that has `user_id` and
  `attemptedAt`, the keys of `UserAttempts-Index`; ADR-0001 (line 81) says that
  only attempt rows have them. A list of attempts without a lesson shows each
  twice, so that a page has half as many. (With a lesson the table is queried by
  its own key, and each is shown once.)
* **A quest's reward leaves the level** (`quests/router.py:542`). The patch has
  `lingots` and `xp` and no `level`, and every quest of the pools has a reward in
  XP: the level in the row, which the profile shows, is too low until the next
  award, batch or reset computes it. The level "is derived from cumulative XP"
  (`progress/router.py:702`), as the five other writers of XP have it.

Found while modelling, and left out of the runs or exempted by name in the
properties:

* **Zones more than a day apart** (`quests/router.py:399`). A completed row
  survives the sweep only if the catalogue of that very listing has its id. From
  UTC+14 to UTC-11 the user can list under the next date first, and have the old
  date minted anew afterwards. The run `Quests` has zones a day apart.
* **An attempt that is never paid** (`progress/router.py:601`). The comment there
  says that if the mark fails, the rollups are repeated once more and there is no
  "permanent, silent zero XP". So it is if the mark fails without effect. If it lands
  and its answer is lost, the attempt is answered `server_error` with no XP, and its
  retry takes the fast path with no XP (`PaidOnceInOrder` exempts it as `unheard`).
* **XP lost after a crash** (`progress/router.py:212`). The marker says the
  attempt is done before its XP is on the user row; after a crash between the
  two, no retry adds it, against ADR-0001's "Next attempt's update fixes it".
* **Midnight inside a batch** (`progress/router.py:185`). The date is read
  twice; if it changes in between, an unbroken streak restarts at 1.
* **Unlocks are dropped** (`progress/router.py:894`). The union is computed from
  one read and replaces the stored list; two overlapping pushes keep only the
  later. The docstring (`router.py:879`) says a push never drops ids.
* **Two threads of one pair** (`social/router.py:1303`). "Canonicalize ordering
  so duplicates are impossible": the order of the members does not matter, but
  two openings at once make two threads (`OneThread` exempts them).
* **A block and an accept** (`social/router.py:370`). An accept that has read the
  request before the block writes the friendship after it.
* **A second vocabulary** (`decks/router.py:398`, `dynamo/deck.py:281`). An update
  that has read the vocabulary deck puts it back after its deletion; if the
  vocabulary was asked for in between, the user has two. No run is long enough (it
  takes four requests); the attempt to prove `OneVocabulary` met it, and the property
  now counts the decks that requests did not share.
* **A tag without a slug** (`dynamo/tag.py:189`). `update_tag` after `delete_tag`
  makes a row without its slug, at which `list_tags` and `delete_tag` raise from
  then on (`TypeOK` of `Content` exempts a tag with overlapping requests).
* **Two accounts of one identity** (`auth/dependencies.py:382`). First-touch
  requests converge on one row whatever overlaps ("no failure state left to
  race"), but a registration that overlaps with them may add another; and the
  cache of user ids is not told of a deletion by an administrator, or of one
  served by another process, for its five minutes.
* **Bulk-complete** (`progress/router.py:316`, and a test: "never
  double-applied"): a retry of an operation that failed in
  part counts its attempts again, and answers lessons that had landed before as
  accepted. A reset that overlaps with it leaves an operation row without its
  lessons, and a row of a lesson with a later attempt and no best score.
* **Pages of users** (`dynamo/user.py:227`). Of the items a scan has read only the
  first `limit` are shown, and the cursor is where the scan stopped: the others are
  on no page, though `protocols/user.py:68` says that there is no more when there
  is no cursor.
* **The second page of a lesson's attempts** (`dynamo/progress.py:147`) raises if
  the query itself has more than one page: `ExclusiveStartKey` is given twice
  (`ListLessonAttempts`).
* Cursors that are a moment skip the other attempts of that moment.

## Proofs

`QuestsProofs` proves, for every value of the constants that satisfies
`QuestConstants` (any number of workers, kinds, slots, zones, any target and
bounds):

* `TypeCorrect`: `Spec => []TypeOK`. The type of `call` alone does not carry a
  proof: an action that uses a local variable needs its handler to have set it.
  The inductive invariant `TypeInv` adds to `TypeOK` what each program counter
  promises of the locals (`Locals`): a bump that writes holds a row, a worker
  that sweeps holds a zone and an hour of the run, and so on.
* `SettledOnceHolds`: `Spec => []SettledOnce`. `SettledOnce` speaks of two flips;
  to be inductive it needs to know why a third cannot come: `SettledInv` adds
  that a quest that was ever flipped is still completed, or is in `disturbed`.
  Every write goes through `Put` or `Delete` (`StepCases`), which keep that; a
  flip needs a claimable row, so the quest it flips is disturbed or new.
* `LingotsBackedHolds`: `Spec => []LingotsBacked`. `BackedInv` makes each worker
  between flip and payment the owner of a flip of its own that is not paid, and
  bounds the balance, and each balance some worker has read, by the number of
  paid flips; a payment writes at most one more than a bounded balance, and adds
  a flip to the paid.
* `PaidOnceInOrderHolds` and `ListIsCurrentHolds`, about requests that come one
  after another, from one invariant, `OrderInv`. At rest, the rows of a kind are of
  one bucket, minted in one zone, and either all of it or claimed ones alone; of the
  quests ever flipped, those of that bucket are still there and completed, and the
  others are of earlier ones (`AtRest`). A listing takes this apart kind by kind and
  puts it together for its own bucket, so a kind is `Untouched`, or `Swept` (rows
  are being deleted; what was claimed of today's bucket will be put back),
  `Restored`, or `Renewed` (nothing was left, and the bucket is being minted). A flip
  of a quest that was flipped before is then impossible: it would have to be minted
  again, and only a bucket later than all that was flipped is.
  Both assume `ZonesAreClose`, that no two zones are further apart than the
  shortest bucket: without it they are false ("Zones more than a day apart",
  above), since the clock of a traveller goes back by a whole bucket.
  `ListIsCurrentHolds` assumes `SlotsAreFilled` besides: no pool is empty
  (`_DAILY_POOL` and `_WEEKLY_POOL` are literals).

`UserRowProofs` proves, for every value of the constants that satisfies
`UserRowConstants`:

* `TypeCorrect`; if no admin sets the status by itself, `StatusAgreesHolds`; and,
  if no request rewards a quest, `LevelFollowsXpHolds`: the reward is the only
  writer that breaks it (finding above), and no overlap of the others does. All three come from one invariant, `RowInv`. The
  argument is that staleness does not matter: each patch a handler computes is a
  `SafePatch`, which keeps *every* sound row sound, whatever row it was computed
  from and whatever row it is merged into. `Good` attaches to each program
  counter what the next call needs (a base that is sound, a patch that is safe).
  The one lemma per kind of patch is where the code could be wrong: XP without
  its level, a lifted ban whose record stays open, a cap that cuts the newest.
* `DeliveredWasChargedHolds`. The row's put and the settings' put of a purchase
  are two steps, so `ShopInv` says of a worker before its charge that its update
  would be paid for by one more charge of its ware (`PaidBut`), and after it
  that it is paid for (`Paid`); all of these only grow with further charges.
* `ServedInOrderHolds`, the refinement of `Ledger`, for one worker that does not die
  (`Worker = {w}`, `MaxCrash = 0`). `Serving` says of each program counter that what
  the request holds is what the items still say, and what its patch makes of them.
  Each put then is one step of the account (`Revises`, `Earns`, `Registers`, `Sells`,
  `Rewrites`, `Spends`) or, for the second put of a purchase, a bridged lesson or a
  deletion, none; where a request begins, reads or decides, the account stutters.
  It assumes `NoneIsNothing`: the value for "no item" is no item, ware or patch.

`SrsSyncProofs` proves, under `SrsConstants` and `NoneIsNoState` (the value for
"no item" is not a card), `TypeCorrect` and `AckedSurvivesHolds`. The invariant
`AckInv` adds to the property that what a task is about to answer, and what made
it lose, is in the store or older than what is (`Holds`), unless the card was
deleted since the request began. The conditional write can only advance an item
(`WonAdvances`, from the order of reviews), which keeps that for all other
tasks; the unconditional one keeps it because it writes the review it has read,
or marks the card as overtaken.

It also proves `BoardsAgree` of `Leaderboards`, under `LeaderboardsConstants` (finitely
many players, thresholds of the leagues that rise, as those of
`_league_for_weekly_xp` do, `social/router.py:175`). The board is put together from
four queries. `BoardInv` says of each that has been read what it is a fact about
(`Falling`: the page is in descending order; `StillSo`: if nothing has changed since,
it is the head of an order of the whole bucket, its size, an entry, a rank). That
the rank then is the place of the caller rests on counting: an order of a finite set
has each member in one place (`EachInItsPlace`), and those with more XP fill an
initial segment of it.

`ProgressSyncProofs` proves, under `ProgressConstants`, for any number of workers,
attempts, lessons, days and failures:

* `TypeCorrect`. `TypeInv` adds to `TypeOK` that the buffer is finite (the batch is
  an order of it) and what each program counter promises of the locals.
* `DroppedIsStoredHolds`. `StoredInv`: from the put on the CLIENT# item is there, so
  that the mark marks it; and what a request has accepted is marked or a draft.
* `CountedOnceHolds`. A worker between the check and the mark of an attempt has a
  *claim* to count it. `CountInv` bounds what is counted, with what those workers
  still have to count, by the strays and one more, which is there only while the
  attempt is marked or somebody has a claim to it: an attempt that was counted and
  then left without its mark has used up a stray, and a worker that takes it up has
  a claim afresh. `LandedInv` has the order of the calls, and `BehindInv` says of the row in
  the table *and* of each row a worker may still write that it is not ahead of the
  day rollups.
* `PaidOnceInOrderHolds`. With no give-up and no crash there is one request at a
  time, and `PaidInv` balances the account of each attempt: the XP of the row and
  what the request will add make one if the attempt is marked by a call that
  returned, and nothing if it is not marked, or by a call that raised.
* `StreakIsEarnedHolds`. `StreakInv` asks of *every* row that was computed, written
  or not, that the days up to its own have earned it. Days are only added, so a
  stale row that is put back is as well earned as it was.

Each step is one of fourteen kinds, or a step of the client or of time (`StepCases`),
and the invariants are proved from the kinds. `DroppedIsStoredHolds`,
`CountedOnceHolds` and `PaidOnceInOrderHolds` assume `OwnKeys`, that no two attempts
share the key of their ATTEMPT# item: an attempt whose key is taken is not stored at
all (`put_attempt` takes the cancelled transaction for its own retry), is never
marked, and is counted each time it is sent.

`TableProofs` has what the proofs over `Table` need of its operators: what a call is,
what a write, a plan and a crash do to it, and which keys a worker is still to write
or delete. On it rest the next three modules.

`SocialGraphProofs`, under `TableConstants` and `SocialConstants` (a finite set of
workers, which is not empty), for any users, codes and requests:

* `FriendsWereAgreed`. `Agreed` says of the keys that are there *and* of those that
  planned writes will put that each friendship has been asked for from both sides,
  and each request from its own. No write needs more, whatever it overlaps with.
* `BlocksSever`, `StrangersAreSuggested`. `Pairs` says of two users whose requests
  came one at a time and were finished that the four items of every fact about them
  agree (`Clean`): when nothing is under way, of the items; when a request is, of the
  items as its plan will leave them, and of what it has read. A request about
  others changes none of their keys.
* `ItemsAreTyped`, `ThreadsAreOne`. `Typed` follows the order of the writes, a thread
  before its place in a list, a message after its thread; `Listings` says that the
  lists of the two, with what the opening under way will add, have the same threads,
  and no two.
* `InvitesAreCapped`. `Capped` adds the redemptions still to be written
  (`Redeeming`): each worker has room for one, and the last one to look had room.
  `Codes` has, for a code, the offer it came from, up to the row that names it.
* `SocialAgreeHolds`, of `SocialStores`, for any members, codes and calls. `StoresInv` says
  of each fact that its items are there just when its row is: both rows of a
  friendship or a request, the code of an owner and the owner of a code, each
  redemption counted for the inviter (who has one code, so that a count of rows is a
  count of items), each thread in the lists of its members, and each message. A
  method writes its own kinds of items and its own table (`Touches`).

`ContentProofs`, under `TableConstants` and `SomeoneKnown` (the mark for a deck without
an author is not a user), for any users, cards, tags, workers and requests. A request
writes what it read some calls ago, so `ContentInv` says of every request, in each of
its phases, what it may hold and have planned (`Request`), and what of that is still
so in the table unless somebody else is in a request about the same (`Fresh`). A
step keeps the part of its own request by what it reads or writes; it may upset the
part of another only if both are about the item, and then the item is in `shared`.

* `ContentTypes`: rows are whole; a tag's row lacks its slug only if it was shared.
* `GoneStaysGoneHolds`. What a planned put names is not among the deleted, or is
  shared: a deletion that runs beside a put shares it, and one that came before it
  has left nothing to read.
* `NoOrphansHolds`. `Orphans`: a vote without its deck, or a deck's tag without the
  tag, has a request that is about to delete it; a vote or a tag that is planned has
  its deck or tag (`Fresh`).
* `OneVocabularyHolds`. What a request for the vocabulary has found contains the
  vocabularies there are, and when it plans to put one there is none.
* `UpdatesKeepTheRestHolds`, an action property, from the same invariant: what will be
  put for a deck keeps the rest of what is there (`Keeps`), and `OneAuthor` says that
  all who might put a deck would give it the author it has.

For `LessonHistory`, `HistoryAddsUpHolds`, from `HistoryInv`: a call that goes on to count
has lost to a score that is still there, so its condition would fail again; what a
bulk-complete has counted as landed is landed; a reset deletes all there is. Of
behaviours in which a reset ran beside something else (`mixed`) it says nothing, as the
property does not.

For `Accounts`, for any identities, names and processes, each with a cache of its own:

* `AccountsAreSingle`. An id belongs to one identity for good: `Claims` gathers who
  may come to an id (the provisional id of an identity, an account, a cache, a
  request that has read or drawn it), and `Owned` says that they agree, `FreshIds` that
  a drawn id is new. `Singles` says of an identity whose requests did not race that
  the account it is about to write is the one that is there, if one is.
* `NamesAreDifferent`. `NamesOnce`: a request that found its name free, or its
  caller's, still finds it so until it writes, if no other asks for the name.

`CommunityProofs`, under `TableConstants` and `CommunityConstants`, for any threads, posts,
tags, addons and requests, and any finite set of users. `CommunityInv` has a part for
each subject: `Threads`, `Posts`, `RepliesCounted`, `Texts`, `VotesInv`, `Addons`, `Links`.
Each part says what the rows of a subject that is settled have in common, and of each
request, in each phase, what it has planned and what of it is so already: a vote or
an edit that has only the copy left to write has written the post as it will write
the copy (`LastRow`). `Alone` is why that is enough: a subject that is not spoiled has
one request at most.

* `CommunityTypes`: rows are whole. An update needs its row there, and threads, posts
  and addons are not deleted; the numbers stay in range, the views because each
  view is a request (`Viewed`).
* `CountsAreBackedHolds`. `RepliesCounted` counts the posts whose reply is not under
  way (`CountedIn`): the counter is written last, so it may lag behind for good after
  a crash, but never leads. A count of votes is right when it is written, or the
  subject is spoiled.
* `MirrorsAgreeHolds`. `Texts` and `VotesInv` are apart, and a step of one does not
  touch the attributes of the other, though both write the same two rows.

Every safety invariant and action property of the modules of requests is proved, and
the refinement of the account. What is model-checked only:

* `BufferDrains`, a liveness property;
* `ForumAgree` and `LibraryAgree`, that both repositories answer the same, and
  `PagesAddUp`: the answers are sequences, made with sorts, selections and folds,
  and what these compute for every input is an induction over data, which is out of
  the prover's reach;
* the three violated properties, `LevelFollowsXp` but for the restricted theorem above.

## Not modelled

See `PROJECT.json`, "components", for the list with reasons. In short:

* telemetry, platform settings, moderation, finance and the ads' dedup: append-only
  writes, one configuration item, or memory that ends with its process;
* events and their consumer, which is not in this repository;
* the roles, tokens and impersonation of `app/auth`: they decide, and store
  nothing;
* the seed and maintenance scripts, and the wiring of the application;
* two attempts of a lesson with one `attemptedAt`, which share the key of their
  ATTEMPT# item: `ProgressSync` has the key (`Key`), its runs give each its own, and
  three of its theorems assume it (`OwnKeys`).

Indexes of DynamoDB are taken to be up to date when they are read. The modules of
requests take the DynamoDB repositories as the reference; SQLite runs the same
handlers, one statement at a time on one connection.

## What is left

1. A shared ATTEMPT# key, and two workers racing for freezes, in `ProgressSync`.
2. The listings of the repositories for sets in place of sequences, where the order
   does not matter: that part of `ForumAgree` and `LibraryAgree` has no recursion in it.
