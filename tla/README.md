# Verification of the txwatch contracts

TLA+ modules, TLC configurations and TLAPS proofs for the Soroban contracts under
`src/contracts`. `PROJECT.json` maps every definition to the lines it models and
lists runs, mutants, hazards, findings and theorems.

## The system

| Part | State | Operations | Correct when |
|---|---|---|---|
| **AlertRegistry** (`alert-registry/src/lib.rs`) | instance: admins, limit, pause switch, configured watcher registry, id counter; persistent: `Alert(id)`, `AlertActive(id)`, `OwnerIndex(o)`, `ContractIndex(t)`, each with its own time to live | initialise; admin set; limit, pause, registry; register, batch register; edit, rotate webhook, tag, retarget, transfer, deactivate all, remove; bump, bulk renew, read | ids are unique for ever; the two indexes and the active flag agree with the alerts; the per-owner limit holds; payloads are valid; changes are stamped; there is always an admin |
| **Queries** | none | lists, pages, counts, modified-since reads | pages tile the lists, reads agree with one another, a polling client misses nothing |
| **WatcherRegistry** (`watcher-registry/src/lib.rs`) | admins, watchers with optional expiry, watcher count, pause switch, `WatcherInfo` entries | register, batch, renew, replace, remove, clear; admin set; authorisation read | every call grants or revokes for exactly the watchers it names, and lists nobody twice (which the code does not keep); an expired or removed watcher is not authorised; an expiry does not survive its watcher |
| **Gating** | the registry address in AlertRegistry | the reads by contract and by owner call `is_watcher_authorized` of the configured registry; the reads of active and of changed alerts do not | a reading that is never refused is complete; no read answers a node the registry does not authorise (which the code does not keep) |
| **Secondary registry** (`alert-registry/src/{contract,storage,types}.rs`) | one admin, limit, pause switch; counter, alerts, indexes as persistent entries | as AlertRegistry, fewer | no alert is overwritten or read under a wrong key |
| **Rate limiter** (`storage.rs`) | a window and count per owner | `check_rate_limit` | counts are exact, bursts bounded |
| **Event listener** (`examples/event-listener`) | a cursor in memory | poll, handle, advance | no event is skipped, all are handled |
| **Soroban host** (external) | entries, times to live, ledger timestamp | set, get, remove, `extend_ttl`, ledger close | - |

A contract call is atomic: the host undoes a call that returns an error or traps.
What makes the code hard is therefore not a race inside a call but the order of
calls by owners, admins, keepers and readers, combined with storage that expires
*entry by entry*: an alert, its flag and its two index entries are four keys with
four lives, and almost every entry point extends a different subset of them. Reads
that take several calls (pages, polling, gating by a second contract) see a state
that moves between them. The listener adds crashes.

## Modules

| Module | What it is |
|---|---|
| `Vectors` | `Vec<u64>` as sequences; `Keep` is the filter loop of the source, written by rank so that it can be reasoned about without induction |
| `LedgerStorage` | the host's tables and lives: `Put`, `Drop`, `Extend`, `Age`. External, modelled from its use |
| `AlertRegistry` | the contract: one action per state-changing entry point, plus `close_ledger` |
| `AlertBook`, `AlertRefinement` | an abstract book of alerts without indexes, flags and lives, and the mapping under which AlertRegistry implements it |
| `AlertQueries` | the read-only entry points as operators over AlertRegistry's state |
| `SyncClient` | a node that mirrors the registry by polling `get_alerts_modified_since` (extends AlertQueries) |
| `Keeper` | a keeper service that renews alerts while others use the registry (extends AlertRegistry) |
| `WatcherRegistry`, `WatcherBook` | the second contract, and the abstract book of grants that all its calls but one implement |
| `WatcherGating` | both contracts on one ledger and a node that reads page by page (extends AlertQueries, instantiates WatcherRegistry) |
| `ModularRegistry` | the secondary registry of `contract.rs` and `storage.rs` |
| `RateLimiter` | `check_rate_limit` of `storage.rs` |
| `EventListener` | the listener process with crashes and restarts |
| `MC*` | constants and symmetry for TLC; `MCAlertRegistry` also checks that `Keep` equals `SelectSeq` on short sequences |
| `StorageProofs` | what the `Vec` and storage operations return and preserve, and why there is only one way to read the same pages; the lemmas all other proofs use |
| `AlertRegistryProofs` | the inductive invariant of AlertRegistry and the theorems it gives directly |
| `AlertPropertiesProofs` | the other invariants and action properties of AlertRegistry, and its refinement of AlertBook |
| `AlertClientsProofs` | queries and their pages, the polling node, gated reading and the keeper |
| `WatcherRegistryProofs`, `ModularRegistryProofs`, `RateLimiterProofs`, `EventListenerProofs` | theorems about those modules |

### How AlertRegistry corresponds to the code

Definitions carry the source's names. Instance keys are the variables `admins`,
`limit`, `paused`, `watcher_registry`, `next_id`; persistent keys are the partial
functions `alerts`, `alert_active`, `owner_index`, `contract_index`. `ttl` holds for
each entry the ledgers it still lives. An entry with no ledger left is absent after
the next `close_ledger` and reads as `None`, which is how `ttl_expiry_tests.rs` and
the comments in `lib.rs` describe expiry. The instance is never absent: once it has
lapsed (`ttl.instance = -1`) no call executes, until it is restored off-chain, which
is not modelled.

- An entry point's early returns and traps are its guards; a failed call stutters.
  `extend_ttl` on a missing key traps, which is `index_keys_live` and the membership
  guards of `bump_alert` and `bulk_renew_ttl`.
- `register` is the closed form of the loop of `batch_register_alerts`
  (`register_alert` is a batch of one): consecutive ids, pushes in order, the limit
  check and its lazy pruning first.
- `assert_per_owner_limit_for` writes while it checks (#205). Its verdict is
  `within_limit`, its writes are `pruned_index` and `pruned_ttl`.
- `remove_from_owner_index` and `remove_from_contract_index` have one body,
  `remove_from_index`, and likewise the pushes; so have the pairs of index variables.
- Strings are abstracted: a label or tag is its length, a hash a model value that is
  or is not of 64 characters, a rule list a short sequence of descriptors.
- `require_auth` is the choice of caller; events and return values are left out.
- Transferring an alert to its own owner returns Ok without a write and is a stutter.
- The `DataKey::NextId` branch of `bump_alert` never runs (no entry point writes that
  key), nor does `LimitTooLow` (no `u32` is non-zero and below 1).

### How the other modules correspond to the code

- **AlertQueries.** A `Vec` of configs is the `Vec` of the ids they are stored under.
  `slice` is the clamped and saturating `start..end` of `configs_paginated`;
  `get_alerts_updated_since` is its skip-and-stop loop as a recursive function.
- **SyncClient.** The node is not in the repository; it does what the comment of
  `get_alerts_modified_since` (`lib.rs:1329`) describes: pass the timestamp of the last
  sync, take over the configs returned.
- **WatcherRegistry.** Admins, list, expiries and count are instance keys and share one
  life (`life`); `info` keeps the lives of the `WatcherInfo` entries that
  `replace_watcher` writes. `register_watcher` uses a list and a label that its text
  does not declare, and the page bound `MAX_PAGE_LIMIT` is not declared either: the list
  is the stored one, the bound a constant, the label is stored nowhere and left out.
  `is_watcher_authorized` renews the instance, so it is an action; its answer is
  `authorized`.
- **WatcherGating.** `assert_watcher_if_configured` calls the registry configured at that
  moment. A read by `gated_read` is `get_contract_alerts_paginated`. A configured address
  without a contract fails the read; a refused read changes nothing. `quiet` is a
  history of whether the list being read was only appended to; once it was not, what was
  due is forgotten. A querier that the gate refuses still has the reads that do not ask it;
  they are in AlertQueries.
- **Keeper.** `refused` holds the conditions under which the renewals trap: an archived
  instance, or a flag or index entry that is gone. Under pause the keeper falls back on
  `bulk_renew_ttl`. A ledger closes once the keeper has been through the
  alerts it can renew.
- **ModularRegistry.** `contract.rs` calls itself "Secondary (non-active)"; `lib.rs` does
  not declare it. Unlike the compiled contract its index entries may be empty `Vec`s,
  the counter is a persistent entry with its own life, and the extend functions ask for
  100 ledgers (`RENEW_TTL`) where entries start with `DEFAULT_TTL`. Every entry may lapse,
  the counter's too, which then reads as 0. `restarted` is a history for the properties:
  the counter has lapsed while an id it had given out was still stored or listed.
- **RateLimiter.** No entry point calls `check_rate_limit`, so it is a component of its
  own. `granted` is a history for the properties: for each owner and ledger, the
  registrations let through before that ledger.
- **EventListener.** One action for the poll, one for handling an event, one for moving
  the cursor, since a crash can fall between any two. The RPC is external: `getEvents`
  returns the first matching events after the cursor. A poll that fails is caught by
  `main` and tried again, a stutter.

## Runs

| Run | Bounds | What it shows |
|---|---|---|
| `archival` | 2 owners, 2 contracts, 1 admin, 2 ids, limit none or 1, lives up to 1 ledger, bumps that ask for more than `MAX_TTL`, every entry may lapse; 210 829 states | Under any order of calls and lapses: types, ids are below the counter and never reused, index entries are non-empty and without repetition, no live alert is listed under a foreign key, the active flag agrees with its alert and does not outlive it, and nothing but a lapse of the index entry itself unlists an alert |
| `payload` | 2 owners, 2 admins, 1 id, labels of 128 and 129 bytes, rule and tag lists within and past each bound, valid and invalid hash, pausing, clock 0 to 2; 70 946 states | Stored labels, rules and tags are valid; the admin set is never empty; changes are stamped; a pending hash is dropped by no call and no hash gets in unchecked unless it was pending; under pause nothing is registered, removed, handed over or edited except by the four entry points that ignore the switch |
| `sync` | 1 owner, 2 ids, lives of 0 or 1 ledger, page clamp 1, offsets and limits to 2, clock 0 to 1; 55 018 states | Pages tile the lists at every size and from every offset, reads and counts agree, the modified-since page is a page of the filtered index, a poll never leaves behind a change that the next does not bring, and every alert reaches the polling node |
| `watchers` | 2 admins, 2 watchers, list up to 4 entries, batches of 0 and 2, expiries 0 and 1, clock 0 to 2, the instance may lapse; 45 398 states | Every call but the repeated registration of a listed watcher implements `WatcherBook`; no expiry without its watcher; the count never falls short of the list; pages tile; under pause authorisation only expires; at most one admin leaves per call, never the last; an expiry takes effect |
| `gating` | 1 owner, 2 ids, 1 watcher, page size 1, 1 deployed registry and an address without one, clock 0 to 1; 268 690 states | A reading over a list that only grew, and that was never refused, misses nothing, although the gate and the list change between its pages |
| `keeper` | 2 owners, 2 contracts, 1 admin, 2 ids, limit none or 1, batches of 0 and 2, lives of 1 and 2 ledgers, every entry may lapse, no pause; 113 555 states | With a keeper that bumps once per ledger no renewal traps and no alert is lost to the ledger, both indexes are exact, the limit holds through batches and transfers, and contract, users and keeper implement `AlertBook` |
| `modular` | 2 owners, 2 contracts, 1 admin, 2 ids, limit none or 1, lives of up to 1 ledger, alerts, indexes and the counter may lapse; 926 650 states | Reads are sound and no live alert is overwritten until the counter has lapsed under an id that is still stored or listed; the limit holds for an owner whose alerts are all listed |
| `rate_limiter` | 1 owner, limit 2, window of 3 ledgers, 9 ledgers, pausing; 5 610 states | A stored count is the number of grants of its window; no stretch of a window's length sees twice the limit |
| `listener` | 3 events, pages of 2, 2 crashes; 850 states | The cursor never passes an unhandled event, events are handled once and in order between crashes, all are handled in the end |

Three more runs expect a violation each, of what a comment, a document or a test says;
they are listed under *Findings*.

Why the bounds are enough. Index soundness relates one id to at most two keys, so two owners
(old and new, or own and foreign) and two ids (the one handled and a bystander) give every
case; with a second contract the same holds of the other index. A life of 0 or 1 ledgers at
the close of a ledger, with calls that extend some of the entries in between, gives every
order in which entries can lapse; longer lives in `keeper` tell a bump from the other
extensions. With `U64_MAX` at 2 or 3 the counter reaches its limit in most runs. A batch of
two under a limit of 1 tells a batch that is charged in full from one that is charged once;
that a batch extends an index that is not empty is left to the proof. Bounds on payloads are
hit exactly and passed by one. Page limits in `sync` go past the clamp, in `watchers` past
`MAX_PAGE_LIMIT`, offsets past the end. Two watchers in a list of four give repetitions, a
replacement by a present watcher and a full list. A page size of 1 over two alerts gives a
change of the gate, the list or the clock between any two pages. Clocks stand still
(`LedgerSeconds = 0`) where no guard reads them. Symmetry is over owners, contracts or
admins, which no constant or initial state tells apart, and is not used in runs with a
liveness property. Deadlock is checked in all runs but `sync`, where no call executes once
the instance is archived and the clock has reached its bound.

`LimitRespected` holds in `keeper`, where every entry is renewed in time, and fails in
`limit_bypass`, where an owner's index lapses. `KeptUntilRemoved` and `KeeperNeverTraps` hold in
`keeper` because nobody pauses: under pause `bump_alert` is refused, the instance lapses and
then the alerts (see *Disagreements*). `PagesMissNothing` is stated for lists that only
grew: a removal shifts the positions behind it, and a reader stepping by offsets then skips
an alert, which is in the nature of the interface.

### Fairness

Contract calls are made by others, and no run assumes that anybody makes them. Assumed
are, each weakly:

- `close_ledger` in `watchers`: the network closes ledgers whatever the callers do.
  The bound `MaxTime` lies above every expiry, so it cuts nothing off.
- `poll` in `sync`: the node polls on a timer; a poll is a read that needs no
  permission there and is always enabled while the instance is live.
- `poll`, `handle` or `advance`, and `restart`, in `listener`: the loop in `main` runs
  for ever and a supervisor starts a crashed process again. The number of crashes is
  bounded, otherwise a process that always crashes before its first event handles none.

### Findings

The code does not do what is said of it. Each of these runs checks one property that
states the sentence quoted, under the bounds of the run in brackets, and TLC finds a
behaviour of the code that breaks it.

| Run | What is said | What the code does |
|---|---|---|
| `limit_bypass` (`archival`, one contract) | `alert-registry/src/lib.rs:1604`: "the maximum number of *active* alerts any single owner may hold" | a lapsed owner index counts as no alerts, so the owner registers past the limit |
| `register_again` (`watchers`) | `watcher-registry/src/lib.rs:228`, `docs/watcher-registry.md:29`: registering an authorised watcher "is a no-op"; `test_register_idempotent` expects one listing | `register_watcher` decides by the `WatcherInfo` entry, which only `replace_watcher` writes, and lists the watcher again |
| `ids_recycled` (`modular`) | `storage.rs:13`: "IDs are never recycled" | `bulk_renew_ttl` of `contract.rs:286` and the edits keep alerts alive without the counter's entry; when that lapses the counter restarts at 0 and a registration overwrites a live alert |

The properties of the passing runs say what the code does keep in these matters:
`ImplementsBook` excepts the call that lists again, `CountCovers` is an inequality,
`OwnersKeptUntilRestart` and `SoundUntilRestart` hold until the counter has restarted.

### Disagreements

Where the code visibly does other than a sentence says, and one reading of the source
settles it, there is no run. The properties are stated so as to allow for what the code
does, and how is said here.

- `alert-registry/src/lib.rs:386`: while paused, "every mutating entry point" is refused.
  `propose_webhook`, `confirm_webhook`, `pause_alert` and `unpause_alert` do not look at
  the switch; `PausedKeepsAlerts` excepts what they write.
- `lib.rs:104` and `153`: hashes are of 64 characters. `propose_webhook` and
  `confirm_webhook` install any string (`WebhookRotationKept` excepts a pending hash).
- `lib.rs:815`: who confirms a webhook "must have previously called `propose_webhook`". A
  transfer keeps the pending hash and the new owner may confirm it.
- `lib.rs:422` and `RUNBOOK.md:48`: the zero address disables the gate. It is stored like
  any other, and calling it fails every gated read; `gating` has such an address.
- `ARCHITECTURE.md:40` and `docs/storage.md:21`: "the read functions" ask the watcher
  registry. `get_alert`, the reads of active alerts, `get_alerts_modified_since` and
  `get_alerts_updated_since` do not, and no property claims that they do.
- `lib.rs:1002`, `1025` and `1234`: owner index, counter and active flag do not lapse
  before the alert. Calls that extend only the alert (`get_alert` among them) let them;
  with the keeper of `Keeper` they do not, which is `KeeperNeverTraps`.
- `docs/storage-recovery.md:56`: a keeper that calls `bump_alert` avoids archival. Under
  pause `bump_alert` is refused and `bulk_renew_ttl` does not extend the instance, without
  which no renewal executes. `KeptWhileLive` is what a pause leaves of the promise.
- `docs/alert-registry.md:454`: an offset is the "Number of results to skip". It counts
  positions of the index, entries of lapsed alerts included (`PagesTile` steps so).
- `watcher-registry/src/lib.rs:650`: `get_watcher_count` is "the number of registered
  watchers". `remove_watcher` takes every copy off the list and one off the count.
- `watcher-registry/src/lib.rs:598` and `docs/watcher-registry.md:234`: metadata "for a
  registered watcher, or `None`". The entry survives `remove_watcher`, and makes a later
  `register_watcher` of that address do nothing.
- `contract.rs:407`: "all alert configs owned by a given address". A recycled id may stand
  in the list of the owner who had it before, and is returned there.
- `check_rate_limit` reads the pause switch under the symbol `PAUSED`, `contract.rs:489`
  writes `DataKey::Paused`. It has no caller.
- `examples/event-listener/index.ts:7`: "a restart resumes where it stopped". The cursor is
  not saved, and a restart handles all events again (`HandledInOrder` allows one step back
  per crash).

## Proofs

All theorems are for every value of the constants (any owners, contracts, payloads,
limits, batch sizes, counter maximum, lives), from the named `ASSUME`s of the modules,
which give the constants their types (TLC evaluates them in every run). Every invariant
and action property that a passing run checks is stated by a theorem.

| Module | Theorem | Statement |
|---|---|---|
| `AlertRegistryProofs` | `TypeCorrect` | `Spec => []TypeOK` |
| | `CounterAhead` | `Spec => []IdsBelowCounter` |
| | `IndexEntries` | `Spec => []IndexesWellFormed` |
| | `SoundIndexes` | `Spec => []IndexesSound` |
| | `FreshIds` | `Spec => IdsNeverReused` |
| `AlertPropertiesProofs` | `AdminsRemain` | `Spec => []AdminsNeverEmpty` |
| | `PayloadsValid` | `Spec => []StoredPayloadsValid` |
| | `ChangesStamped` | `Spec => ChangesAreStamped` |
| | `RotationsKept` | `Spec => WebhookRotationKept` |
| | `PauseHolds` | `Spec => PausedKeepsAlerts` |
| | `FlagsAgree` | `MIN_TTL <= DEFAULT_TTL => (Spec => []ActiveFlagAgrees)` |
| | `NoListingLost` | `Spec => ListedStaysListed` |
| | `ExactIndexes` | `~Archival => (Spec => []IndexesExact)` |
| | `BookImplemented` | `~Archival => (Spec => ImplementsAlertBook)` |
| | `LimitHolds` | `~Archival => (Spec => LimitRespected)` |
| `AlertClientsProofs` | `ReadsConsistent` | `Spec => []ReadsAgree` |
| | `UpdatesInPages` | `Spec => []UpdatedSinceIsPage` |
| | `PagesCover` | `MAX_BATCH_SIZE > 0 => (Spec => [](IndexesFit => PagesTile))` |
| | `PollingMissesNothing` | `SyncSpec => []NothingMissedByPolling` |
| | `ReadingComplete` | `MAX_BATCH_SIZE > 0 => (GatingSpec /\ []VecsFit => []PagesMissNothing)` |
| | `KeeperRuns` | `0 < DEFAULT_TTL /\ 0 < MAX_TTL => (KeeperSpec => [](instance_live => KeeperNeverTraps))` |
| | `KeptWhileLive` | same => `(KeeperSpec => [][instance_live' => OnlyRemoved]_<<vars, renewed>>)` |
| | `KeeperSafe` | same, `TRUE \notin PauseValues` => `(KeeperSpec => []KeeperNeverTraps)` |
| | `KeeperKeeps` | same, `TRUE \notin PauseValues` => `(KeeperSpec => KeptUntilRemoved)` |
| | `KeeperExact` | same, `TRUE \notin PauseValues` => `(KeeperSpec => []IndexesExact)` |
| | `KeeperImplementsBook` | same, `TRUE \notin PauseValues` => `(KeeperSpec => ImplementsAlertBook)` |
| | `KeeperKeepsLimit` | same, `TRUE \notin PauseValues` => `(KeeperSpec => LimitRespected)` |
| `WatcherRegistryProofs` | `WatcherTypes` | `Spec => []TypeOK` |
| | `NoStaleExpiry` | `Spec => []ExpiriesOfWatchers` |
| | `CountSuffices` | `Spec => []CountCovers` |
| | `OneAdminAtATime` | `Spec => AdminsLeaveOneByOne` |
| | `PauseFreezesGrants` | `Spec => PausedOnlyExpires` |
| | `WatcherPagesTile` | `Spec => []PagesTile` |
| | `WatcherBookImplemented` | `Spec => ImplementsBook` |
| `ModularRegistryProofs` | `ModularTypes` | `Spec => []TypeOK` |
| | `SoundReads` | `Spec => []SoundUntilRestart` |
| | `OwnersKept` | `Spec => OwnersKeptUntilRestart` |
| | `LimitHolds` | `Spec => LimitRespected` |
| `EventListenerProofs` | `ListenerTypes` | `Spec => []TypeOK` |
| | `NoEventSkipped` | `Spec => []NoneSkipped` |
| | `OrderKept` | `Spec => []HandledInOrder` |
| `RateLimiterProofs` | `WindowsExact` | `Spec => []WindowCountsGrants` |
| | `BurstsAreBounded` | `Spec => []BurstsBounded` |
| `StorageProofs` | `KeepFacts` | what a filter loop returns, for every `Vec` |

### Hypotheses of single theorems

- `MIN_TTL <= DEFAULT_TTL` in `FlagsAgree`: the network starts an entry with fewer
  ledgers than the contract's `DEFAULT_TTL` asks for. Otherwise a flag that is written
  anew (`pause_alert` after the old one lapsed) would start with a longer life than the
  alert the same call extends.
- `~Archival` in `ExactIndexes`, `BookImplemented` and `LimitHolds`: nothing lapses. Without
  it the limit is bypassed (run `limit_bypass`). `KeeperExact`, `KeeperImplementsBook` and
  `KeeperKeepsLimit` replace that hypothesis by a keeper at work: every entry may lapse, and
  none that matters does. `PagesMissNothing` carries the condition in its own statement.
- `MAX_BATCH_SIZE > 0` in `ReadingComplete` and `PagesCover`: the code's constant is 50;
  with 0 every page would be empty. `VecsFit` says that no contract's index is longer than
  `U32_MAX`, `IndexesFit` that no owner's is either: a `Vec`'s length is a `u32`, which the
  model does not bound, and past it the saturating end of a page would cut the list off.
  `WatcherPagesTile` needs no such hypothesis: the watcher count is bounded and covers the
  list.
- `0 < DEFAULT_TTL` and `0 < MAX_TTL` in the theorems about the keeper: `bump_alert` asks
  for at most `MAX_TTL`, and an entry renewed for 0 ledgers does not survive the ledger it
  is renewed in. `TRUE \notin PauseValues` in five of them: under pause the keeper is left
  with `bulk_renew_ttl`, which does not extend the instance, and once that is archived
  every renewal fails. The other two allow pauses and speak of the time the instance
  lives.
- `RATE_LIMIT_WINDOW <= DEFAULT_TTL` (100 and 120 960 in the code) is an `ASSUME` of
  `RateLimiter`: an entry that lapsed inside its window would let the owner start afresh.

### Inductive invariants

*AlertRegistry.* None of the first five properties is inductive alone. Types need
`LivesMatchEntries` (an entry and its life, one object of the host, are kept in two tables
of the model with the same keys), because `close_ledger` keeps exactly the entries whose
life is left.
Soundness needs `IdsBelowCounter`, because only a fresh id is certain to be in no stale
list, and it needs itself for both indexes: `transfer_alert_ownership` removes the id from
the owner's own list only, and it is soundness that says no third list holds it. So `IInv`
is their conjunction, regrouped into five parts (settings, alerts, lives, owner index,
contract index) so that an action's proof shows only the parts it can disturb. The effects
of the index helpers are lemmas about one index over any set of keys, stated through
`Listed(index, k)`, the set of ids under a key, and used for both indexes.

*The other properties of AlertRegistry* are proved on top of `IInv`. The flag needs the
comparison of the two lives that `ActiveFlagAgrees` states, since it is what makes the
flag lapse no later than its alert. For the indexes, `Follows` says how one step changes
the lists relative to the alerts, for every action and whatever lapses; from it come
`NoListingLost` (one step) and, while nothing lapses, `AllExact` (by induction: equality of
both indexes with the alerts, and a flag for every alert). The refinement and the limit
rest on `AllExact`: the contract counts, silences and prunes what its index lists, the book
what it holds.

*Clients.* `PollingMissesNothing` is inductive together with `last_sync <= timestamp` and
uses `ChangesStamped`: a change between two polls carries a time not before the last poll.
`ReadingComplete` uses `ReadingInv`: as long as the list has only grown, each alert that was
due has been seen or stands at a position beyond the offset. That an empty page means the
end needs an exact index, or a page could come back empty because all its alerts had lapsed.

*Pages.* The readers of the properties and the loop of `get_alerts_updated_since` are
recursive functions. Each is shown equal to an explicit one (what is left of the list; the
page of what was found so far): the explicit one satisfies the recursion, so the recursive
function exists, and two functions that satisfy it cannot differ at a last offset or a
first entry (`SameReading`, `LeastNumber`). `KeepConcat`, filtering piece by piece, is what
makes short pages over lapsed entries add up.

*Keeper.* `KeptInv`: while the instance lives both indexes are exact, and all four entries
of an alert renewed in this ledger (alert, flag, the owner's and the contract's index) have
a ledger left. It is preserved because no call shortens the life of an entry it keeps
(`HoldsLives`), and one that moves an alert extends the index it moves it to. A ledger
closes only over renewed alerts, so nothing lapses. `UnpausedInv` adds the instance's life,
which every `bump_alert` extends, and that both indexes are exact throughout, because an
instance lapses in an empty registry only. With that the refinement of AlertBook and the
limit carry over from a contract where nothing lapses: `BookStep` and `LimitStep` ask only
that a closing ledger takes no alert away.

*WatcherRegistry.* The invariant is types, no repeated admin, `ExpiriesOfWatchers` and
`CountCovers`. The mapping to `WatcherBook` sends the list, where a watcher may occur more
than once, to its set. The book grants only to those who have no grant, so
`register_watcher` is a step of it for a watcher who is not listed, and for a listed one the
step that `lists_again` excepts; every other call is a step of the book on lists with copies
too. `ExpiriesOfWatchers` is what makes a newly listed watcher a grant without deadline.
`CountCovers` survives a removal because every copy leaves the list while one is taken off
the count, and a listed watcher means that there is one to take.

*ModularRegistry.* Types, repetition-free lists and matching lives hold whatever lapses.
`CounterAhead` adds, until the counter has restarted, that stored and listed ids are below
the counter and listed alerts are at home. It survives a lapse of the counter that leaves no
id behind, since then there is nothing to be ahead of. Only a registration adds anything;
lemma `Fewer` treats all other steps, a closing ledger among them, at once.

*RateLimiter.* Neither property is inductive. For each owner `HistoryOK` says that no stretch
of a window's length holds twice the limit; `WindowOK`, of a stored window, that its count
is exact, that the ledger that opened it let something through, that nothing was let through
after its end or since its entry was last extended, and that in a stretch that ends where it
began there are fewer than the limit; `QuietOK`, of an owner without one, that nothing was
let through for a window's length. When a window opens, a stretch that ends there does not
reach back to the ledger that opened the previous one, so it misses at least one of at most
`RATE_LIMIT_COUNT`: hence strictly less than twice the limit. An entry lapses only after
`DEFAULT_TTL` quiet ledgers, which gives `QuietOK`.

*EventListener.* `PageOK` relates the page in memory to the cursor (increasing, beyond the
cursor, without a gap in the matching events); `NoneSkipped` follows when the cursor moves.
`OrderOK` counts the steps back in the handled sequence against the crashes, with the slack
of one while a crash has not yet shown.

*Vectors.* `KeepFacts` rests on ranks in finite sets of numbers, so no induction is needed.

### Checked by TLC only

Liveness under fairness is out of the prover's reach: `AlertsReachMirror`,
`ExpiryTakesEffect` and `AllHandled`. So is `ENABLED`, and with it that no run deadlocks.

## Plan

1. *(done)* `AlertRegistry` with independent expiry, its invariants, and the index
   soundness and fresh id theorems.
2. *(done)* `AlertBook` and its refinement; `AlertQueries` and `SyncClient`;
   `WatcherRegistry`, `WatcherBook` and the composition `WatcherGating`; `Keeper`;
   `ModularRegistry` and `RateLimiter`; `EventListener`.
3. *(done)* Proofs of the remaining invariants and action properties of `AlertRegistry`,
   of both refinements, of polling and gated reading, of `WatcherRegistry`,
   `ModularRegistry` and `EventListener`.
4. *(done)* Proofs about `Keeper` and `RateLimiter`, of the pages of both contracts and of
   the loop of `get_alerts_updated_since`.

## Not modelled

- TypeScript bindings and shell scripts: client-side I/O without state of their own.
- Contract upgrade: replaces the code that is modelled.
- The events each call publishes and most return values: no code of the contracts reads
  them. The listener models the stream of register events.
- Storage fees, the protocol's entry size limit (`StorageError`), instruction budgets.
- Restoration of archived entries: no code of the repository does it.
- `alert-registry/src/guards.rs` (three copies of one guard that do not parse) and
  `watcher-registry/src/{storage,types}.rs` (fragments of what `lib.rs` has in full).
- Getters that return one stored value (`get_alert_active`, the instance keys), the
  paginated reads of `contract.rs` and its unused helper `bulk_renew_one`.
