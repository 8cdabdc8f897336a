# Formal models of kpidash

kpidash is a dashboard on a Raspberry Pi: a C process (`src/`) whose LVGL
thread polls Redis once a second and paints host cards, footer cards, graphs
and a status bar; Python clients (`clients/`) on the fleet's hosts publish
into Redis. This directory holds TLA+ models of the parts whose behaviour
depends on order, failure and limits, TLC configurations that check them, and
proofs checked by TLAPS. `PROJECT.json` ties each definition to the lines of
source it models.

The dashboard has **one** thread that matters: `timer_poll_cb` (main.c) runs
`redis_poll`, `save_admitted_if_changed` and `ui_refresh` in turn. What makes
it hard is that Redis and its writers move between any two commands of a poll,
that any command may fail, that the process may die at any point, that all
tables are fixed arrays, and that most feeds say "healthy" by *absence*.

## Inventory

| Part | State | Operations | Hard parts | What makes it correct |
|---|---|---|---|---|
| Host staleness feed (`registry.c`, `redis.c`, `ui.c`) | pending and live tables, card containers | SCAN/GET walk, observe, commit, abort, reap, paint | keys change during the walk, SCAN repeats keys, walks fail half way, tables full, grace of intermittent hosts | no flagged host without a card; no card taken down on a partial view; no card leaked |
| Client registry and admission (`registry.c`, `redis.c`) | client table, admitted set, dirty flag | remove absent, admit, find or create, evict, online/offline | truncated, failing and error replies; TTLs; crash | a card is earned by publishing and survives silence and restart |
| Admitted-hosts file (`admitted.c`, `main.c`) | a file with two sections | load, save | crash, failing save, two sets and two flags | the file holds whatever the panel has shown |
| Network card state (`netstate.c`) | columns, acks, history, admitted set | observe record and ack, derive colours, seed | stale record, reset counters, ack of a later warning | never-published and dead are told apart; an ack hides only what it saw |
| Status queue (`status.c`) | ring of 16, bar, `status:current` | push, acknowledge | wrap-around, drops, connection lost in the middle | bounded FIFO, bar shows what an ack dismisses |
| Services, apt-temps, evict (`registry.c`, `redis.c`, `ui.c`) | tables of entries with LVGL handles | upsert, remove, GETDEL, self-service | handles and entries go together, command lost | a card and its entry live and die together |
| Card grid, footer strip (`ui.c`) | LVGL objects | sort, add, remove, reorder | full grid, unstable sort | one card per client, in priority order |
| Graph hosts, layout pool (`registry.c`, `ui.c`) | series, widgets, cells | find or create, evict, place | stale series, capacity | no overlap, no dangling widget |
| Activities, repos, fortune, dev commands (`redis.c`, `fortune.c`) | last values | poll | cap, expiry, pushed against timed | what is shown was published |
| memstat, logfilter, config, screenshot | counters, seen set | sample, filter | high water once | warns once |
| Python client (`daemon.py`, `redis_client.py`) | one connection shared by threads | write, reconnect | a thread's reconnect under another's write | no loop dies |
| Net collector (`net.py`) | history rings, baseline | observe, save, load | restart, reset, gap, provisional sample | 24 h deltas neither lost nor doubled |
| MCP server, CLI, scripts, fonts, widgets | - | - | wrappers, drawing, deployment | not modelled |

Parts interact through Redis keys (publishers and dashboard), through function
calls on the LVGL thread, and through the file (one run of the dashboard and
the next). The registries' mutexes protect against no second thread today, so
a call under a lock is one step; a Redis command is the unit of interleaving
where a part's correctness depends on it.

## Modules

| Module | Models | Checked by |
|---|---|---|
| `Tables` | arrays of structs keyed by a name | |
| `Lists` | sorting a set of keys, picking entries of an array | |
| `StaleFeed` | host staleness feed from SCAN to paint | `stale_feed`, `stale_live`, `stale_order`, `stale_alias` |
| `Admission` | client registry, admitted sets, file, network columns | `admission`, `admission_live`, `admission_lost` |
| `StatusFifo` | abstract: a bounded FIFO whose head leaves when acknowledged | |
| `StatusQueue` | the ring of `status.c`; refines `StatusFifo` | `status_queue`, `status_current` |
| `PyClient` | the client daemon's loops over one unlocked connection | `client` |
| `CardGrid` | client cards: priority order, creation, removal | `screen` |
| `FooterStrip` | service, staleness and apt-temps cards, prune script, evict command | `screen` |
| `GraphPool` | graph series, their widgets, the layout pool | `screen` |
| `Screen` | composes the three: one poll feeds them, one paint arranges them | `screen` |
| `NetHistory` | the network collector's samples, drops and file | `net` |
| `NetPanel` | `NetHistory` with the record, the acknowledgement and the panel's column | `net` |
| `MCStaleFeed`, `MCAdmission`, `MCPyClient`, `MCScreen` | instances | |
| `StaleFeedProofs`, `AdmissionProofs`, `StatusQueueProofs`, `PyClientProofs`, `ScreenProofs`, `NetProofs` | theorems | TLAPS |
| `ListProofs`, `Loops` | facts about lists and about `FoldLeft` that the theorems use | TLAPS |

### StaleFeed

`feed` is the keyspace `kdash:stale:*`; `pending` and `live` are
`g_stale_pending` and `g_stale` (an entry's `pos` is its array index, its
`container` says whether a card exists), `strip` the card objects on screen.
`pc` follows the LVGL thread: *boot/idle* -> `BeginCycle` -> *scan* ->
`ScanPage` -> *get* -> `GetKey`... -> `NextPage` or `Commit`, `AbortCycle` at
any command -> *refresh* -> `Refresh`. A GET is a step of its own, so a key can
be raised, cleared and raised again between its SCAN and its GET.

SCAN is modelled by its guarantee: pages hold any existing keys, a key may come
again, and cursor 0 is not returned before every key that existed during the
whole walk was (`owed`). `lasting`, `sighted` and `asOf` are history variables
for that guarantee and for the properties.

* `CommitKeepsFlagged`: after a commit each key that existed during the whole
  walk has its host live and its deployer listed, unless a documented limit
  was exceeded. The limit is stated exactly: the hosts sighted in the walk
  outnumber the pending table, or the deployers of the host their list, or the
  hosts sighted and the entries still in the live array outnumber that array.
* `ListedWasFlagged`: no deployer is listed that did not flag.
* `StripMirrorsLive`, `ArrayDense`: cards and entries correspond; the array has
  no gaps.
* `TakedownNeedsClear`: a card goes only after a complete walk without its flag.
* `PersistentFlagShown`: a flag that stays up gets a card that stays up.

`Raise` on an off-contract key stores a payload without a readable `since`; a
GET may also answer with something that is no string. Both raise the host.

Left out: the order of deployers inside one card and the card's text (no
property is about them), lengths of names.

### Admission

`members`, `data` and `netKeys` are Redis; `clients`, `admitted`, `dirty` the
registry; `columns`, `netAdmitted`, `netDirty` netstate; `file` the two
sections on disk. `pc` follows `timer_poll_cb`: `BeginPoll` (SMEMBERS and
`registry_remove_absent`), `PollHost` for each member (two GETs,
`registry_admit`, the payload), `EndHosts`, `PollNet`, `Save`, `Refresh`.
SMEMBERS may answer in any order, with an error, or not at all; a GET may break
the connection, after which all later commands of the poll fail (`broken`); a
save may fail; `Crash` may come before any step. `data[h]` tells apart what the
code does: only telemetry, a health payload, a health payload that does not
parse, nothing. `published` and `remembered` are history variables.

* `CardMeansPublished`: membership alone never earns a card.
* `ShownIsRecorded`: after the poll, cards and columns with a feed are in the
  file, unless the last save failed, the name cannot be stored or a set is full.
* `OutageVisible`: after a restart every polled member that an earlier run
  recorded has a card again, and its column does not read "never published".
* `CardLeavesWithMembership`: a card goes only if its host is not among the
  members polled, so eviction is unreachable from the poll.
* `SilentGoesRed`: silence ends in an offline card.

`admitted_save` is one step with two outcomes, because it writes a temporary
file and renames it. `Boot` assumes an existing file can be read.

### StatusQueue and StatusFifo

The ring with its three cursors, the bar, `status:current` and the ack keys.
`CheckAck` is `status_redis_check_ack` on an acknowledged head; its DEL and its
SET may each fail. Only Redis's answer to EXISTS decides, and the single thread
writes the queue, so the handler is one step. `FifoSpec` is the specification
of `StatusFifo` with `waiting` mapped to the ring's contents.

### PyClient

`connected` is "`self._r` is not None"; `pc[t]` follows a thread through
`_cmd`, `reconnect_on_failure` and `connect`. Nothing locks `self._r`, so every
*read* of it is a step: `Test` (`if not self._r`) and `Call`
(`getattr(self._r, ...)`), `Recover` and `Ping`, the assignment in `Connect`,
the read in `Greet`, the clearing in `Drop`. `up` is the Redis server,
`resolvable` what `resolve_redis_endpoint` asks; both may change at any time.
`disturbed` and `fresh` are history variables. A loop that reads a cleared
attribute gets an `AttributeError` and ends (`"ended"`), unless it catches
`Exception` there as `_net_loop` does for its calls, but not for its
reconnects.

* `SomeLoopRecovers`: the daemon never falls silent as a whole. That is not
  obvious: any *single* loop may end.
* `UndisturbedRuns`: without an outage no loop ends or loses the connection.
* `PublishingResumes`: once Redis and the resolver stay up, each loop that has
  not ended publishes again and again, even the repository loop, which cannot
  reconnect, and even though a late failure may clear a good connection.

Left out: shutdown, the disconnect of the old `Redis` object, several addresses.

### Screen: CardGrid, FooterStrip, GraphPool

`pc` of `FooterStrip` is the LVGL thread: `Poll` (step 3 to 9 of `redis_poll`),
`Evict` (staleness and GETDEL), `Paint` (`ui_refresh`); publishers, prune
scripts and expiry move between them, a restart may come at any of them.

`CardGrid`: `clients` is the registry's array, `cards` the array of slots,
`grid` the children of the LVGL grid. `ByPriority` is the code's exchange sort,
pair by pair, because it is *not* stable and the result matters.
* `GridMirrorsCards`: objects and slots correspond, none is orphaned.
* `QuietPaintShows`: hosts a full grid turned away have their card after the
  first paint without a newcomer. (That a host always gets its card at the
  paint after its poll is false: new cards are made before old ones go.)
* `PriorityLeads`: with a card for each client the priority hosts lead in order.

`FooterStrip`: `entries` are `g_services` and `g_apttemps`, an entry's value
says whether its container exists; `strip` is the flex row. A prune script
deletes keys one by one and then names those it has deleted in one SET
(`StartPrune`, `DeleteRow`, `StopRows`, `Send`); the panel takes it by GETDEL.
* `StripMirrorsEntries`: one object per entry and stale host, no other.
* `GroupsInOrder`: services, then stale hosts in array order, then zones by slug.
* `EvictedStaysAway`: an evicted card returns only if published again.
* `LeavesByOrderOnly`: a card goes by a command that named it, once per command.

`GraphPool`: `series` counts the seconds since a host's last sample (capped at
the eviction limit), `places` the widgets and their cells.
* `NoOverlap`, `WidgetsOwned`, `PlacedWhileRoom`: widgets never overlap or stick
  out, exist exactly for the series that own them, and are left out only when
  no room is left. Nothing says the network card is shown: six graphs fill
  the pool and the kind order puts it last.

Left out: what the cards show, the staleness walk itself (`StaleFeed`; here
`StaleTables` says what a commit may make of the array), host cards in the
admitted set (`Admission`), the overlays for developers. Activities, repository
status and fortune are compiled out of the panel (`KPIDASH_WIDGET_* 0`).

### NetHistory and NetPanel

One cumulative counter of a bonded host (the primary slave's Link Failure
Count) from the kernel to the colour of a column. A `Tick` is
`NetCollector.collect` and `write_net`: `WithSample` is `_keep`, `Delta` is
`_delta`, `NewDrops` and `Youngest` the drops; the file is written only when
the tick changed more than a provisional sample. `Crash` loses memory (and may
re-initialise the counter), `Start` reads the file. `rises`, `told`,
`failures`, `masked`, `seen` are history variables: what really happened. A
record's `drops` are a list, as in the code: two drops of one tick have one time.
`NetPanel` adds the record with its EX 15, the acknowledgement as its two
commands (`AckRead`, `AckSet`), and `Poll`, which subtracts it.

* `DeltaTells`: the published delta covers every rise of the last day that a
  process watched, and counts none from before it. Two exceptions, both in the
  code: what a crash takes along when the counter starts anew too, and a reset
  whose sample is overwritten while provisional (`masked`).
* `DropsTell`: published drops are link failures, never a boot; none told is
  forgotten over a restart.
* `UnseenWarns`: an acknowledgement hides nothing its acker did not see, though
  ticks, failures and expiry come between its two commands. Excepted: acks from
  before a reset, when the baseline means nothing.
* `AckClears`: with nothing unseen, the column is calm.

Left out: a counter that cannot be read (null), a failing save, a clock set
back, `rx_errors` as a second counter, single-NIC hosts, legs and reachability,
the throughput history and the headline.

## Runs and bounds

| Run | Instance | Shows |
|---|---|---|
| `stale_feed` | 3 hosts, 4 keys, tables of 2, clock stopped | capacity, repeated and unreadable keys, aborted walks |
| `stale_live` | 2 hosts, 3 keys, table of 1, clock 0..1, grace 0 | time, takedown, liveness |
| `stale_order` | as `stale_feed` | **violation**: cards not in name order |
| `stale_alias` | one host, two keys with one name | **violation**: an overdue flag hidden by a young one |
| `admission` | 3 hosts, 2 slots, one name the file cannot hold | admission, file, crash |
| `admission_live` | 2 hosts, 1 slot, all payload kinds | liveness of the red card |
| `admission_lost` | 2 hosts, 2 slots | **violation**: an error reply empties the panel |
| `status_queue` | 3 slots, 5 pushes | refinement, wrap-around, drops |
| `status_current` | the same | **violation**: the first message is not published |
| `client` | 3 publishing loops (one of two commands, one that catches all) and the repository loop | threads sharing a connection |
| `screen` | 8 worlds over 3 services for 2 slots, 2 zones, 2 stale hosts, 2 scripts, 4 clients for 3 slots, 4 graph hosts for 3 series and 2 widgets | grid, strip and graphs together |
| `net` | day 3, hour 2, provisional for 2, TTL 2, one drop kept, clock 0..5, 2 troubles | deltas, drops, acknowledgements |

Bounds named in the modules: `MaxNow` (last second of the clock), `MaxPushes`
(messages of a lifetime), `MaxTime` and `MaxTrouble` (clock, and number of
failures, resets and crashes, in `NetHistory`), the array sizes (`HostsMax`,
`DeployersMax`, `MaxClients`, `QueueMax`, `ServiceMax`, `ZoneMax`, `TargetsMax`,
`GraphMax`, `Capacity`) and the sets of names. One host more than the table
holds reaches every limit; two deployers on one host reach merging and the
mixed grace; a clock of two values and a grace of 0 separate young from overdue;
five pushes over three slots wrap the ring and reuse two slots. The set of
names is not taken as symmetric, since names are ordered in `StaleFeed` and
play different roles in `Admission`. No run disables deadlock checking.

`Screen`'s parts share the thread and nothing else, so the product of all their
instances would only multiply states. `Worlds` names the sets of hosts, cards
and scripts that exist in one behaviour, chosen at the start: each of seven
worlds exceeds one limit or crosses one pair of actors, an eighth has a
little of everything. `NetHistory` counts time in ticks: a day of three ticks
still separates a sample in the window, one kept beyond it and one dropped; two
troubles give failure and reset, failure and crash, crash and reset, which is
what every exception of its properties needs. `Around` keeps the acker's
two commands within one record lifetime, since each has a socket timeout.

Every property of a passing run has a mutant: a named variant of one action or
operator with a plausible bug (kept next to it in the module), under which TLC
finds the property violated.

## Fairness

Of the panel only `WF_vars(Dashboard)` and `WF_vars(Panel)` are assumed: LVGL's one-second
timer calls `timer_poll_cb` again and again, and each of its calls returns,
because Redis commands have a timeout. Nothing is assumed of publishers, of the
clock, of crashes or of commands succeeding. The liveness properties therefore
carry their premises: walks keep being committed (`[]<>`), polls keep listing
the host. In `PyClient` each thread is weakly fair (`FairSpec`): the operating
system schedules it, its waits have an interval and its socket calls a timeout.
Redis and the resolver are not fair: `PublishingResumes` has as its premise that
they stay up from some moment on.

## Proofs

Each theorem holds for every value of the constants that satisfies the module's
ASSUME (`StaleConstants`, `AdmissionConstants`, `StatusConstants`,
`ClientConstants`, `StripConstants`, `GridConstants`, `PoolConstants`,
`HistoryConstants`, `PanelConstants`). Two of these are more than types:
`Hour` is not 0 (`HOUR_S` is 3600; with an hour of no length a tick would drop
what it has just seen), and `None`, Python's `None`, is neither a number nor a
sample.

| Module | Theorem | Statement |
|---|---|---|
| `StaleFeedProofs` | `TypeCorrect` | `Spec => []TypeOK` |
| | `StripSound` | `Spec => []StripMirrorsLive` |
| | `ListedSound` | `Spec => []ListedWasFlagged` |
| | `NothingMissing` | `NoAliases` implies `Spec => []CommitKeepsFlagged` |
| | `TakedownSound` | `NoAliases` implies `Spec => TakedownNeedsClear` |
| | `ArrayHolds` | `Spec => []ArrayDense` |
| `AdmissionProofs` | `TypeCorrect` | `Spec => []TypeOK` |
| | `CardsEarned` | `Spec => []CardMeansPublished` |
| | `RecordComplete` | `Spec => []ShownIsRecorded` |
| | `OutagesShown` | `Spec => []OutageVisible` |
| | `CardsStay` | `Spec => CardLeavesWithMembership` |
| `StatusQueueProofs` | `TypeCorrect` | `Spec => []TypeOK` |
| | `BarCorrect` | `Spec => []BarShowsHead` |
| | `RingIsFifo` | `Spec => FifoSpec` (refinement) |
| `PyClientProofs` | `TypeCorrect` | `Spec => []TypeOK` |
| | `NeverSilent` | `Spec => []SomeLoopRecovers` |
| | `UndisturbedHolds` | `Spec => []UndisturbedRuns` |
| `ScreenProofs` | `ScreenTypes` | `ScreenSpec => []TypeOK` |
| | `StripFollows` | `ScreenSpec => []StripMirrorsEntries` |
| | `GroupsStand` | `ScreenSpec => []GroupsInOrder` |
| | `EvictionSticks` | `ScreenSpec => []EvictedStaysAway` |
| | `OnlyOrdered` | `ScreenSpec => LeavesByOrderOnly` |
| | `GridFollows` | `ScreenSpec => []GridMirrorsCards` |
| | `PriorityFirst` | `ScreenSpec => []PriorityLeads` |
| | `NewcomersCatchUp` | `ScreenSpec => QuietPaintShows` |
| | `CellsApart` | `ScreenSpec => []NoOverlap` |
| | `WidgetsBelong` | `ScreenSpec => []WidgetsOwned` |
| | `PoolFills` | `ScreenSpec => []PlacedWhileRoom` |
| `NetProofs` | `NetTypeCorrect` | `Spec => []TypeOK` |
| | `DropsTrue` | `Spec => []DropsTell` |
| | `DeltaTrue` | `Spec => []DeltaTells` |
| | `AcksClear` | `Spec => AckClears` |
| | `UnseenTrue` | `Spec => UnseenWarns` |
| `Loops` | `LoopKeeps` | a loop (`FoldLeft`) keeps what each of its steps keeps |

`NoAliases` says that two keys never share host and deployer name, that is, that
all keys keep the contract's three segments; without it `CommitKeepsFlagged` is
false (run `stale_alias`).

Why an invariant is needed for each:

* **StaleFeed.** `StripMirrorsLive` is inductive once one knows that emptied
  entries exist only between a commit and the next refresh (`EmptiedByCommit`).
  `ListedWasFlagged` needs that pending deployers were sighted
  (`PendingSighted`). `CommitKeepsFlagged` is about the commit, but what makes
  it true happens during the walk: `WalkInv` says that every lasting key is
  still owed by SCAN, on the current page, recorded in `pending`, or dropped at
  a full table (`WalkFinds`), and `PendingTrue` that a recorded `since` is the
  one in Redis, or unreadable, as long as the key lasts. The takedown theorem
  follows from `CommitKeepsFlagged` and the two strengthened invariants.
  `ArrayDense` needs that positions are a bijection (`Placed`), which the reap
  keeps because a kept entry's new index counts the kept ones up to it.
* **Admission.** `IInv` adds to the types that the reply never exceeds the table
  (`ListFits`: why eviction is unreachable) and what the file may hold
  (`FileInv`: no more than the sets, and no more than the table). `PublishedInv`:
  whoever is admitted, recorded or holds a payload has published. `RecordInv`:
  what is shown is in its set or the set is full, and what is in the set is in
  the file or the dirty flag is up, or the last save failed. `VisibleInv`: of
  the hosts a poll has dealt with, those in the file have their card.
* **StatusQueue.** `TypeOK` relates the cursors to the count, `QueueInv` adds
  that the bar shows the head and that what is queued was pushed. Lemmas on the
  wrap-around (`Places`, `QueueStored`) then make each step of the ring a step of
  `StatusFifo` or a stutter (`StepRefines`).
* **PyClient.** A loop about to use `self._r` ends if it finds it cleared.
  `SomeLoopSafe` names a loop that will not: it has not ended, and either the
  attribute is set or the loop is not about to use it. Whoever clears it is such a
  loop itself. `UndisturbedHolds` needs that undisturbed loops never leave the
  path from test to call (`StraightPath`).
* **Screen.** `Silent`: a card evicted, or named by a command that was sent, or
  deleted and not renewed, has no key. `Pending`: command and targets name
  cards ordered away and not evicted since. The rest follows from `ScreenInv`,
  one conjunct for each part, since the three share only the thread:
  `StripInv` (the arrays name each object once, and after a paint the entries
  and stale hosts are these objects, in their groups), `GridInv` (slots and
  objects are the same clients, drawn from those of the last paint, no more than
  the slots; when all of them are there, ranks ascend) and `PoolInv`. The work is
  in what one paint computes. The exchange sort is proved pass by pass: after
  pass i the first i places hold the least ranks in order, whatever the
  exchanges did to the others. `AllMovedLast` leaves the moved objects last in
  their order and the rest as it was, and `Place` keeps that no cell of the pool
  is taken twice while it proceeds, and that what it left out did not fit.
* **Net.** `DropsInv`: a drop held in memory, the file or the record has a link
  failure within the hour before it (`DropsCaused`), and what was told is in the
  file, or the file holds as many as it may (`DropsSaved`). `RisesInv`: while
  a process runs, its last sample is the latest of all (`SamplesSeen`), a drop
  is a logged rise (`DropsRose`), and while the log has no rise after the time
  of a record, a reading or a baseline, the last sample and the record are that
  value or 0 (`BaselinesQuiet`).
  `DeltaTells` compares what the series sums up with what the log of rises sums
  up, though samples are overwritten, dropped and lost. `DeltaInv` does so from
  every sample on, for the series in memory and the one in the file alike: what
  it rises from there, with the rise from its end to the latest sample of all,
  is no more than all rises logged since (`NotMore`), and no less than the
  watched ones unless a reset was masked since (`NotLess`); and no watched rise
  of the time that counts lies further than `KeepFor` behind a sample (`Dense`),
  so the first sample of the day is early enough. `LogInv` says what the log is:
  rises between ticks, one for each tick at most. A tick keeps these because
  overwriting the newest sample loses a rise only if it masks a reset
  (`OlderRises`), and because the log takes back (`lost`) what a crash and a
  reset make the next process overlook.
  `UnseenWarns` needs that the record tells the watched rises for as long as it
  lives (`RecordTells`), and `BaselinesRise`: without a reset since, the
  record's counter is above a baseline read before a rise the record reports.

Loops. The model writes the code's loops as `FoldLeft`. Its definition chooses a
function on subsets of positions, so a proof must first show that there is one:
`LoopKeeps` does so for any step (module `Loops` has it as a constant operator
and is instantiated for each loop) and gives the induction along the run that
loop invariants need. Induction itself comes from the least element of a set of
numbers (`Smallest`, `UpTo` in `ListProofs`), because the library's induction
theorems take an operator. `ListProofs` also proves what sorting a set and
picking from an array do (`Ascending`, `Within`, `Without` of module `Lists`).

Two statements of `net` turned out wrong beyond the bounds of its run when they
were to be proved, and TLC confirmed it with a third and a fourth trouble:
`DropsTell` counted the times of the drops instead of the drops (several drops
of one tick fill the list with one time), and `Logged` took a reset and a climb
back to the saved value for no rise. Both are mended, in the record
(`drops` is a list) and in the log.

Sums. `Total` is the fold of the community modules over a set, defined by
`CHOOSE` of a recursive function; `SumsExist` proves that there is one and
`TotalMinus` that any element may be taken out first, by induction on subsets
(`SmallestSubset`, `BySubsets` in `ListProofs`: of the subsets of a finite set
that fail, one has no smaller one that fails). Sums over a series are loops:
`SumAppend` says what one more sample adds.

Model-checked only: the three liveness properties (fairness and `ENABLED` are out
of the prover's reach). Every invariant and every action property of the passing
runs is a theorem.

## Where the code and its documents disagree

`PROJECT.json` lists each with the quoted lines.

1. Staleness cards are not sorted by name (`stale_order`).
2. An overdue flag can hide behind a young one of the same name (`stale_alias`).
3. An error reply to SMEMBERS empties the panel (`admission_lost`).
4. The first status message is never published for acknowledgement (`status_current`).
5. Priority hosts are not protected when there are more members than slots
   (`CardLeavesWithMembership` shows that eviction is never reached).
6. A full net set makes the file be rewritten on every poll.
7. A counter reset can be overwritten while its sample is provisional, and the
   rise after it is lost (exception `masked` of `DeltaTells`).
8. A loop of the client may end by `AttributeError` though "loops will retry"
   (`"ended"` in `PyClient`).
9. A drop between an acker's two commands is filtered unseen (times in
   `NetPanel`).
10. A counter that comes back to the acknowledged baseline after a reset reads
    as nothing new; an expiring ack may bring a reviewed warning back for seconds.
11. The priority sort does not preserve registration order (`ByPriority`).
12. Service cards seen later do not stand in (name, host) order (`Arranged`).
13. An evict command can be lost whole or in part, and the card then stays
    (`Send`, `PollEvict`).

7 to 13 have no violation run of their own: the modules name each as an
exception of a property or leave open what the code leaves open.

## Not modelled

* Activities, repository status and fortune: compiled out of the panel; what
  remains are reads into lists nobody shows.
* `memstat.c`, `logfilter.c`: one caller, no second actor, a comparison and a
  bounded array each.
* Configuration, payload parsers, the parser of the admitted file: sequential
  text processing; what their results are used for is in the models.
* Fields of payloads beyond what decides presence, order or warning: colours,
  texts, curves, the headline of the network card.
* Drawing (`widgets/`, fonts, icons, screenshots), stateless collectors, the
  command line, the MCP server's wrappers, scripts and units, except
  `kpidash-cards`.

## What could come next

The red side of a network column (legs, reachability, flapping) and its throughput
history; the nullable counters and failing saves of `NetHistory`; a clock set
back; service-card colours against their freshness windows; a model of LVGL's
children that would let `StaleFeed` be used inside `FooterStrip` instead of
`StaleTables`.
