# Fail2Ban Guard: a verification project

TLA+ modules for the program in this repository, the TLC runs that check them on
small instances, and TLAPS proofs for every value of the constants. Definitions
are translated from the code; `PROJECT.json` (`map`) names the lines each one
stands for.

## The system

Fail2Ban hosts report their permanent bans to a pfSense firewall, which blocks
an address as long as some host claims it and no whitelist covers it.

```
 Fail2Ban ──hooks──▶ sender.db ──worker──HTTPS──▶ handler threads ──▶ state.db
    ▲                   ▲                              │   periodic thread
    └──── snapshot ─────┘                              ▼        │
          (every minute)                          Enforcer (one lock)
                                                       │ Unix socket
                                                       ▼
                              whitelist.txt ──▶ root PF helper ──pfctl──▶ 2 PF tables
```

| Part | State | Operations | What is hard | What makes it correct |
|---|---|---|---|---|
| Receiver store (`store.py`) | tables client_state, claims, events, snapshots | apply_events, apply_snapshot, prune_history | batches that fail in the middle, pruned history, stepped clocks, crashes, shared limits | a write is applied whole or not at all; the sequence only advances; nothing is acknowledged that is not covered; limits hold |
| HTTP server (`server.py`) | handler threads | do_POST, do_GET | retries, late copies, answers lost after the commit | the receiver's claims of a client are a state the client was in |
| Admission (`server.py`, `config.py`) | the client list, 64 worker slots, the stamps of the rate limiter | accept, handshake, authorize, allow, the finally clause | connections that end at any stage; a clock read before the lock | slots come back once; the rate holds and refuses nobody needlessly; one client per certificate |
| Enforcer, helper client (`server.py`) | the lock, table enforcement_state | enforce, replace with three attempts | requests given up but still carried out, a status that outlives its truth | a recorded success is true; the tables converge; every thread gets an answer |
| PF helper (`pf_helper.py`) | its backlog, the request it serves; the PF tables | replace with undo | two tables, one at a time; pfctl failures both ways; a whitelist that moves | success is whole; a whitelisted address is never put back |
| Whitelist and its index (`server.py`, `pf_helper.py`, `networks.py`) | the networks parsed, the merged intervals | parse, merge, search | boundaries; files that cannot be read to the end | membership in some network of the file; all of it or nothing |
| Address filters (`sender.py`, `store.py`, `pf_helper.py`) | none | canonical_ip, _ip, parse_request | three programs with a list each, of which the last refuses everything | what the receiver stores the helper takes |
| Sender store (`sender.py`) | metadata.seq, claims, outbox | enqueue, enqueue_snapshot, next_due, mark_* | reads before a transaction, the sequence fence, a full outbox | one identity per ban; claims follow Fail2Ban |
| Worker (`sender.py`) | the request under way | process_once | timeouts, restarts, permanent refusals | every change arrives once, in order |
| Snapshot command (`sender.py`) | sequence observed, jails enumerated | up to five attempts | hooks between any two of its steps | a calm snapshot repairs everything and releases no new ban |
| Fail2Ban action and units (`client/`) | Fail2Ban's ban lists (external) | actionban, actionunban, actionflush, timer | lost hooks, flushes without unbans | |
| pfSense integration (`f2bguard.inc`, `rc.d/f2bguard`, pages) | config.xml, generated files, processes | resync, refresh_whitelist, generate_rules, start, stop | callbacks inside a filter reload, half-done changes of the service state | a server left running serves the saved configuration and the current alias |

The parts meet in four places: `sender.db` (hooks, snapshots and the worker of
one host, serialized by `BEGIN IMMEDIATE`), HTTPS (at-least-once, because the
worker repeats the oldest row until it is accepted), `state.db` (handler threads
write, the Enforcer reads), and the helper's socket (the server may give a
request up, the helper still serves it).

## The modules

| Module | Models | Composed of |
|---|---|---|
| `Claims` | events, snapshots, claims, and the reference meaning of a batch without a loop | |
| `ClaimLedger` | abstract specification of the receiver's store | `Claims` |
| `ClaimStore` | class ClaimStore | `Claims`; implements `ClaimLedger` |
| `ClaimStoreProofs` | theorems about `ClaimStore` | |
| `SenderStore` | class SenderStore, as operations | `Claims` |
| `SenderProofs` | lemmas about `SenderStore`, for the two modules that use it | |
| `Fail2BanHost` | Fail2Ban, hooks and the snapshot command on one sender store | `SenderStore` |
| `HostProofs` | theorems about `Fail2BanHost` | `SenderProofs` |
| `Replica` | abstract specification of the delivery | |
| `Delivery` | workers, handler threads, both stores | `SenderStore`, `ClaimStore`; implements `Replica` |
| `DeliveryProofs` | theorems about `Delivery` | `SenderProofs` |
| `Enforcement` | Enforcer, HelperClient, PF helper, PF tables | |
| `EnforcementProofs` | theorems about `Enforcement` | |
| `NetworkIndex` | parse_whitelist, class NetworkIndex | |
| `NetworkIndexProofs` | theorems about `NetworkIndex` and `AddressPath` | |
| `AddressPath` | the address filters of sender, receiver and helper | `NetworkIndex` |
| `Admission` | client list, worker slots, certificate, rate limiter | |
| `AdmissionProofs` | theorems about `Admission` | |
| `Lifecycle` | resync, disable and filter callback of `f2bguard.inc`, `rc.d/f2bguard`, the two processes | |
| `LifecycleProofs` | theorems about `Lifecycle` | |
| `MC…` | constants for TLC | |

**ClaimStore.** A table is a set of rows that carry their client, so each WHERE
clause is visible. `apply_events` takes its decisions in `RejectBatch`,
`AnswerOldBatch` or `BeginBatch`; the loop is one `ApplyEvent` per event on the
working copies in `txn`; `RejectRebind`, `RejectTooMany`, `StoreFails` and
`CommitBatch` end it. `apply_snapshot` is one action per outcome, since no other
connection sees its intermediate rows. `prune_history` is two deletions, each its
own transaction. The payload hash is the payload. `time.time()`, which the code
reads before it takes the lock, is a clock that may be stepped both ways, so the
age a row gets is any age. The bound `MaxSeq` caps sequences, `MaxClock` the clock.

**SenderStore, Fail2BanHost.** Every command is one transaction after the
deletion of delivered rows that opening the store performs. A UUID is a value not
drawn before, and no two claims of one snapshot get the same (`Candidates`). The
snapshot command is a process with the phases *observe,
enumerate (jail by jail), identify, commit*, because everything else may run
between them. Fail2Ban is external: it changes its list and then runs a hook,
one at a time per jail. `MaxChanges` bounds its changes. `missed` holds the keys
of which a hook was lost, for good: `ClaimsFollowFail2Ban` and the theorem
`KeepsWhatItFollowed` say nothing of such a key any more, also after a snapshot
has repaired it. What they leave out is `CalmSnapshotReconciles`, which holds
whatever was lost before.

**Delivery.** `worker[c]` is the POST under way; `late[c]` are requests whose
worker gave up, which the receiver may handle at any later time; `open` is the
request that owns the store's transaction. The worker sends one event per
request, as `process_once` does. Enforcement appears only as its effect on the
answer (503 after the commit). `allowed` is the configuration as far as a
request meets it: the jails each client may report, none for a client that is not
listed. It changes only with a restart of the receiver (`"reconfigure"` in
`Failures`), among `Configurations`. Hooks and snapshots are unrestricted here, which
includes every order Fail2BanHost allows. `image` is a history variable: the
claims the client had at each sequence.

**Enforcement.** `effective` is what `effective_ips()` returns. One enforcement
goes through *read, calling, waiting, replied or failed* under the lock;
each attempt appends to the helper's backlog; a timeout leaves the request there
with nobody to answer. The helper lists both tables, replaces IPv4 and then IPv6,
and undoes both when one fails. The digest in the answer is the pair of tables
itself. `Retries`, `Backlog`, `MaxWrites` and `MaxPolicies` are bounds; the code
has 3 attempts and a backlog of 16, and `MaxPolicies` also bounds reboots.

The row `enforcement_state` is persisted, and nothing resets it when the server
starts (`store.py:287-296`, `server.py:191-196`), while a reboot and a filter
reload empty the tables. So `EnforcementInit` begins with empty tables beside any
row an earlier run may have left (`Persisted`), and `MachineReboots` and
`FilterReloads` keep the row. The history variable `emptied` says that the tables
were emptied after the helper last took up a replacement. Until it takes up the
next one an old success vouches for empty tables; `StatusIsTrue` and
`SuccessIsWhole` exclude this, and `Converges` says that the rounds repair it.

**NetworkIndex.** One action per line of the file and one per turn of the merge
loop; a version's ranges are a set of which the loop takes the least. `merged` is
the list that `_Intervals` holds as two tuples. The search uses the position
`bisect_right` is defined by. The helper parses the same file with a copy of
`parse_whitelist` and builds the same index.

**AddressPath.** An address has a kind (what `ipaddress` says of it), a literal
of it a spelling. One enforcement takes a set of literals, sent by the sender or
by another client of the API, through `canonical_ip`, `_ip`, the whitelist and
`parse_request`. Owner and mode of the file, and a whitelist that changes between
the server's and the helper's look, belong to `Enforcement`.

**Admission.** `conn[c]` is how far a connection with a slot is: *starting* in the
accepting thread, then *handshake, request, stamped, handling, closing* in its
own. `Closes` ends the try block, `Release` is the finally clause, so a slot that
is given back twice or never is a state of the model. `ReadClock` and `Allow` are
the two halves of `RateLimiter.allow`, the first outside its lock. `Legal` is the
loop over the client list; without a legal list the server does not start.
`admitted` is a history variable. The handler is one step here.

**Lifecycle.** Page and filter callback run the same PHP code beside each other,
on the same files and processes, so the code is modelled by its steps: `todo[p]`
is what process `p` has left to do. A procedure is a sequence of steps
(`Applying`, `Disabling`, `Stopping`, `Starting`), a call puts its steps before
the rest, and a failing one drops steps as far as the code that looks at its
result: `"check"` for a service command or a reload, `"applied"` and `"disabled"`
for the end of `f2bguard_apply_service_state` in its two callers. `json` is the
clients of an enabled `config.json`, `None` for a disabled one; a failed atomic
write may still have replaced its file, because the mode is set once more after
the rename. A stop fails when the server or the helper outlives the ten seconds it
is given (`StopFails`, `rc.d/f2bguard:125-135`): the script stops nothing more, and
the package writes the flag NO and tries one stop more (`f2bguard.inc:518-523`),
of which it looks at no result. External, and assumed: filter reloads exclude each
other; `service restart` does nothing under `f2bguard_enable="NO"` (its exit status
is either), and after a stop that failed it ends or goes on with its start; `service
stop` does stop under any flag - all of which `rc.subr` decides, and is not in the
repository; pfSense resynchronizes at boot.

## The runs

| Run | Question | Bounds |
|---|---|---|
| `claim_store` | Does the store implement the ledger, and keep sequences, keys and limits, whatever clients send? | two clients, six batches of one or two events and three snapshots chosen to reuse ids, rebind, cross the sequence, fail in the middle and exceed limits of one; history of one row; clock of two ticks |
| `host_hooks` | Do the claims follow Fail2Ban while hooks and snapshots interleave, and does one calm snapshot repair what lost hooks, a full outbox and flushes left? | two jails and two addresses, four changes of Fail2Ban's lists, three ids, three sequences, two attempts, an outbox of two |
| `host_flush_race` | Does the fence protect every new ban, as its comment says? **No.** | two jails, one address, four ids, changes by flushes and restored bans, an outbox of five |
| `delivery` | Does the receiver go through the sender's states one by one, also when one of its jails is taken away and given back? | one client, two jails, one address, three sequences, every failure |
| `delivery_two_clients` | The same when clients share a limit and one of them is removed and put back | two clients, one jail, two sequences, a global limit of one |
| `delivery_live` | Does the receiver catch up, and do releases reach it? | two sequences, timeouts, crashes, pruning, clock |
| `delivery_limit` | Do releases always reach the receiver, as the README says? **No.** | a client limit of one |
| `enforcement` | Is a recorded success true, and whole, and is the whitelist respected? | one address per family, a handler and the periodic thread, two attempts, backlog of one, any persisted record, every fault |
| `enforcement_live` | Do the tables converge by periodic rounds, and does every thread that waits for the lock get an answer? | one address, one handler, one attempt, pfctl failures, timeouts, filter reloads |
| `lifecycle` | Does a page beside filter callbacks ever leave a server that serves something else than what is saved, or wait for itself? | one page, two configurations saved or reboots, one edit of the alias, every fault; two valid client lists and alias contents and an invalid one |
| `address_path` | Is an address exempt exactly if the file lists it, and can one address stop the enforcement of the others? | files of up to four lines out of blocks of one, two and four addresses, unreadable and blank lines, a limit of three entries; reports with each kind and spelling |
| `admission` | Do slots come back, does the rate hold in real time, is nobody refused needlessly, does a certificate speak for one client? | nine client lists, two slots, four connections, a limit of two requests in a window of two ticks |

Why these bounds are enough to see the interesting cases: two events are the
smallest batch that can fail in its middle, and three sequences let one precede,
one meet and one cross the boundary; limits and histories of one row are at
their boundary all the time (with one row a table holds no two that could clash, so
the run of `SequenceSpentOnce` tests the table against the stored sequence and the
other table; the theorem has histories of any size); two jails are needed for a hook to run beside an
enumeration, and two addresses in one of them for two claims to get ids in one
snapshot, which `UNIQUE(jail, ban_id)` is about; one address of each family is the smallest state in which two tables
can disagree; two attempts and a backlog of one give a retry, a request left
behind and a full backlog; an alias edit lets a
callback disable the runtime beside a page, and two saves let the second replace
a running server. Two threads with stamps of their own are what it takes to enter
the limiter in the wrong order, and four connections in three ticks are enough for
that to happen with the limit reached. Four lines hold a nested, an adjacent, an
overlapping and a separate network, or three entries and the one too many. Runs that end in states where the bounds are used up
set `CHECK_DEADLOCK FALSE`; `claim_store` and the enforcement runs never stop and
are checked for deadlock. Ban ids, addresses and
jails are interchangeable where `SYMMETRY` is used, and no liveness property is checked with it.

`ServesWhatIsSaved` says nothing once one of three things has failed (`spoiled`),
from which the code does not recover: a write of `config.json`, which leaves the
service as it was (`f2bguard.inc:602-605`); a write of the enable flag, after which
the service is not stopped (`f2bguard.inc:512-515`); a stop, after which the old
process goes on with the old configuration (`rc.d/f2bguard:125-128, 134-135`). The
failures of the other files, of reloads and of starts, and reboots, are survived.
`NobodyWaitsForItself` and `EveryProcedureEnds` hold through all of them.

### What the two counterexamples show

* `host_flush_race`: a jail is flushed, which runs no unban hook
  (`actionflush = /usr/bin/true`); the snapshot enumerates it as empty; its ban
  is restored by a hook which finds the claim still active and commits without
  touching the sequence (`sender.py:343-345`). The fence sees no change, so the
  snapshot releases an address that Fail2Ban has banned, until the next snapshot.
  The comment at `sender.py:649-651` promises otherwise.
* `delivery_limit`: a ban over `claims_per_client` is refused with 400 each time
  it is sent; `next_due` only ever returns the oldest row, so no release behind it
  arrives, and addresses their host released stay blocked, against the first
  paragraph of `README.md`.

`RateIsKept` and `NoNeedlessRefusal` are about real time, not about stamps. For
the stamps the limit does not hold: threads may enter 0, 0, 2, 1 with a limit of
two in a window of two, because the clock is read before the lock is taken.

### Fairness

* `Delivery`: the worker loop, the backoff and the expiry of waits are weakly
  fair, for the process runs. Handling a request and reading its answer are
  strongly fair: attempts are repeated for ever, and the code can only promise
  delivery if not every one of them is hit by a timeout or a crash. Nothing is
  assumed of hooks, snapshots, pruning, the clock or the failures.
* `Enforcement`: the thread that holds the lock and the helper are weakly fair;
  whatever happens, sockets and pfctl time out. `threading.Lock` is not fair, yet
  between two rounds the periodic thread sleeps for 30 seconds and every
  enforcement is finite, so each waiting thread finds the lock free again and
  again: strong fairness of `EnforceBegins`. A pfctl call and the helper's accept
  are strongly fair: they may fail, not for ever.
* `Lifecycle`: every process takes its next step, as PHP and the rc script do; no
  step waits for another process but for the filter lock, which `Reload` gets if
  it is free again and again (strong fairness). An edited alias is reloaded and a
  started server reads its configuration. Nothing is assumed of saves, edits and
  failures.
* `Admission`: a started thread runs, takes the limiter's lock and reaches its
  finally clause; a connection whose peer says nothing ends, because the socket
  has its 10 seconds from before the handshake on and all reads are bounded.

## What is proved

Every invariant, action property and refinement that a passing run checks is
proved for all values of the constants: any number of clients, jails, addresses,
threads, pages and connections, any limits and bounds, every set of faults unless
the theorem says otherwise. One theorem has a hypothesis of its own:
`ServesWhatIsSaved` holds with one page that saves, and with two it does not. Two kinds of assumptions on the
constants are used, all named and next to the declaration. What the code has
checked before: requests are valid (`Claims`, `ClaimStore`), a network is not
empty (`NetworkIndex`), limits and retries are at least one, the helper takes as
many addresses as the store may hold (`PathAssumption`; both are 100 000) and a
report is a finite set. And what a model value must not be confused with: `None`,
`Idle`, `NoRow`, `NoHook` are not values of the sets they are added to.

### The receiver's store (`ClaimStoreProofs`)

| Theorem | Says |
|---|---|
| `StoreInvariant`, `StoreTypeCorrect` | the inductive invariant, and with it `StoreTypeOK` |
| `SequenceSpentOnceHolds` | no UNIQUE constraint of the history can fire |
| `KeysAreUniqueHolds` | one row per identity, also inside a transaction |
| `WithinLimitsHolds` | `WithinLimits` |
| `AcceptedIsCoveredHolds` | `AcceptedIsCovered` |
| `StoreImplementsLedger` | the store implements `ClaimLedger` |

`StoreTypeOK` alone is not inductive, and says nothing of a transaction half way.
`StoreIInv` adds `TransactionFollowsBatch`: the working claims are
`AfterFirst(claims, client, batch, done)`, the loop-free meaning of the events
processed; no event so far rebound an identity; the working history is the table
plus one row per processed event; and the batch is above the stored sequence and
unknown. The last two survive because nothing else writes while the transaction
is open. The key lemma is `AfterFirstStep`: one turn of the loop is one more event
of the meaning, for which the DELETE's extra test of the address is harmless only
because a differing address was refused just before. With it `CommitBatch` is
`ApplyBatch` of the ledger, and every other step of the loop a stutter.
`SequenceSpentOnce` needs that history rows never outrun `lastSeq`; it is proved
by one step per action with the lemmas `NewHistoryFacts` and `HistoryShrinks`.

### The whitelist and the address filters (`NetworkIndexProofs`)

| Theorem | Says |
|---|---|
| `IndexTypeCorrect` | `IndexTypeOK`, and with it that no more than `MaxEntries` networks are taken; no run repeats it |
| `IntervalsApartHolds` | the merged intervals are in order, and apart |
| `NoPartialWhitelistHolds` | no index of a part of a file |
| `ExemptsWhatIsListedHolds` | the search finds what the file covers, and nothing else |
| `OneAddressBlocksNoOtherHolds` | what the store takes the helper takes, and what it writes is what the file does not list |

None of these is inductive alone. `IndexInv` adds `RangesFit` (no range that
remains begins before the last interval does, which is what sorting buys),
`NothingLost` (the numbers in the remaining ranges and in the merged intervals
together are those of the networks read so far) and `StageFits` (what each stage
has finished). `RangeMerges` is one turn of the loop: the list stays apart, and it
gains the numbers of the range. `SearchIsMembership` is the search: in a list whose
intervals are apart, the one before the position is the only one that can hold the
number. `EnforceTakes` composes it with the three address filters.

### The sender's host (`SenderProofs`, `HostProofs`)

| Theorem | Says |
|---|---|
| `HostInvariant`, `HostTypeCorrect` | the inductive invariant, and with it `HostTypeOK` |
| `SenderKeysUniqueHolds` | the UNIQUE constraints of the sender's database never fire |
| `ClaimsFollowFail2BanHolds` | claims and Fail2Ban differ only where a hook is pending or a change was lost |
| `ReBanGetsFreshIdentityHolds` | a ban taken up again has a new id |
| `CalmSnapshotReconcilesHolds` | a calm snapshot repairs every difference |
| `KeepsWhatItFollowedHolds` | what remains true of the comment at `sender.py:649`: a snapshot releases no banned address whose changes all reached the sender, or will by a hook under way; no run repeats it |

`HostIInv` says what a snapshot command may still rely on between two of its
steps: as long as the sequence is the one it observed, the ids it chose are free
or those of the rows (`IdsStillGood`), and its enumeration is wrong at most for
keys of which a change was lost or a hook is pending (`EnumerationStillGood`).

### Delivery (`DeliveryProofs`)

| Theorem | Says |
|---|---|
| `DeliveryInvariant`, `DeliveryTypeCorrect` | the inductive invariant, and with it `DeliveryTypeOK` |
| `ReceiverHoldsAPrefixHolds` | the receiver's claims of a client are the client's at the receiver's sequence |
| `NothingIsDroppedHolds` | a row leaves the outbox only after it is applied |
| `NoConflictHolds` | no request of an honest worker is ever in conflict |
| `ReplicaImplementedHolds` | the delivery implements `Replica` |

The invariant has one part for each side and one for the network. `SourceIInv`:
every outbox row is the move from the client's state before its sequence to the
one after it (`Moves`), and an id once used belongs to one address for ever. A
request therefore stays what it was however late it arrives, and two requests
with one sequence are one (`MovesOnce`). `NetworkIInv`: a request under way or
left behind is at most one ahead of the receiver (`InOrder`), because
`next_due` offers nothing younger than the oldest undelivered row. `ReceiverIInv`:
what the store holds and what the open transaction will make of it are states of
`image`. `ReplicaImplemented` follows: the commit of a transaction or a snapshot is
`CatchUp`, an enqueue is `Publish`, and every other action a stutter.

### Enforcement (`EnforcementProofs`)

| Theorem | Says |
|---|---|
| `EnforcementInvariant`, `EnforcementTypeCorrect` | the inductive invariant, and with it `EnforcementTypeOK` |
| `WhitelistWinsHolds` | no whitelisted address is left or put back, with every fault |
| `LiveIsLastHolds` | at most one request has a client that waits, and it is the last; no run repeats it |
| `StatusIsTrueHolds` | a recorded success describes the tables, unless they were emptied since |
| `SuccessIsWholeHolds` | an enforcement succeeds with exactly what it read in both tables, unless they were emptied since |

All of them hold with every fault and from any persisted record. The exception of
the last two is `emptied`: a filter reload or a reboot after the helper last took
up a replacement. The helper serves its connections in order, so that when the
awaited answer comes everything given up before has been carried out. That is
`LiveIsLast`, and `Settled`: as long as the last record is a success, the backlog is
empty and the helper idle. Neither property is inductive without them.

### Admission (`AdmissionProofs`)

| Theorem | Says |
|---|---|
| `AdmissionInvariant`, `AdmissionTypeCorrect` | the inductive invariant, and with it `AdmissionTypeOK` |
| `SlotsBalanceHolds` | free slots and connections that hold one make up all, so none is given back twice |
| `ServedAsTheOneListedHolds` | a certificate speaks for the one client that lists it |
| `RateIsKeptHolds` | the rate is kept in real time, for any limit and window |
| `NoNeedlessRefusalHolds` | nobody below the rate is refused |

The rate is the part that is not obvious, because stamps may enter out of order
and `popleft` stops at the first one inside the window. `RateOf` says what the
limiter's list is, against all admissions: the stamps of the last ones, in the
order of admission; every one it dropped is a window old by now; and admissions
follow each other in time, none before its own stamp. Then with a full list the
oldest that is kept is the `Limit`-th last, and it is inside the window.

### Lifecycle (`LifecycleProofs`)

| Theorem | Says |
|---|---|
| `LifecycleInvariant`, `LifecycleTypeCorrect` | the inductive invariant, and with it `LifecycleTypeOK` |
| `NobodyWaitsForItselfHolds` | whoever is in a filter reload never asks for one |
| `ServesWhatIsSavedHolds` | with one page: once all is applied, a server that runs serves and enforces what is saved |

The first two rows hold for any number of pages that save at once, though the run has one. A
procedure is what is left to do, so the invariant speaks of positions in it.
`Inside`: of the process that holds the filter lock, every step before the one
that gives it up is among those the callback may do, and each of them that may fail
has the end of the attempt to disable the service still before it. Without the
second half the first is not inductive: a failure drops steps up to the next
`"disabled"`, and would drop the release of the lock. A stop may fail inside as
well, also the one after a failed attempt, whose end then begins the rest
(`InsideAfterFailure`). `ReadFits` is needed for types
alone: the steps that write what was read stand in front of all others, and what was
read is valid.

`ServesWhatIsSaved` is about the quiet states alone, with nothing `spoiled`, so `ServeIInv` says what holds in
between: whatever is out of date is so only while a step that is still to come puts
it right. Its parts are about the lists (`PageFits`, `FilterFits`), about a page
that has failed (`FailureFits`: it only stops the server, up to where it forgets the
failure), and about the state: `config.json` (`JsonFits`), what the server was
started with (`ServingFits`), the helper (`HelperFits`), what a callback has read
(`RefreshFits`) and the snapshot (`SnapshotFits`). The facts on lists are
few. `Follow` says which step may come after which; `Careful`, that a step that
leads to a server that runs has a reload ahead, and one that may fail a check.
The proof has one lemma per action of the page and of the filter
(`PageStep`, `FilterStep`). Three of them carry the argument. The callback that finds the
package disabled leaves the snapshot as it is: then `config.json` is disabled and no
server that serves is left running, or the page has the reload ahead
(`PageGenerates`, `FilterGenerates`). `service restart` with the flag at NO does
nothing: the flag is NO there only because the callback took it away, and it stops
the server (`PageRestarts`). The callback stops the helper beside a server the page
starts: the page came there by giving up the filter lock, so the callback began
later, and it disables `config.json` before it stops anything; the server that
starts finds it disabled (`HelperFits`). The invariant was
checked by TLC before it was proved.

### Only model-checked

* Liveness (`CatchesUp`, `ReleasesReachReceiver`, `Converges`,
  `EveryThreadIsAnswered`, `EveryProcedureEnds`, `SlotsComeBack`): it needs the
  fairness of actions, thus ENABLED, which the prover does not support.

## Not modelled, and why

* The pages and packaging: forms and sequential code around the system. Of
  `config.py`, the fields beside the client list: each is checked for its type and
  range alone. The limits are constants, so a limit lowered below what is stored is
  not covered; it makes the receiver refuse as a jail taken away does.
* SQLite's busy timeout, TLS and the framing of requests: they end as the failures
  and timeouts of `Delivery` and `Admission`.
* A sender whose database is reset: `README.md` rules it out.
* Two pages of the package that save at once. With two pages in `Lifecycle`,
  `ServesWhatIsSaved` fails (a page reads an enabled configuration, the other saves
  a disabled one and takes the runtime down, the first goes on and starts the
  server). Nothing in the repository says what is promised then.
* What becomes of a process that outlived its stop, if nothing stops it again: it
  may end later by itself, which no code waits for. Stale PID files. Installation
  and removal of the package.
* Columns that only inform: `last_error`, `last_success`, `effective_ip_count`.
* Expiry appears as addresses leaving `effective` at any time. SHA-256 collisions
  and byte sizes are outside the models.

## Plan

Done, in this order: `Claims`, `ClaimLedger`, `ClaimStore` and its proofs; then
`SenderStore`, `Fail2BanHost`; `Replica`, `Delivery`; `Enforcement`;
`Lifecycle`; `NetworkIndex`, its proofs and `AddressPath`; `Admission`; a variable
configuration in `Delivery`; the theorems about each of them.

Nothing of it is left. What would come next is in the list above: lowered limits,
and the repair of a stop that failed once the package has one.
