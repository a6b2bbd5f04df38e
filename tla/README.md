# Nymrel swarm protocol: a TLA+ verification project

The repository is a library through which several coding agents, each a process
of its own, coordinate over a shared directory: no server, only files and
directory-based locks. It exists twice, in Python
(`src/python/nymrel_swarm_protocol/`) and in TypeScript (`src/src/`), both working
on the same files with the same protocols. The modules here follow the Python code,
whose lines `PROJECT.json` maps; where the TypeScript code differs is said in section 5.

Paths are relative to the repository; `bus.py:602` is a line of the Python package.

## 1. The system

| Component | State it keeps | Operations | Talks to |
|---|---|---|---|
| `AtomicLockManager` (`fencing.py`) | `locks/<name>.lock/` with `lock.json` in it; a thread lock per name and process | `acquire_lock`, `release_lock`, `with_lock` | used by everything below |
| `FencingClock` (`fencing.py`) | `fencing/<resource>.json`: current generation, token, holder | `increment_generation`, `get_latest_token`, `validate_generation` | lock `fencing_<resource>` |
| `ClaimManager` (`claims.py`) | `claims/<id>.json`: owner, path, mode, status, generation, lease | `acquire_claim`, `heartbeat`, `release_claim`, `list_claims`, `reap_expired_leases` | lock `claims_mutex`, fencing clock, event log |
| Agent adapters (`adapters.py`) | `_active_claim_ids`, shared by the main and the heartbeat thread | `claim`, `release`, `release_all`, `send`, `receive`, `destroy` | claims, mailbox |
| `DeliveryLedger` (`delivery.py`) | `deliveries/<msg>/<recipient>.json`: a receipt with a hash-chained transition list | `create`, `transition`, `get`, `list` | one lock per receipt |
| `FileMailboxManager` (`bus.py`) | `mailboxes/<agent>/{inbox,outbox,archive}`, `broadcasts/` | `send_message`, `broadcast`, `receive_messages`, `acknowledge_message`, `register_agent` | ledger, lock `message_send_<id>`, event log |
| Event log (`bus.py`) | `events.jsonl` | `record_event`, `read_event_stream` | lock `events_log` |
| `TwoSeatProtocol` (`two_seat.py`) | `two-seat/<id>.json`: owner, controller, state, generation | `init_mission`, `request_handover`, `execute_unplanned_recovery`, `validate_action`, `close_mission` | lock `mission_<id>`, fencing clock, event log |
| `EnvelopeEngine` (`bus.py`) | none | `create`, `verify`, `serialize`, `deserialize` | used by the mailbox |
| Command line (`cli.py`) | none | one call of a component per command | all of the above |

What is hard about it:

* every operation is a sequence of file-system calls of independent processes and
  threads, and any of them may be delayed or killed between two calls;
* locks are evicted by age, and holders nest them (`claims_mutex`, then
  `fencing_*`, then `events_log`), each wait up to 5 s against an eviction age of
  10 s;
* receivers take no lock of the sender's: both move one receipt and one inbox
  file from views that may be out of date;
* claims live on leases that lapse by themselves, on heartbeats that may be late,
  and on a set of ids that two threads change;
* most files are rewritten in place, so that a kill leaves half a file, and what
  a half file means differs from component to component;
* sends are repeated by their callers after errors and kills, and must find out
  how far the last attempt got.

What makes each part correct is stated as properties in its module and listed in
section 3. The hazards behind them, each at its line, are the "hazards" of
`PROJECT.json`.

## 2. Modules

| Module | Models | Composes / refines |
|---|---|---|
| `AtomicLock` | the lock, one name | |
| `LeaseTable` | what the claim store promises (abstract) | |
| `Claims` | `ClaimManager` with the fencing counter | implements `LeaseTable` |
| `Adapters` | adapters and command line calling the claim manager | `Claims`, and implements it |
| `DeliveryLedger` | what a delivery receipt promises (abstract) | |
| `DeliveryTrail` | the ledger with its transition lists and times | extends `DeliveryLedger` |
| `Mailbox` | sending, receiving, acknowledging | uses the state graph of `DeliveryLedger` |
| `EventLog` | `events.jsonl` and its reader | |
| `TwoSeat` | one mission with its fencing clock | |

`MC*` modules give the constants of a run their values; `*Proofs` modules hold the
theorems of section 4. Definitions whose comment begins with "mutated form" are
deliberate mistakes that no specification uses; each shows that a property would
notice that mistake.

### AtomicLock

One lock name, one action per file-system call. `tlock` is the `threading.Lock` each
process keeps for the name, `dir` the lock directory and who made it, `meta` the state
of `lock.json` (absent, opened but empty, complete), `writers` the open descriptors
that still refer to it, `age` what an inspector would compute from `acquired_at` or
from the directory's mtime. `pc` is the point each thread is at:

| `pc` | code |
|---|---|
| `thread` | waiting for the thread lock, fencing.py:81-85 |
| `mkdir`, `create`, `fill` | `os.mkdir`, and the open and the write of `lock.json`, fencing.py:94-109 |
| `inspect`, `judge`, `evict`, `evictdir` | the `FileExistsError` branch: read the age, compare it, and the two halves (files, directory) of `_force_remove`, fencing.py:110-125 |
| `backoff` | raise after `timeout_ms` or sleep, fencing.py:127-132 |
| `critical`, `release`, `releasedir` | the function given to `with_lock`, and `release_lock`, fencing.py:137-173 |

Reading an age and comparing it are two steps, as are the comparison and the removal. An
empty `lock.json` sends the inspector to `backoff`, because the parse error is swallowed
together with every other error. A kill takes all threads of a process and its thread lock.
`AcquireRaises` is any other error of `mkdir` or of the open, the write and the close of
`lock.json` while the process lives: the thread lock is given back and the error raised, and
the directory stays behind as it is. `Tick` ages the lock, the ages in inspectors' hands and
the waits. `overdue` is a history variable saying whether any age has ever crossed the
threshold, and whether of a lock nobody was at work on ("orphan") or of a holder still
running ("live").

### Claims, LeaseTable, Adapters

`claims` and `clock` are the claim and fencing files and `ops` the operations in
progress. A *slot* is one execution of `with_lock("claims_mutex", _op)`. With one
slot the mutex works, which is what AtomicLock's `MutexUntilStale` gives until the
lock has outlived its threshold. Each operation is a chain of stages (`check`,
`refresh`, `fence`, `read`, `scan`, `write`, `event`) with time, kills and failures
between them. Paths are model values with a relation `Inside` for "is an ancestor
directory of" and a function `FileOf` for the fencing file of a path, which two paths
share when they differ only in characters `_get_fencing_path` replaces. Leases count down
to -1. With `TornWrites` a kill in the middle of a write leaves an unreadable claim
or fencing file, and the latter reads back as generation 0 (fencing.py:205-206);
`restarted` is the history of the files that have lost a count above 0 that way. The
fencing increment is one step: it runs under its own lock and nobody else writes the
file.

`LeaseTable` says the same without files, stages, calls or kills: a lease is granted
once, in one step, when no live lease is in its way, with a generation above all
earlier ones of its counter; it lapses, is renewed, perhaps late, or is released for good;
its terms never change. `Claims!LeasesAreAtomic` is the refinement, with the terms and the
state of a lease read off the claim file (`LeaseTerms`, `LeaseState`).

`Adapters` puts `BaseAgentAdapter` on top: `held` is `_active_claim_ids`; the main thread
calls the claim manager and then, as a step of its own, changes the set (`todo`, `Track`,
`Untrack`); the heartbeat thread works through a copy of it (`round`, `BeginRound`, `Beat`)
and discards the claims whose heartbeat raises. Agents without an adapter are the command
line, which tracks nothing. A raising `record_event` leaves the record written and the
claim untracked. An agent name belongs either to an adapter or to the command line, not to
both at once.

### DeliveryLedger, DeliveryTrail

`DeliveryLedger` is the abstract specification of a receipt: created once, moved
along `ALLOWED_TRANSITIONS`. `DeliveryTrail` adds the transition list that the
receipt retains, the time of each entry, which any caller's clock may have stamped, and
`_receipt_from_value`, which every read and write runs over it (`AssertReceipt`). A
transition goes through two gates: `Checked` is what `transition()` tests, `Writable` the
re-validation of the finished receipt in `_write_receipt`. Hashes and the checks of single
fields only decide whether a call is accepted.

### Mailbox

`send_message`, `receive_messages` and `acknowledge_message` over `receipt`, `outbox`,
`inbox` and `archive`. `send[m]` is the one send of message `m` that is in progress (the
lock `message_send_<id>` is taken to hold), `recv[a]` the receive of agent `a`; each action
is one file operation or one locked ledger call. Both keep the receipt state they read
(`view`), so that transitions are attempted from states that are gone by then; the ledger
refuses or accepts by its current state (`Grants`, including the rule that a same-state
retry by another actor raises). Every refusal leads where the code's `except` leads: to
`_mark_delivery_failure` for one recipient, for all of them, or out of the call. A test for
a file and its use are two steps: writing an inbox copy that is there opens it afterwards
(`Compare`), the verification of a replay chooses a path (`Verify`), looks at it again
(`Present`) and, for the inbox, writes or opens the file (`Recheck`, `Reread`), while the
recipient may be moving it to the archive. `Fault` makes any file operation or ledger call
of a send or receive in progress fail, reads of receipts (`AcceptNext`, `RouteNext`,
`MarkNext`, `Open`) included, `CrashSend` and `CrashRecv` kill a process, and `Operator` is
anybody else recording a state through the public ledger. `Legacy` messages have been in an
inbox since before there were receipts. `handed`, `confirmed` and `intended` are history:
what the calls returned, and the recipients resolved by the send that left the first
receipt.

`Ledger == INSTANCE DeliveryLedger` over the mailbox's own `receipt` gives the states and
the graph. That every step obeys the graph is the ledger's doing and no property here: what
is checked is what the states say of the files and of what the calls returned.

### EventLog

The file as lines. A record is two pieces of JSON, cut anywhere, and the newline, which
reach the file one after the other under the lock `events_log`; `CutShort` leaves it at any
point before the newline, and the next record continues the unfinished line. After the newline the
record is whole and counts as recorded; the close, the release of the lock and the return
are a step of their own (`Return`), which stands for a kill there too, since the file is the
same. `Stream` is `read_event_stream`, which
skips what does not parse and may be called at any moment.

### TwoSeat

One mission. `mission` and `fencing` are its record and the file of its fencing
clock, `op` the operation inside the lock `mission_<id>`. Each of `init_mission`,
`request_handover`, `execute_unplanned_recovery` and `close_mission` is `Call`, then
`Check` (read the record, refuse or go on), `Increment` and `Stamp` (the two halves of
the fencing clock's write), `Open` and `Write` (the two halves of the record's) and
`Event`, after which the caller has the result or an error; `close_mission` skips the
clock. Between the halves, and for ever after a kill there, the file is `Torn`:
`get_mission` takes it for missing and `increment_generation` for generation 0.
`Allowed` is `validate_action`, `ClockAccepts` is `validate_generation`; both read without
the lock. `writing[a]` is the generation under which seat `a` was allowed to write and
has not finished yet, so a verdict may be out of date when it is used. A seat id in a
call is its caller: the code authenticates nobody. `restarted` is a history variable
saying that a generation was drawn from an unreadable file.

## 3. What the runs check

| Run | Bounds | What it shows |
|---|---|---|
| lock | 3 threads in 2 processes, threshold 2, timeout 1, 1 kill or failing acquisition anywhere | `MutexUntilStale`: the lock excludes while no lock has outlived its threshold. `HolderOwnsLock`: until then a holder's directory is its own and complete. `ThreadLockReturned`: the thread lock is held exactly while a call is past it. `AcquireResolves`: every acquire returns or raises. `OrphanEvictedUnlessTorn`: a lock left by a kill is removed by those who ask for it, unless its `lock.json` was cut short. |
| claims_safety | 2 agents, a directory, a file in it and a path sharing the file's fencing counter, 2 claims, 1 slot, 2 generations per counter, whole writes | `ExclusionUnlessRevived`; `ExclusiveHoldsTop`: a live exclusive claim's generation is the newest of its path, unless another path shares the counter or the counter was lost to a cut write; `GenerationsUnique`: no generation of a counter is on two claims until the counter is lost that way; `ClaimHistory`: what a step may do to a claim, including that none is marked expired while it is live; `LeasesAreAtomic`: the refinement of `LeaseTable`. |
| adapters_lapse | an adapter and a command-line agent, 1 path, 2 claims, 1 slot, 1 generation, torn writes, fairness | `UnattendedClaimLapses`: a live claim nobody keeps alive lapses, after a kill, after `destroy` and after a call that raised with its record written. `ReleasedIsDropped`: a released claim does not stay tracked, whichever thread loses the race. `GenerationsUnique`, with files torn: the one generation is issued again only when its counter was lost to a cut write. `ATypeOK`: only one's own claims are ever tracked. |
| delivery_trail | 1 receipt, 8 transitions, 3 times | `CheckedIsWritable`: no transition that `transition()` lets through is refused by the re-validation before it is written, whatever the callers' clocks say; `ProvenDeliveryKept`, `VerifiedHasEvidence`. |
| mailbox_direct | 2 messages in one inbox (one sent, one older than receipts), no `auto_acknowledge` (explicit acknowledgements happen), somebody else recording `acted`, `verified`, `deferred`, `expired`, `dead_lettered` or `revoked` (never `accepted`, `routed`, `delivered`, `observed`), 2 faults or deferrals, fairness | `ProvenHasCopy`, `ConfirmedIsDelivered`; `HandedIsObserved`: nothing is handed over whose observation is not on record; `RejectedNeverReached`: a rejected receipt never has a copy behind it; `EverythingSettles`: repeated sends and polling settle every receipt; `PolledIsHanded`: whatever is in the inbox is handed over, although one message that raises loses the batch for all, unless a terminal receipt blocks the inbox. |
| mailbox_broadcast | 1 broadcast, 3 agents that register at any time, `auto_acknowledge`, withdrawal, 1 fault | `ConfirmedIsDelivered`, `RecipientsFrozen`. |
| event_log | 5 events, 2 cut short, a window of 2 lines | `LossIsBounded`: a line cut short costs one recorded event at most; `ShownStaysShown`: nothing recorded and readable is ever spoilt; `WindowIsNearlyFull`: what a reader of the last lines may miss. |
| two_seat | 1 mission, 3 seats, 3 tokens | `SeatsDistinct`; `OneWriterPerGeneration`: two seats may be writing at once, never under one generation; `ChecksNameOneSeat`: clock and record may disagree after a kill, but never name two seats; `ReturnedIsKept`; `ClosedForGood`; `RecoveryIsLast`; `CutShortIsLost`. |

Every module's type invariant is checked along; `TypeOK` of Claims also bounds leases,
that of AtomicLock ties `lock.json` to its directory.

Where the code and what is said about it disagree, a run exhibits it:

| Run | Statement | What happens |
|---|---|---|
| lock_eviction_race | lock.ts:80: "Ignore race in stale lock removal" | the second evictor removes the first one's new lock; two processes are inside |
| claims_revival | README: exclusive write, auto-expiring leases | a late heartbeat revives a lapsed claim beside the one granted since |
| mailbox_replay | delivery doc: "replaying the exact same direct message is idempotent" | a replay that races the acknowledgement puts a second copy into the inbox |
| mailbox_broadcast_crash | delivery doc: "freezes its original recipient set on first send" | a kill between two receipt creations shrinks the set |

Read off the code, and visible in the models' actions, but without a run of
their own:

* a kill between the open and the write of `lock.json` (fencing.py:100-101) leaves a lock
  that is never evicted: the empty file does not parse, the error is swallowed at
  fencing.py:124, and every later `acquire_lock` times out. `OrphanEvictedUnlessTorn`
  is stated around it, where the README promises "automatic stale-lock eviction";
* the pid in `lock.json` is written and never looked at, although the README speaks of
  "PID validation": a live holder is evicted by age (`Judge`; the case `overdue = "live"`);
* an interrupted write of a fencing file makes its generations restart at 1
  (fencing.py:205-206 and 228; `Crash` with `TornWrites` in Claims, `restarted` in
  TwoSeat), and `validate_action` compares nothing but the generation, so an old token
  passes again;
* recovery does not depend on the owner's lease: `health_state` is written and never
  read, and `RecoveryGranted` asks for the controller's id alone (two_seat.py:250),
  where the README says "ONLY upon owner lease loss";
* a recovery leaves the controller's seat to nobody for good (`RecoveryIsLast`), so a
  second failure cannot be recovered from; a mission record cut short can neither be used
  nor be initialised again (`CutShortIsLost`);
* asking for exclusive access over one's own shared claim returns normally, with
  the shared record, beside other agents' shared claims (claims.py:100-109;
  `Check`, `Refresh`);
* `release` tests membership and removes in two steps (adapters.py:97-98); if the heartbeat
  thread discards the claim in between, the `KeyError` ends `release_all` with the remaining
  claims unreleased. They are still tracked (`Untrack` changes nothing else).

### Why the bounds are enough

* lock: two threads of one process and one of another contain both kinds of
  competition; safety is proved for any number. The eviction race needs three
  processes, which its run has. A timeout below the threshold is the order of the real
  values (5 s and 10 s). Ages saturate one past the threshold and waits at the timeout
  because nothing compares them with more. Kills find a thread anywhere in the run lock;
  the eviction race needs only one that finds a holder.
* claims: conflicts are between two claims; two agents, two claims, a directory,
  a file in it and a path that shares a counter contain every pair of related paths
  and modes. A third grant repeats the situation of the second. A lease of one tick has
  every relation to the clock a longer one has: running, at its last moment, over. In
  adapters_lapse one path suffices, since liveness of one claim is not about others', and
  one adapter, since adapters share nothing but the claim files; its two claims and torn
  fencing file let the adapter hold, lose and reclaim. With one generation the second grant
  there needs a lost counter; several generations are in claims_safety, which has whole writes,
  and in the theorem, which has both. A second slot means that claims_mutex was evicted; the
  runs have one, and what holds with more is proved (section 4).
* Three seats let a handover go to the controller or past it; three tokens let a
  seat lose a mission and get it back, which is what an old token must survive. The
  safety properties are proved for any number.
* The state graph's longest path without repeating the `delivery_unknown` cycle
  has seven transitions; eight leave room for a detour. The proofs have no bound.
* mailbox_direct has one sent message, whose sender and receiver race for its receipt,
  and a second in the same inbox, which is what a lost batch and a blocked inbox need. Two
  faults allow a failure and a failure of its reconciliation. Broadcast recipients are
  handled one by one, so two show a mixed outcome. Safety is proved without bounds.
* event_log: a window of two and five events let a torn line be inside the window,
  on its edge and before it, once and twice in a row.

### Fairness

All fairness is weak. `BusySpec` of AtomicLock: a call that was started keeps running
while its process lives, time passes, killed processes are restarted and all keep asking
for the lock. Eviction happens only inside other callers' `acquire_lock`, so nothing
weaker can promise it. `FairASpec` of Adapters: time passes, operations inside the mutex
proceed, the heartbeat thread runs, and the main thread gets from the claim manager's
return to its set; no call, `destroy` or kill is obliged to happen. `FairSpec` of Mailbox
assumes that calls in progress proceed, that a sender repeats a send until it has returned
and that a recipient keeps polling (an operator's `deferred` counts against the bound on
faults, or deferring for ever would be fair): the library has no retry worker of its own
(the delivery doc lists automatic retries as a non-goal), so what `EverythingSettles` and
`PolledIsHanded` say is that its callers' retries suffice. Nothing is assumed of kills,
registrations, acknowledgements or operator moves.

`CHECK_DEADLOCK FALSE` is used where the system stops: a terminal receipt has no
successor (delivery_trail), and a log is complete once all its events are done (event_log).

## 4. What is proved

The proofs hold for all values of the constants, under the named assumptions in
the modules and those said here.

* **AtomicLockProofs.** `TypeCorrect`; `MutualExclusion` (`MutexUntilStale`);
  `HoldersOwnTheirLock`; `ThreadLockIsReturned`. Exclusion is not inductive: that a
  holder's directory is its own depends on nobody evicting, which depends on the ages
  read. `IInv` adds `Calm` (no age beyond the threshold on disk or in an inspector's
  hands, nobody evicting, and for every point between `mkdir` and `rmdir` what the
  directory holds then), as long as `overdue = "no"`. The thread lock's invariant
  needs no such condition and holds across evictions.
* **ClaimsProofs.** `ClaimsTypeCorrect` for any number of slots. `ClaimExclusion`
  (`ExclusionUnlessRevived`) for any number of slots of which one is in use at a time
  (`[]Serialized`, what claims_mutex is for; the last bullet on claims discharges it): the
  invariant `Arbitrated` adds what an acquire still knows after its check, that the record
  it is going to write conflicts with no live claim; it survives because nobody else is in the
  mutex and time only removes live claims. It does not depend on writes being atomic.
  `ClaimGenerations` (`GenerationsUnique`) needs neither: operations may overlap and writes
  be cut short. `Numbered` says that, until a file has lost its count (`restarted`), every
  generation of it on a record or in an operation's hands is at most the file's, and no two are
  the same.
* **LeaseTableProofs.** All under `[]Serialized`. `ClaimsFaithful` is the invariant about
  operations in progress: a record in an operation's hands agrees with the file it came from
  until it is written, and an acquire past its check is in no live claim's way.
  `ClaimsKeepHistory` (`ClaimHistory`) follows step by step, and `ExclusiveClaimIsNewest`
  (`ExclusiveHoldsTop`) with the files that have lost their count set aside; both with torn
  writes. `ClaimsImplementLeaseTable` (`LeasesAreAtomic`) alone needs whole writes besides:
  a lease does not vanish and its numbers do not restart, and torn files do both. The
  refinement maps the write of a record to a grant, a renewal or a release, the clock to a
  lapse, and every other step to a stutter.
* **AdaptersProofs.** `AdaptersImplementClaims`: with adapters and command line the claim
  files only ever do what `Claims` allows, so exclusion and generations carry over
  (`AdaptersKeepExclusion`; `AdaptersKeepGenerations`, torn writes included).
  `AdaptersTrackTheirOwn` (`ATypeOK`) needs that an operation in progress for an adapter
  works on a claim of that adapter's (`Signed`), that whatever is about to be tracked is on
  disk in its name or cut short there (`Tracks`), and that no step changes a claim's owner.
* **AdaptersProofs, "Under the lock".** Here the claim manager, with and without adapters,
  runs beside an instance of `AtomicLock` whose threads are the slots. `RunsInside` is how
  claims.py calls it: an operation is in progress only between `acquire_lock`'s return and
  `release_lock`, and a kill takes both. `ExclusionUnderLock` and `AdaptersUnderLock` say that
  exclusion, the invariants above and `ATypeOK` then hold until a lock of claims_mutex first
  outlives the stale threshold, whatever happens later. `[]Serialized` cannot be assumed in
  that form, since it ends with the first eviction: the induction carries the invariants as
  long as `overdue = "no"`, which no step restores once it is lost (`OverdueSticks`). What is
  assumed of the lock (`LockPromise`) is its specification and `[]MutexUntilStale`, which is
  `AtomicLockProofs`' `MutualExclusion` and cannot be cited through INSTANCE.
* **DeliveryTrailProofs.** `ChecksSuffice` (`CheckedIsWritable`), `ProvenStaysProven` and
  `VerifiedIsBacked` for lists of any length, from `TrailInv`, which adds the type
  of the lists, that every receipt written so far can be read (`ChainIntact`), and the
  evidence each state rests on.
* **MailboxProofs.** `MailboxTypeCorrect`, `ProvenDeliveriesHaveCopies`,
  `ConfirmedMeansDelivered`, `RecipientsAreFrozen`, `HandedMeansObserved` and
  `RejectedMeansNotReached`, for any number of messages, agents and faults, assuming that
  nobody but the mailbox records a delivery or an observation (`OnlyMailboxDelivers`; with
  an operator who does, `ProvenHasCopy` says nothing of the mailbox), and for the last one
  that nobody else rejects (`NobodyElseRejects`). `Shape` ties each program point to what
  the call has in hand, `Copies` says that a copy exists before the receipt says so, at
  every point of sender and receiver, `Recipients` that a send in progress works on the
  recipients of the first, `Handing` that what a receive has taken or is about to take is on
  record as observed, and `Rejections` that a receipt that is only created, rejected or
  about to be rejected has no copy, and that a send at work on a copy has a receipt beyond
  these.
* **TwoSeatProofs.** All eight properties. `ShapeInv` says what an operation
  still knows of the record it has read (nobody else writes it under the lock) and
  gives `TypeOK` and `SeatsDistinct`. `FencedInv` adds that every record's owner is the
  seat its token was issued to, that every writer was issued its generation, and
  `Numbered`: until a restart no generation is issued twice, and the one being drawn is
  above all others; with that `OneWriterPerGeneration` and `ChecksNameOneSeat` are
  immediate. `ResultInv` adds the token an operation is about to return, for
  `ReturnedIsKept`. `ClosedForGood`, `RecoveryIsLast` and `CutShortIsLost` each follow from a
  condition that stays true while the record is rewritten or torn. The assumptions are that
  the mission lock excludes (one `op`) and that no two tokens have the same `issued_at`.

* **EventLogProofs.** `LossesAreBounded`, `ShownEventsStay` and `WindowsAreNearlyFull`, for
  any number of events, of lines cut short and of lines asked for. The invariant `LogInv`
  (`LogInvariant`) says that record_event has one outcome (`OneOutcome`), that finished lines
  and recorded events correspond one to one in the same order (`InOrder`), that a line holds
  its own record alone or begins with an event that was cut short (`GluedToTorn`), and that no
  event begins two lines (`OpenersDiffer`). Counting is then an injection, from the recorded
  events that cannot be read to the cut-short events before them, and needs no
  induction over the log.

Only model-checked: liveness and whatever needs ENABLED, which are outside the
prover's reach (`AcquireResolves`, `OrphanEvictedUnlessTorn`, `UnattendedClaimLapses`,
`ReleasedIsDropped`, `EverythingSettles`, `PolledIsHanded`), and the four refuted statements.
Every other property of a passing run is proved.

## 5. What is not modelled

* Two executions inside `claims_mutex` or `mission_<id>` after the lock was evicted under
  its holder. Claims admits more slots, and its type and generation theorems hold for them,
  but neither component has a second line of defence: exclusion is lost with the mutex, and
  AtomicLock says exactly when that is. `claims_mutex` is composed with AtomicLock by theorem
  (`ExclusionUnderLock`), and in the runs by having one slot; the other locks by hand,
  through the one send per message, the one `op`, and the fencing increment and the append
  to the log that nobody interrupts but a kill.
* `EnvelopeEngine`: one checksum over one value. A message id stands for one envelope, so
  the refusals of a *different* envelope under the same id (`EnvelopeConflictError`) do not
  occur; they raise before a receipt is changed.
* `normalize_resource_path` and the character replacement itself: paths are abstract, with
  `FileOf` for its effect. The length and character checks of the ledger's fields.
* Errors other than kills in the write of a claim or mission record (a full disk): they
  leave the file as a kill does, with the caller told.
* The `limit` of `receive_messages`: a poll with a limit is a poll of a smaller inbox, taken in
  directory order, which nothing fixes.
* An adapter and the command line acting for one agent name at once: the command line's
  release would be found out by the adapter's next heartbeat, as a reaped or revoked claim is.
* Argument parsing and printing of `cli.py`; its `status` command only reads.
* Where the TypeScript code differs: it has no thread lock (a process with one
  asynchronous call at a time is a process with one thread in AtomicLock); its heartbeat is
  an interval timer, so two rounds may overlap when one takes longer than the interval, and
  `release` deletes from its set without a test. Everything else named above has the same steps.
* Types, re-exports, build output, release scripts, tests.
