# Verification of the dice game server

TLA+ models of the server in `internal/`, the TLC runs that check them on small
instances, and theorems that TLAPS checks for every instance. Paths below are
relative to the repository.

The server runs tables ("rooms") of up to six players who bet on the parity of
two dice. A room plays up to ten rounds; a round is a betting window that a
per-room goroutine closes and settles. Money is in PostgreSQL, the
who-sits-where shortcuts are in Redis, players are on WebSockets.

## 1. Inventory

| Part | State | Operations | Hard because |
|---|---|---|---|
| Room engine (`application/game/engine.go`) | loops by room, timer, `live` | dispatch of start, bet, close; alarm; quit; fall-through to direct execution; shutdown | callers give up while the loop works; loops come and go under requests; a failed settlement turns into an abort |
| Round use cases (`start_round`, `place_bet`, `settle_round`, `close_room`, `abort_room`, `recover`) | rooms, rounds, bets, balances, ledger | one transaction each, then Redis writes | commit without acknowledgement, crash between commit and Redis, restart |
| Aggregates (`domain/game`) | room status, live round, bets | guards of the above | `Settle` trusts the timer; the status machine has four ways to end |
| Dice and payout (`dice.go`, `payout.go`) | none | parity, `Payout` | int64 wrap-around, truncation |
| Seats (`create_room`, `join_room`, Redis binding and seat mutex) | `room_players`, `active_player:{id}`, join lock | claim, lock, check, commit, undo | two stores, TTLs, READ COMMITTED |
| Wallet (`application/wallet`, `player_repository`) | balance, ledger, row locks | deposit, withdraw, debit, credit | absolute writes after a read; several rows per settlement |
| Hub, clients, sessions (`interfaces/ws`) | registry, room index, bounded queues, room pointer | register, replace, unregister, join, push, detach | goroutines per socket and per room, slow and replaced sockets |
| Room cache and listing (`room_state_store`, `list_rooms`) | open-rooms hash | save, remove, list, warm up | late writes |
| Bootstrap, process | - | recover, serve, shut down | crash anywhere |
| REST stack, authentication, audit trail (`interfaces/rest`, `application/auth`, `domain/audit`, `interfaces/ws/audit.go`) | accounts, tokens out there, `audit_logs` | register, login, authenticate, operate, audit | a panic, a timeout or a disconnect in the middle of a call; an answer that says less than what happened |
| Config, migrations, generated SQL | - | - | section 8 |

The parts meet in three ways. Sockets and REST handlers call the engine, which
sends a command to the room's loop or, when there is none, runs the use case in
the caller's goroutine. Use cases share PostgreSQL rows (room row, player rows)
and Redis keys. The loop calls back into the hub, which pushes frames to
sockets while their sessions push frames of their own.

`PROJECT.json` lists the hazards found, each at its line with the properties
that would catch it going wrong.

## 2. Modules

| Module | Models | Notes |
|---|---|---|
| `DiceRules` | `domain/game` dice, bet and payout rules | pure operators; `MaxMoney` is `math.MaxInt64` |
| `DiceAudit` | a stake against all 36 rolls | reference for the return to player, for every stake a wallet of `RoomEngine` covers |
| `StakeBook` | nothing: the abstract promise about money | books opened in turn, one stake per player, closed once; a late stake stays out |
| `RoomEngine`, `MCRoomEngine` | engine, loop, use cases, process, restart | the core |
| `Wallet` | every money transaction, statement by statement | row locks of players and rooms, absolute writes |
| `Seating`, `MCSeating` | create and join | Redis claim, mutex, row lock |
| `RoomCache`, `MCRoomCache` | `GET /rooms` over the open-rooms hash | cache writes trail their commits |
| `Hub` | registry, pumps, sessions, notifications | frames as (type, room, round) |
| `Api` | middleware chain, handshake, registration and login, audit trail | a call is a request or a socket |
| `DiceProofs`, `RoomEngineProofs`, `RoomSafetyProofs`, `WalletProofs`, `RoomCacheProofs`, `SeatingProofs`, `HubProofs`, `ApiProofs` | theorems | section 6 |

### RoomEngine

Variables are grouped as in the code: the database (`status`, `seats`,
`currentRound`, `round`, `bets`, `balance`, `ledger`), the clock (`window`: ticks
to the latest round's `BettingClosesAt`), the process (`proc`, `loop`, `timer`,
`live`, `cmd`, `call`). `loop` is `none`, `idle` (in `select`), `bet` (between the
reads and the commit of a bet) or `abort` (settlement failed, abort to come).
`timer` is what is left of the loop's timer, `NoTimer` if it has none. Three
variables are history for the properties: `late`, the bets that were committed
when their book was already closed; `failed`, which transactions failed and how;
`boots`.

* Start, settle, close and abort begin with `SELECT ... FOR UPDATE` on the room
  row and so exclude each other: one action each. `PlaceBet` does not lock the
  room: a read step and a commit step, in the loop
  (`LoopBetRead`/`LoopBetCommit`) as well as past it
  (`DirectBetRead`/`DirectBetCommit`). The commit looks at neither the room nor
  the round again.
* Time. A window is `WindowTicks` long, from the time read in the start's
  transaction. `arm` runs any number of ticks later and computes the delay from
  what is left (`Delay`); the alarm is ready when the timer is at 0 and may be
  taken any time after that. Nothing ties the settlement to the window: that it
  comes after is `SettleOnlyAfterWindow`.
* A transaction ends `ok`, `rollback` or `lost` (committed, but the caller sees an
  error). `FaultKinds` and `MaxFaults` say which, and how many different
  <<transaction, ending>> pairs, an instance allows; each of them may strike any
  number of times. A payout that wrapped below zero fails the settlement as well
  (`PayoutsStorable`, the `CHECK` of the bets table).
* `LongWindow` says the window is at least as long as the 15 s context of a bet,
  as with the default `BETTING_WINDOW`; `PeerBoot` lets a second process run its
  recovery.
* The Redis writes after a commit do not come back to this module: the release of
  the members (`finalizeRoomCache`) is in `Seating`, the open-rooms hash in
  `RoomCache`, each as steps of their own.
* `Request` over-approximates the session's room pointer by "is seated". `Join`
  is the whole join up to its commit; `Seating` takes it apart.
* An abort refunds the open stakes of every betting round; `RefundTotal` names
  the single one there can be, which is what `OneLiveRound` proves.
* Balances are unbounded integers; only `Payout` wraps.
* `SumTo`, by which `LedgerReconciles` adds a player's entries up, is a recursive
  function, so that the theorems can use it (section 6).

### Wallet

A transaction locks the rows it needs one at a time, remembers the balance it
read and writes absolute values at its commit. `seat` goes through the join's and
the close's two-store steps (`bound`, `seated`, `left`, `out`) and `table` is the
room they are about. A payout takes the row of its room first (`roomLock`), and
the steps of a seat that are commits on the room row wait for it. The insert of a
seat waits for the player row because of its foreign key. That two payouts share
no player is not a guard: it is `PayoutsShareNoPlayer`. What the model does
assume is one room per player (`table`), which `Seating` is about; section 5
shows what that rests on. Lock upgrades through foreign keys between two bets of
one player are not modelled.

### Seating

A call goes through `lock`, `bind`, `where`, `check`, `commit`, `undo`. The look
for another active room and the commit are separate steps. A join of a room that
never existed, which only refuses, is left out. The end of a room is a commit,
then one release per member (`Release`), in any order with everything else.

Faults: a rolled-back transaction; a crash, of a call (`Crash`) or of whoever
ended a room, between its commit and the last release (`CloserDies`); a Redis
command that fails, with or without having been applied (`redis`: the claims of
create and join, the look at the binding, the mutex, and the three places where
the error of `ReleasePlayer` is swallowed); a lost binding; a mutex that expires
under its holder. Each may strike any number of times; `faults` is the set of
kinds that did, so that a property can say which it survives, and `MaxFaults`
bounds how many kinds one behaviour meets. The mutex of a call that crashed, or
whose release failed, holds the token `Gone`, which nobody gives back: it expires
by itself, and that is no further fault. A commit without acknowledgement is not
among the faults here; `RoomEngine` and `Api` have it.

### RoomCache

An operation on a room is a commit, which fixes the summary it will save, and a
later write to the hash; the writes of two operations may land in either order.
`TouchRoom` stands for every operation that leaves an open room open (join,
start, a settlement that is not the last), `EndRoom` for those that do not. A
listing asks Redis, on a miss or an error reads PostgreSQL, and then saves its
page room by room. `Narrow` is the conversion of `limit` and `offset` to `int32`:
`HalfRange` is 2^31 there, and values from `-HalfRange` to `HalfRange - 1` are what
it yields. `Kept` picks the cached, or the open, rooms out of the rows in their
order. Failures: a cache write that is lost, an error from Redis
or PostgreSQL, Redis losing its data. Left out: the player counts in a summary, and the per-room
key, whose only reader (`GetRoom`) has no caller.

### Hub

Each socket has a queue of `SendBuffer` frames, a write pump and a session that
handles one message at a time; each room's loop hands its notification out one
player at a time. `Enqueue` follows Go's `select`: with several cases ready it
may take any. Looking up a player's socket and queueing the frame is one step.
The snapshot's two reads are one step, which can fail after the socket was
attached (`ReadFails`: an error frame and no snapshot). A member still bound to a
room that has ended is attached to it again (`JoinRoom`), and its snapshot says
`closed` (the frame `over`). What the use cases do is reduced to what frames show;
a room is made over REST (`CreateRoom`), without a socket; a socket whose
handshake fails never gets a session (`Refuse`). `RoomClosed` stands for a close
without a live round and for an abort. A write can fail at any time, also while a
closed socket is drained. `got` (the frames about rooms that were written) and
`sock[s].joined` record history for the properties only. `Watched` says for which
sockets; of the others only the number of queued frames is kept, and what a dead
socket holds is forgotten (`Kept`, `Abandoned`). A bet's reply stands as an error
frame: neither tells anything of the life of the room.

### Api

A call is a REST request or a socket, which handles one event after another. A
request goes through `body` (`AuditMiddleware` reads it, with no deadline),
`auth` (not on the open routes), `busy` (its handler) and `audit` (the deferred
function of `AuditMiddleware`); a socket through its handshake and then `idle`,
`busy`, `audit` for each message. What an operation does is in the other modules.
Here it ends `ok`, `refused` (a check said no), `failed` (before its commit),
`unacked` (committed, and the caller is told it failed) or `left` (the caller's
context ended while a room loop had the command, which the loop finishes later:
`LateCommand`). `over` says that the context of the call has ended. `done` is the
set of what really took effect, for the two sentences of section 5.

Registration is one insert decided by the unique index on `lower(email)`;
`Emails` are pairs of a name and a spelling, and `NormalizeEmail` forgets the
spelling. A token stands for its player, and may have expired whenever it is
looked at. `Settled` are players with an account and a token from the start, so
that a run need not spend its calls on getting one. A panic of a request leaves
the status unwritten, as the deferred function sees it; that of a socket event
passes `writeAudit` and ends the connection. A failed upgrade leaves no entry
either.

An audit write can fail (`unwritten`): `audit_logs.actor_id` references
`players`, so the insert waits for a player row that a transaction has locked,
and gives up after 5 s.

## 3. Properties

Besides one type invariant per module:

* **Money**: `OnlyLateBetsStranded` (every bet that was committed while its book
  was open is won, lost or refunded exactly once; one that was committed later
  never is), `LateMeansAborted` (with a window as long as a request a bet can be
  too late only for an abort, never for a settlement), `LoopBetsOnTime` (a bet of
  the loop is never late), `NoDoubleCredit`, `LedgerReconciles` (in `RoomEngine`
  and in `Wallet`), `ClosedRoomIsFrozen` (but for bets whose reads came before the
  close), `ImplementsStakeBook`, `NeverMints`, `ReturnToPlayer`. `StakesResolved`,
  the comment's unqualified sentence, is what `bet_past_the_loop` refutes.
* **Rounds**: `OneLiveRound`, `SettleOnlyAfterWindow`, `NoOrphanRound` and
  `RoundResolves`, each except after one of the three failures nobody attends to
  (`Unattended`: a start that commits without acknowledgement, an abort and a
  recovery that are rolled back), `RestartResolves` (a restart cures those too),
  `ShutdownEndsLoops`.
* **Seats**: `SeatCap`, whatever fails; `OneRoomWhileBound` (one room per player)
  and `SeatedIsBound`, unless something other than crashes and failed Redis
  commands happened; `NoStaleBinding`, unless one of these two did.
* **Listing**: `OpenRoomsCached`, `ListingFindsATable`.
* **Delivery**: `RegistryHonest`, `RoundFramesInOrder`, `JoinerLearnsTable` (a
  player whose join has read its snapshot has, or is about to get, a frame about
  the latest round and, if the room has ended, one that says so), `PushEnds`,
  `ClosedSocketLeaves`.
* **Calls and trail**: `TrailComplete` (one entry per call and event, all of a
  socket's by the player of its handshake, and which two kinds of event have
  none), `AccountIsTheRegistrants`, `CallEnds` (from the end of the body on).
* **Wallet transactions**: `PayoutsShareNoPlayer`, `TransactionsEnd`.

Every property of a passing run has a mutant in `PROJECT.json`: an operator of
the model changed as a plausible slip of the code would change it, which makes
TLC report the property violated.

## 4. Runs that pass

| Run | Instance | Shows |
|---|---|---|
| `room_engine` | 2 players, 2 requests in flight, 2 rounds, one kind of rollback or unacknowledged commit, one restart; `MaxMoney` 400, so that the products of the stakes a wallet covers fit (1, 2), wrap below zero (3, 4) and wrap round to a small payout (5) | no dice in an open window; no round without an alarm; closed rooms are frozen; the loop is never late; refinement of `StakeBook`; 96 % less rounding, and wrapped payouts never overpay |
| `room_overlap` | 2 players, 2 requests, 2 rounds; a window shorter than a request, a second process, one kind of fault | no double credit; only bets committed too late are stranded |
| `room_liveness` | 2 rounds, rollbacks and unacknowledged commits, two kinds in one behaviour, one stop or crash | every round ends, but for three named failures; a restart cures those; a shutdown ends every loop, also one left by a refused start |
| `wallet` | 2 players, 2 rooms, 2 transactions, amount 1, balances up to 2 | no lost update; payouts share no player; no deadlock |
| `seating` | 3 players, 2 rooms of 2 seats, 2 calls, faults of one kind, any number of them | seat cap, one room per player, seated means bound, no binding left behind, each under the faults it survives |
| `room_cache` | 3 rooms, 2 operations, 1 listing, parameters narrowed to -8..7, one failure | no eviction hides an open room; a first page is never wrongly empty; no negative offset |
| `hub` | 2 sockets of one player, 2 rounds, queues of 2 | one current socket; frames in order in spite of drops; a joiner learns the table |
| `hub_liveness` | the same, with fairness and no frame history | no push waits; closed sockets go |
| `api` | 2 calls out of 2 requests and 1 socket with 2 events, 2 addresses in 2 spellings, 2 passwords, one crash | the trail is complete but for what the property names, an address has one owner, every call ends once its body is read |

**Bounds.** Two rounds are enough for "the round after a settled one", including
the cap. Two requests give every pair of racing commands; a third adds only
another caller in the queue. A window of one tick distinguishes a timer that is
armed before, at and after the end of the window, and one that fires a tick early.
One kind of fault reaches every error path; `room_liveness` has two, which is
what "the abort fails too" takes. Two calls in `Seating` are two that race; a
finished call's slot is used again, so a third can take advantage of what they
left. What needs a third room is beyond that run (the last paragraph of section
5) and is covered by the theorems of section 6. In `RoomCache` two operations
give every order of two cache writes, and three rooms make pages that cut the
listing. In `Hub` a queue of two frames holds a result and a balance, or a frame
of the loop and a snapshot, and is full often enough; with two rounds a frame can
be older than the one before it by a round. The same instance was checked once
with two players (9.7 million states up to symmetry, no violation); it takes too
long to be a run. In `Api` calls meet only in the accounts and the tokens, and
`Settled` supplies the player that a third call would have to register and log
in.

**Deadlock** is checked in the room and wallet runs. The seating, cache, hub and
api runs stop when their rooms, sockets, messages or calls are used up.

**Fairness.** Go's `select` picks among ready cases at random, so a ready alarm
or quit is taken even if commands keep coming (strong fairness), and a loop with
something ready does not sleep (weak). Time passes. A stopped process exits, and
`docker-compose.yml` restarts it (`restart: unless-stopped`). Nothing is assumed
of requests, joins, crashes or faults. PostgreSQL queues the waiters of a row lock,
hence strong fairness for taking one. In the hub nothing
is assumed of a socket that is still open, whose peer may never read; once it is
closed a write ends by its deadline, and then the read pump ends. In `Api`
nothing is assumed of a room loop or of a client, which may never send the rest
of a body: what is fair is that the deadlines pass (30 s for a request, 15 s for
an event, the `authDeadline` of a handshake, 5 s for an audit write) and that a
handler returns once its context has ended, which it hands to every wait
(`GoesOn`). That takes three things the code leaves to others: the drivers of
PostgreSQL and Redis return when a context ends; a `ROLLBACK`, which `tx.go` sends
on a context without a deadline, is answered; and an answer fits into the buffers
of its connection, since the server has no `WriteTimeout`.

## 5. Disagreements between code and comments

Three runs check one sentence of a comment each, and TLC finds an execution of
the modelled code that contradicts it.

| Run | Sentence | What happens |
|---|---|---|
| `bet_past_the_loop` | engine.go: correctness "does not *depend* on that serialization" | a bet that found no loop reads the round, the round is aborted, the bet commits into the closed room |
| `withdraw_race` | withdraw.go: the check runs "after the player row is locked" | it runs before; a join commits in between |
| `seated_twice` | create_room.go: "an expired binding still cannot seat a player twice" | two calls pass the check before either commits |

The same modules show ten more. Their properties are defined and kept out of
the runs; to see one, check it on the instance named here.

| Property | Sentence | What happens | Instance |
|---|---|---|---|
| `LoopExitsWhenClosed` | engine.go: a loop "exits when the room closes" | a start that is refused leaves its loop | `room_liveness` without faults and restarts |
| `FailedSettlementRefunds` | engine.go: "every open stake refunded" | the abort fails as well; only a restart refunds | `room_liveness` with rollbacks only, without restarts |
| `ListingOnlyOpen` | room_state_store.go: the listing "never advertises a closing or closed table" | a join's `SaveRoom` after the close | `room_cache`, no failure needed |
| `PathsAgree` | list_rooms.go: "both paths behave the same from the caller's point of view" | a late `SaveRoom` puts a closed room back; a warm-up saves one page, and later hits show no more | `room_cache`, no failure needed |
| `SnapshotIsFresh` | room_state.go: "must never be a stale projection" | `room.state` delivered after a later `round.started` | `hub` |
| `NothingAfterClosed` | WS_EVENTS.md: "no further events for that room id are possible" | `room.state` of a join in progress | the same |
| `FinalBalanceFirst` | WS_EVENTS.md: `room.closed` "always preceded by" the final balance | the socket connects between the two, or the balance is dropped and the next frame still queued | `hub` |
| `JoinedSocketKnowsRoom` | hub.go on `DetachRoom` | the pointer to the next room is wiped | `hub` with one socket, two rooms of one round, a queue of 6, two messages |
| `PanicAuditedAsError` | ARCHITECTURE.md: a panic "becomes a 500, `Recoverer` runs *inside* the audit" middleware | it runs outside (router.go: `Recoverer` on the root, `AuditMiddleware` in the group), so the deferred function sees no status and writes an entry without an error | `api` |
| `ErrorMeansNoEffect` | audit.go: "Error carries the failure message when the operation did not succeed" | the caller's context ends, or the acknowledgement is lost, and the operation commits | `api` |

Others are exceptions that a property of a passing run names, or were met while
reading:

* audit.go says "Every REST call and WebSocket event produces exactly one entry",
  ws/audit.go "every inbound event is recorded, successful or not, plus the
  handshake itself", handler.go that `handle` audits "whatever the outcome". An
  event whose handler panics has no entry: the panic passes `writeAudit`. Nor has
  a handshake whose upgrade fails. `TrailComplete` counts both (`Untraced`).
* `AuditMiddleware` reads the body before anything else, and nothing ends that
  read: the server sets `ReadHeaderTimeout` and `IdleTimeout` only, and the
  `Timeout` middleware cancels a context which the read does not look at. So
  `CallEnds` begins where the body ends.
* The errors of `ReleasePlayer` are swallowed (create_room.go, join_room.go,
  close_room.go), and an error of `BindPlayerToRoom` after the key was set is
  returned without a release. Either leaves the player bound, to a room that was
  never made or has ended, for up to six hours; so does a crash between the two
  stores. `NoStaleBinding` names these two kinds, and no other leaves a binding.
* A start whose commit is not acknowledged leaves a round without a timer
  (engine.go arms it only on success), and a recovery that fails is not tried
  again. `Unattended` names them.
* `main.go` says "Sockets are gone" before it stops the engine, but
  `server.Shutdown` does not close hijacked connections, so sockets go on sending
  commands meanwhile (`RoomEngine` lets them). If `server.Shutdown` times out,
  `run` returns without `Engine.Shutdown`, and the rounds wait for the next start
  (`ProcessEnds`).
* A password of more than 72 bytes is answered 500 (`ErrPasswordTooLong` is not in
  `mapError`).

`seated_twice` also needs no Redis failure: with `FaultKinds = {"rollback"}` a
repeated join outlives the binding of the first one, on which it relied. Nor does
it need one of the binding: with `FaultKinds = {"expire"}` and three rooms a seat
mutex that runs out under a slow join is enough. Of two joins of one player to a
room the first makes the binding and the second relies on it; the mutex of the
first expires, the second seats the player, the room closes, and the first join,
now refused, gives its binding up. The player creates another room, whose
binding the closed room's release then deletes (`ReleasePlayer` does not look at
its value), and creates a third. Two rooms are too few for this, which is why
`OneRoomWhileBound` once allowed expired mutexes and TLC agreed: the attempt to
prove it found the trace.

## 6. Theorems

TLAPS proves, for every value of the constants allowed by the named assumptions:

* `DiceProofs`, for every `MaxMoney` and every stake a wallet covers in a reachable
  state of the room, from lemmas about the operators that hold for every stake:
  * `PayoutNeverMints` (`NeverMints`), from two lemmas on the wrap-around (it never
    makes a positive product larger; a product that fits is unchanged).
  * `TableReturns96Percent` (`ReturnToPlayer`): 18 of the 36 rolls win, whichever
    side was chosen, and `PayoutExact` bounds what each of them keeps back.
* `RoomEngineProofs!RoomTyped`: `Spec => []TypeOK`.
* `RoomSafetyProofs`, for any window, faults and restarts, with bets past the loop
  in two steps and with or without a second process. Lemma `DbStep` sorts every
  step of `RoomEngine` by what it does to the database (nothing, start, bet,
  settle, abort, close); the invariants need one case for each.
  * `RoundsInSequence` (`OneLiveRound`) is inductive given the types.
  * `DiceAfterWindow` (`SettleOnlyAfterWindow`). `TimerInv`: as long as a betting
    round has an alarm, the timer is not ahead of the window. The start
    establishes it by the delay it computes, a tick takes as much from both, and
    no second round starts under an old timer.
  * `CreditedOnce` (`NoDoubleCredit`). The strengthening `CreditInv` relates each
    ledger to its bet: a second entry exists only for a bet that is no longer open
    or a room that is closed, so neither settlement nor refund can add a third.
  * `OnlyLateBetsAreStranded` (`OnlyLateBetsStranded`), `SettledBooksAreComplete`
    (`LateMeansAborted`) and `LoopIsNeverLate` (`LoopBetsOnTime`) from `FateInv`.
    None of them is inductive: a bet that was read and not committed decides what
    its commit will find. `FateInv` adds `PendingInv` (while `loop = "bet"` its
    round takes bets, and the room is not closed unless another process closed
    it, because only the loop settles and aborts) and `LateBetsOK` (a bet past the
    loop is of a round that exists, and of one that is not settled if the window
    is as long as the request: that needs `TimerInv`, since a settlement waits for
    the window and the window for the bet). A late bet stays stranded: its round
    exists, so its book never opens again.
  * `ClosedMeansFrozen` (`ClosedRoomIsFrozen`): no step adds to the pending bets of
    a closed room, and a pending bet writes nothing but its own row, entry and
    wallet.
  * `RoomLedgerReconciles` (`LedgerReconciles`): every step that appends an entry to
    a ledger moves the balance by its amount, and appending an entry adds it to
    the sum (`EntryAdds`).
  * `RoomImplementsStakeBook` (`ImplementsStakeBook`). By `DbStep` there is one
    lemma for each kind of database step: a start opens a book, a bet takes a
    stake or a late one, a settlement or an abort with a live round closes the
    book, everything else stutters. It needs `FateInv`, and `EmptyBets`: where no
    bet was placed the row holds nothing of one.
  * `NoRoundOrphaned` (`NoOrphanRound`). The strengthening `OrphanInv` adds that
    `live`, by which a quit decides whether to refund, is true whenever the alarm
    is set for a betting round.
* `WalletProofs`, for any number of players, rooms and transactions:
  * `WalletTyped`, `WalletReconciles`. The strengthening is `ReadsAreCurrent`: a
    transaction that has read a balance owns the row, and the row still has that
    value.
  * `PayoutsDisjoint` (`PayoutsShareNoPlayer`). `PayoutInv`: all players of a payout
    sit in the one room whose row it holds, and nobody gets up while it does.
* `RoomCacheProofs`, for any number of rooms, operations, listings and failures:
  * `OpenRoomsStayCached` (`OpenRoomsCached`). The strengthening is
    `EvictionsAreFinal`: an eviction still to be written is that of a room that has
    ended, and an ended room is never opened again.
  * `ListingsTyped` (`TypeOK`) and `ListingsFindATable` (`ListingFindsATable`) from
    `ListInv`. What a listing finds depends on what it looks in: every room that
    exists, is cached, is being written or is still to be warmed has a row
    (`RowsInv`, `ListingOK`), so that a hit, which only looks whether the hash is
    empty, has something to show; and a room that the listing is owed is still
    open when PostgreSQL is read. `KeptSelects` and `PageFits` say what selecting
    and paging return for a table of any length.
* `SeatingProofs`, for any numbers of players, rooms, calls, seats and faults:
  * `SeatingTyped` (`TypeOK`) with `CallInv` and `RowInv`: a row lock is held by
    exactly the joins between check and commit.
  * `SeatsCapped` (`SeatCap`). `SeatInv` says that what a join read under the row
    lock still holds when it commits. Nothing in it is about the mutex or the
    binding, so no failure of Redis matters.
  * `NoBindingLeft` (`NoStaleBinding`). `StaleInv`: without a crash or a failed
    Redis command, whoever is bound sits there, is being released, or has a call
    that claimed the binding and will answer for it. `NoStaleBinding` alone is not
    inductive: a call that merely names the room would not clean up.
  * `SeatedAreBound` (`SeatedIsBound`) and `OneSeatPerPlayer`
    (`OneRoomWhileBound`). `BoundInv` is the argument why two Redis keys make up
    for an unlocked read, also if processes die and Redis commands fail: a join past `acquireSeatMutex` holds the mutex; a claim
    is still what Redis says and its player sits nowhere; a join that relies on
    another call's binding finds it in place or will be refused, because a join
    gives a claim up only for a room that is `Spent` for the player, and a room
    once spent stays so; a closed room releases only players bound to it. A claim
    without an answer, or a release that failed, only leaves keys, which keep
    others out.
* `ApiProofs`, for any calls, events, crashes, addresses and passwords:
  * `ApiTyped` (`TypeOK`) with `PlaceInv`, what a call has at each point of its
    way.
  * `TrailIsComplete` (`TrailComplete`). `LogInv`: no entry, and no failed write,
    is of an event still to come or being handled, so the one that is written
    next is the first of its event; a socket has lost its status only if its last
    event left no entry.
  * `AccountsAreTheRegistrants` (`AccountIsTheRegistrants`), from the lemma
    `AccountsStay`: no account is ever replaced.
* `HubProofs`, for any players, sockets, rooms, rounds and queue size:
  * `HubTyped` (`TypeOK`), which includes the bound of the queues.
  * `RegistryIsHonest` (`RegistryHonest`). `RegistryInv` extends it to sockets
    whose pumps have not started, which may be replaced as well, and says that
    the registered socket of a player is that player's.
  * `FramesInOrder` (`RoundFramesInOrder`). `OrderInv` extends the order from
    the frames that arrived to those that are queued, and to those that the loop
    has still to hand out; and no frame is ahead of the life of its room
    (`Limit`). A new socket has an empty queue, so a player who comes back cannot
    see two sockets' frames mixed.
  * `JoinerIsTold` (`JoinerLearnsTable`). `LearnInv` follows a session through
    `room.join`: from the seat on (`Seated`), every notification of the loop names
    the player (`members` is read when the notification is made); once the
    snapshot is read, the player knows of the latest round, and of the end, from
    it or from the loop (`Learns`), whether it is still to be sent (`Pending`) or
    on its way (`Knows`, `KnowsEnd`); and on a socket that stays open no frame is
    lost (`Coming` never shrinks).

**Induction over data.** The sums of `LedgerReconciles` and the selection of
`Kept` are recursive functions, about which the provers know nothing by
themselves, and the library's induction rules take an operator as a parameter,
which they cannot instantiate. The induction used here is over sets instead: the
library's `WFMin` and `NatLessThanWellFounded` give every non-empty set of
naturals a least element (`LeastNatural`), hence a set that has 0 and the
successor of each member has every natural (`NatSetInduction`). With it the
recursion is shown to have a solution (`SumsExists`, `KeepsExists`), and then its
properties, one set of good arguments each.

**Only model-checked**: the liveness properties (`RoundResolves`, `RestartResolves`,
`ShutdownEndsLoops`, `TransactionsEnd`, `PushEnds`, `ClosedSocketLeaves`,
`CallEnds`), which are outside the prover's reach. Every invariant and every
action property of a passing run, and the refinement, has a theorem.

## 7. Plan

Done: `DiceRules`, `RoomEngine`, `StakeBook`, `Wallet`, `Seating`, `RoomCache`,
`Hub`, `Api`, and a theorem for every invariant and action property of the runs.
Next, in this order:

1. `Hub` with `bet.accepted` of a known round, to check it against `round.result`.
2. A composition of `Seating` and `RoomEngine` for several rooms, to see what two
   seats of one player do to settlements that share a wallet.
3. Unacknowledged commits in `Seating`.

## 8. Not modelled

Configuration, migrations, the wiring in `bootstrap.go`, the health probe, the
smoke script and the generated queries as such (the guards in their SQL are in
the modules that rely on them): read once at start, or pure I/O. Of the REST and
WebSocket layers the decoding of messages and the encoding of answers, and the
redaction of audit payloads, which is a function of JSON data. Token and password
cryptography belongs to libraries. `Room.Leave` and `Hub.Broadcast` have no
caller, and nothing reads the audit trail back. The overflow of a balance (2^63
cents) is left out of `Wallet`.
