# AlfaDirectAPI: TLA+ models, checks and proofs

AlfaDirectAPI is a C++/Qt client of the AlfaDirect broker. One object,
`ADConnection` (a `QThread`), logs in, keeps a socket to the server, decodes
what arrives and keeps orders, quotes, positions and subscriptions that any
number of user threads use at the same time. This directory holds TLA+ modules
of the parts where that concurrency matters, the TLC configurations that check
them on small instances, and TLAPS proofs of the main properties for every
value of the constants.

Paths below are relative to `src/src/` of the repository; `cpp` is
`ADConnection.cpp`.

## 1. The system

### Threads and locks

* **User threads** call the public methods of `ADConnection`. The methods take
  `m_rwLock`, change the hashes, release it, and hand the sending to the network
  thread by a queued or blocking-queued signal.
* **The network thread** (`ADConnection::run`, cpp:2558) connects, runs the
  event loop, sends (`tcpWriteToSock`), reads (`tcpReadyRead`, cpp:2876) and is
  the only one that applies what the server says.
* Operations, requests and subscriptions have a mutex and a condition variable
  of their own, used **inside** or **after** `m_rwLock`.

### Components

| Component | State | Operations | Hard | Must hold |
|---|---|---|---|---|
| Quantities of an order (`ADOrderPrivate`) | `m_qty`, `m_restQty`, `m_tradesQty` | `updateRestQty`, `updateTradesQty`, `setOrderState`, `getExecutedQty` | the same deals come over two streams, late and repeated; unsigned subtraction | no deal counted twice, none lost that was told while the order was active, no wrap, every lot reported |
| Order registry | `m_activeOrders`, `m_inactiveOrders`, `m_ordersOperations`, `m_reqId` | `tradePaper`, `changeOrder`, `cancelOrder` and their slots; responses (`MSG_ID`), status lines (`MY_ORDERS`), trade lines (`MY_TRADES`) | three streams in any order, calls split by an unlock, an object that changes its id | one key per object, a result for every operation, no false success, retired ids stay retired |
| Waiting for an operation (`ADOrderOperationPrivate`) | `m_result`, `m_mutex`, `m_wait` | `wakeUpAll`, `waitForOperationResult` | several enders, timeouts | one answer, no lost wakeup |
| Historical requests (`RequestDataPrivate`) | `m_requests`, `m_state`, `m_wait` | `requestHistoricalQuotes`, `wait`, `HIST_QUOTES` blocks | answered after the unlock, lost writes | nobody sleeps on a completed request |
| Subscriptions (`ADSubscriptionPrivate`) | `m_vals` (flags, `wakeupTime`), `m_jobs`, `m_wait` | `update`, `waitForUpdate`, `peekQuote`, `zeroConnectionMember` | updates during the delay, peeks between update and report | no update lost or slept through, delays kept |
| Quote filters | `m_simpleFilter`, `m_complexFilter` (reference counts) | `subscribeToQuotes`, `_unsubscribeToQuote`, `sendADFilters` | counts after a failed send and a new login | a filter is set while somebody needs it |
| Quote book | `m_quotes` | queue and quote blocks (cpp:2968-3120), `getQuote` | incremental lines | best prices agree with the queue |
| Positions | `m_positions`, table `AD_BALANCE` | position blocks, the query and the filter of the login | rows skipped by the store, roll backs, an ignored filter | only what the store skipped is ever missing |
| Session | state, socket, session key | `connect`, `disconnect`, `run`, authentication (cpp:4071) | what a disconnect leaves behind, calls while there is no session | every blocked caller returns; a resumed order is in the hash |
| Database store, resume of orders | the SQLite file, table `AD_ORDERS` | `storeDataIntoDB`, `_sqlFindActiveOrders` | transactions left open by an early return, restarts | the database and the hashes agree on what is active |
| Framing and decoding | receive buffer | `parseReceivedData` (cpp:4092) | blocks cut at any byte | no byte lost or seen twice |
| RPC and remote library | socket pair, child process | `ADRPC`, `ADRemoteLibrary`, `ADAPIServer` | short reads and writes, death of either process, descriptors closed twice | answers match calls, nobody hangs, no helper is left over |
| Local library, loader, cryptography, bootstrap | | calls into closed DLLs, file copies | | |
| Document templates, options, time marks | | pure functions | wrap of the tick counter | |
| Smart pointer, atomics | reference count | copy, assign, destroy | concurrent copies, waiting on an object that others let go of | freed once, by the last |

How they interact: a user call inserts an *operation* into the registry and
sends a request; the network thread reads blocks, changes the *registry*, the
*quantities* of orders, the quotes, and calls `wakeUpAll` of operations,
`setState` of requests and `update` of subscriptions, which release the waiting
threads. The database mirrors what is received. The full list of components with
their status is in `PROJECT.json`, and so is the list of hazards: each place in
the code that is hard to test, with the properties that cover it.

## 2. Modules

| Module | Models | State ↔ code | Actions ↔ code |
|---|---|---|---|
| `OrderArithmetic` | the arithmetic of quantities, in `Word` values (2^32 in the code) | | operators named after the methods of `ADOrderPrivate` |
| `OrderQuantity` | one order and the exchange that fills it | `o` = the three quantities; `hashes`: which of `m_activeOrders` and `m_inactiveOrders` hold it; `done`, `dropped`, `told`: the exchange; `reported`: sum of `onTrade`; `missed`: history | `File`, `RestLine`, `FilledLine`, `DroppedLine`, `TradeLine`, `Change` |
| `Orders` | the order registry; uses `OrderArithmetic` | `order`, `active`, `inactive`, `op`, `pending`, `reqId` = objects and hashes; `calling` = user threads blocked in a slot; `sent` = the wire; `market`, `told`: external and history | one action per call, slot, kind of response and kind of line |
| `OperationResults` | abstract: each operation gets at most one result | | |
| `MCOrders` | `Orders` for TLC (symmetry) | | |
| `OrderSessions` | `Orders` over several sessions and processes; extends `Orders` | `phase` = `m_state`; `resuming`: rows of the login's query still to be inserted; `rows`, `saved`: `AD_ORDERS` with and without the open transaction; `heard`: requests the server got | `Connect`, `Login`, `ResumeOrder`, `Quit`, `Restart`; `Call`, `AnnounceInSession`, `AnnounceOffline`, `Slot`; `Response`, `StatusLine`, `Trade`, `OtherBlocks` (each with what the store makes of its list); `Exchange` |
| `OperationWait` | mutex, condition variable and result of one operation | `result`, `waiter` (where each thread is), `timed`, `got` | `WaitForOperationResult`, `Return`, `WakeUpAll` |
| `OperationLife` | the pointers to that operation and its deletion; extends `OperationWait` | `ref` = `m_ref`; `filed`: the pointer in `m_ordersOperations`; `hand`: the pointer of each thread, `going` between `decRef` and the look at its result `told`; `deleted`, `woken`: history | `Share`, `Use`, `LetGo`, `Delete`; `Take`, `Remove`, `WakeUp`, `Done` of the network thread |
| `HistRequests` | historical requests, from the call to the answer | `reqId`, `requests`, `state`, `queued` (the queued signal), `taken` (between `take` and `setState`), `handle`, `waiter`, `told` | `RequestHistoricalQuotes`, `WriteToSock`, `Written`, `WriteFails`, `Answer`, `Complete`, `Wait`, `Return` |
| `Subscription` | one subscription | `updated`, `appended`, `jobs`, `delay` (time until `wakeupTime`), `waiter`, `timer` | `Update`, `Call`, `Iterate`, `TimerFires`, `PeekQuote`, `ZeroConnectionMember`, `Tick` |
| `MCSubscription` | three papers with delays 0, 1, 2 | | |
| `QuoteFilters` | reference counts of filters, over several sessions | `count` = `m_complexFilter`; `listed` = `m_subscriptions`; `used`: reference counts above 1; `left`: the iterator of the loop over the list; `outbox`: queued `onWriteToSock`; `resent` = `m_resendFilters`; `server`, `dirty`: external | `SubscribeToQuotes`, `Release`, `Connect`, `Login`, `Quit`, `SendPing`, `Write`, `WriteFails`, `Line`, `Visit` |
| `MCQuoteFilters` | three subscriptions that share papers and filters | | |
| `Framing` | from reads of the socket to blocks, over several sessions | `encBuffer`, `sockBuffer` = `m_sockEncBuffer`, `m_sockBuffer`; `phase` = `m_authed`; `sent`, `wire`: external; `got`: history | `Connect`, `ReadPlain`, `ReadEncoded`, `DecodeFails`, `Quit`; `Blocks`, `Split`, `NonEmpty`, `Named`, `Rest` are the parts of `parseReceivedData` |
| `MCFraming` | three blocks | | |
| `Replica` | positions: the server's, the database's and the user's | `positions` = `m_positions`; `filter` = `m_simpleFilter["balance"]`; `resent` = `m_resendFilters`; `rows`, `saved` = `AD_BALANCE` with and without the open transaction; `server`, `serving`, `wire`: external; `skipped`: history | `Connect`, `Login`, `SendPing`, `Receive` (store, then handle), `Quit`, `Restart`; `Change`, `SendUnknown` of the server |
| `RemoteCalls` | the helper process and the calls over the socket pair | `stage`: how far `load` got; `fds`, `socks`, `cloexec`, `file`: descriptors; `running`, `holds`: the helper process; `toHelper`, `toClient`: bytes; `client`, `helper`: where `ADRPC` is on each side | `SocketPair`, `SetCloseOnExec`, `StartProcess`, `CloseOtherEnd`, `LoadFails`, `OpenFile`, `CloseFile`, `EndOfSession`, `ClientDies`; `Call`, `ClientWrites`, `ClientReads`, `ClientFails`; `HelperReads`, `HelperCalls`, `HelperWrites`, `HelperFails`, `HelperDies` |
| `*_proofs` | theorems about the module of that name; `Orders_proofs` also about `OrderSessions` and the refinement of `OperationResults`, `OperationLife_proofs` also about `OperationWait`; `Transport_proofs` about `RemoteCalls` and `Framing` | | |

Modelling decisions:

* **Granularity.** Every handler holds `m_rwLock` for writing from its first
  look at the hashes to its last change, so it is one action. A user call is
  three: the locked part, the announcement after the unlock (`Announce`), and the
  slot, which the network thread runs later while the caller is blocked
  (`BlockingQueuedConnection`, cpp:2754-2771).
* **Release build.** `Q_ASSERT` does nothing: after an assertion that does not
  hold, the model goes on as the code does. Assertions are properties instead.
* **Text.** A response is one of the outcomes the handler distinguishes. The
  only text that matters is that of an accepted create, where the two formats
  (`Forms`) take different branches (cpp:3146-3251).
* **The order's id.** The hash key, the id in the object and the id a request
  named are three things, as in the code; most of what goes wrong is in their
  disagreement.
* **Exchange.** External, and constrained only as far as the protocol implies: it
  fills or drops live orders, reports a deal once in trade lines, reports a
  closing after it happened and refuses what it did not do. Status lines may be
  old and repeated; responses, status and trade lines come in any order.
* **Store.** Only the network thread touches the database. A list of blocks is
  stored and then handled without a look at anything in between, so that
  `OrderSessions` makes one step of each line and lets the step choose what
  else was in its list: a block that the store does not know ends the store
  without a commit (cpp:3900). `Replica` has the lists themselves.
* **End of a session.** The receivers of blocking-queued signals are destroyed with
  the event loop, which releases their callers (`Quit`); a call without receivers
  returns at once (`AnnounceOffline`). The hashes stay as they are.
* **Restart** is a new process at any moment: memory is lost, and of the database what
  was committed is kept.
* **Bytes of calls.** `RemoteCalls` knows of a byte whose call it is of and how many
  follow; the marshalled sizes are those of `Framing`.
* **Writes.** `writeToSock` emits a queued signal and returns true (cpp:4207);
  `tcpWriteToSock` may fail, and nobody is told.
* **Time** in `Subscription` is kept relative: the time that remains until a
  mark. A timer that ran out may take any time to fire. On a platform whose tick
  counter wraps, `msecsDiffTimeMark` is off by one; this is not modelled.
* `QWaitCondition` does not wake spuriously (Qt keeps a count of wakeups), so
  the waits of `OperationWait` and `HistRequests` without a loop are right.

Definitions whose comment starts with `Mutant` are plausible wrong versions of
the definition that follows. They are used by nothing; replacing the definition
by one of them breaks the property `PROJECT.json` names, which shows that the
property depends on the code.

## 3. Runs

| Run | Bounds | Shows |
|---|---|---|
| `OrderQuantity.cfg` | up to 4 lots, `Word` 16 | `RestBounded`, `NeverOvercounts`, `HeardIsKnown`, `NoMissedTrade` under every pattern of deals and lines, before and after a change, lines that come before the order is filed or after it was retired included |
| `OrdersAll.cfg` | 2 threads, 3 objects, 2 ids, 2 requests, 1 lot, all kinds and texts, failing signatures | `PendingIffUnresolved`, `OneKeyPerObject`, `NoPhantomDeals` (with changes of id) |
| `OrdersRemoval.cfg` | 2 threads, 2 objects, 2 requests, 1 id, 2 lots, no changes, failing signatures | `RemovalIsReal`, `CancelledStaysClosed`, that `Orders` implements `OperationResults` (`PromiseSpec`), and `DecidedResolves` |
| `Sessions.cfg` | 2 threads, 2 objects, 1 id, 2 requests, 1 lot, creates and removals, 2 connects, any number of restarts | `PendingIsOnActive` and `OnePendingPerOrder` in spite of what a session leaves behind, `OpenRowsAreActive`, `CallersReturn` |
| `OperationLife.cfg` | 2 user threads and the network thread | `NobodySleepsOn`, `OneAnswer`, `NotDeletedInUse`, `Returns`, `DeletedAtLast` |
| `HistRequests.cfg` | 2 threads, 3 requests | `InOnePlace`, `NobodySleepsOn`, `ReceivedReturns` |
| `Subscription.cfg` | 3 papers, delays 0, 1, 2 ms, one of them wanted for one type only | `JobsAreDue`, `NoOversleep`, `NewsKept`, `MinDelayKept`, `Delivered` |
| `QuoteFilters.cfg` | 3 subscriptions, 2 filters, 2 papers, no subscribing while more than 1 write is queued (the loop over the list queues more) | `CountsAreSubscribers`, `ServerFollows`, and `ReleasedIsDropped` except after a login that found subscriptions, or while the last writes of all filters of the subscription failed |
| `Framing.cfg` | 3 blocks with no, one and two lines of data, frames of 2, 4, 5 and 11 characters, `Width` 9, reads of any number of bytes, any number of sessions | `NothingLost`, `InOrder` |
| `Replica.cfg` | 2 positions, 3 changes, 3 connects, the server adds a block while fewer than 2 are under way, any number of restarts, any statement may fail | `NothingElseLost`, `PositionsFollow`, `CatchesUp` |
| `RemoteCalls.cfg` | 3 calls in one life of the helper, messages of up to 4 bytes, a buffer of 3, descriptors 1 to 3, any number of lives | `AnswerIsOwn`, `FileStaysOpen`, `CallReturns`, `HelperGoes` |
| `RetiredNotResumed.cfg` | 1 thread, 2 objects, 1 id, 2 connects | a violation, see below |

Why the bounds are enough for what they ask: an id disagreement needs two ids, and an object
filed twice a second object; a race between two calls needs two threads and two requests; a
partial fill needs two lots and a report of several lots at once a third (`OrderQuantity` has
four). Each paper of `QuoteFilters` is wanted by two subscriptions, and one filter has two
papers, so that it can lose one and keep the other. The frames of `Framing` are shorter and
longer than a block and than `Width`, and buffers get longer than twice `Width`. Two delays that
differ, and a paper without one, are what `minWait` distinguishes. In `Sessions`, an order
created in one session is met again in the next by the same and by another process, with a
second call open; an object is kept for each row to be resumed, so that no login is refused for
want of one. In `Replica`, a row that is not stored while a newer one is takes two keys and
three changes, and a third connection comes after one that was ignored. In `RemoteCalls`, a
message is longer than the buffer, so that a write waits for a read, and the number of
`socks[1]` is free again for a file. What the bounds leave out, the theorems cover, where there
are any.

`CHECK_DEADLOCK FALSE` is set in every run: all behaviours may stop, when requests are used
up, when the order is filled, when nobody calls, or when the process has died.

Type invariants are proved, so that no run checks them again. `OperationWait` is run through `OperationLife`, whose
steps contain its own.

### Where code and text disagree

`RetiredNotResumed.cfg` checks one statement of a comment, and TLC finds a behaviour of the code
that violates it: "We should keep all cancelled orders because of race on AD server" and "here
we check that orderId NOT is in inactive" (ADConnection.h:543-549), while a login files every
open row of the database as active (cpp:2914-2923). The row of a retired order may still be
open, because the list with its closing line held a block that ends the store.

The model follows these disagreements without a run of their own:

* the slots' error branches assert that their operation is still in the hash
  (cpp:1702, 1896, 2271), but a line may end the operation between the call and the slot;
* "Handle exchange sucess response" (cpp:3176): `captureCount()` is never 0, so that a real
  order's acceptance is handled as an error (`RealCreateAccepted`);
* the line W of an unknown id is not remembered as retired, and a late line O makes it
  active (ADConnection.h:543, `DroppedLine`);
* "send failed!" (cpp:1753) and `m_requests->remove` (cpp:1027): failures of the queued write
  reach nobody (`WriteFails`);
* a login asserts that a resumed id is not in `m_activeOrders` (cpp:2921); it may be, and the
  new object takes the place of the old one, whose handles then hear of nothing (`ResumeOrder`);
* a login overwrites positions with the rows of the database, which may be older (cpp:2938;
  `Resumed`); a row the store skipped while a newer one was stored is never asked for again
  (`LastUpdate`, and the exceptions of `NothingElseLost` and `PositionsFollow`);
* `closeSocks` closes the number of the helper's end a second time (ADRemoteLibrary.cpp:55);
  that it hits nothing that is in use rests on the network thread alone opening descriptors, and
  closing its own first (`FileStaysOpen`). Another thread of the program that opens a file is
  not modelled.

The model follows the code in other places a reader of its comments may not
expect; no property states otherwise:

* a successful change saves the quantity 0, because nothing calls
  `setPresaveValues` (cpp:3299), and leaves the object under its old key, whose
  closing line gives it the old id back (`ChangeDone`, `CloseLine`);
* `changeOrder` announces `CancellingState` (cpp:1608; `ChangeOrder`);
* the response to a create files an id that lines have already retired
  (cpp:3212; `CreateAccepted`), which is the one exception of `CancelledStaysClosed`;
* a trade line is ignored unless its id is in `m_activeOrders` (cpp:3677; `TradeLine`): the
  lots of one that comes before the order is filed, or after the line W, are counted only if a
  status line has reported them or the line M makes up for them, so that a dropped order may show
  fewer lots than were dealt. `HeardIsKnown` says what does hold;
* a partial trade ends a pending removal and leaves the order in
  `CancellingState` (cpp:3664; `TradeLine`);
* an order executed according to the trades stays in the active hash until its
  line M, and can be cancelled (cpp:3685; `TradeLine`, `MayOperateOn`);
* a login empties the filters of subscriptions that are in the list, whose quotes then
  stop until somebody subscribes to the same papers again; that is why
  `CountsAreSubscribers` speaks of sessions that began
  with an empty list (cpp:2907; `Login`). Such a subscription, once it is released, stays in the
  list when no line comes any more that would drop it (cpp:3043), and so does one whose filters
  could not be written; that is why `ReleasedIsDropped` promises nothing for them;
* trades that were handled, and whose rows were lost with the transaction, are asked for again
  at the next login (cpp:4044), and an object that lives on counts them twice (`Login` resets
  `told`; `UpdateTradesQty`). That is why `NoPhantomDeals` is stated for one session: over two,
  with two lots, TLC finds an order of one deal that shows two. Its rest stays right
  (`NoPhantomRest`, proved over sessions);
* the response to a create after a line that named its id leaves the user's own
  object in `AcceptingState` (cpp:3212; `CreateAccepted`);
* `ADRPC` keeps sizes in 16 bits, so a frame of more than 65535 bytes is never
  decoded: the decoder is shown only a part of it, again and again
  (ADRPC.cpp:46; `Marshalled`, with the frames of 11 bytes of `Framing.cfg`);
* after the login, blocks that come in the same read as the answer would be dropped
  (cpp:2895; `Receive`); `Framing` assumes that the server waits for the client;
* `m_resendFilters` is set once for the life of the `ADConnection`, so that only the first
  session repeats its filters (cpp:4342; `SendPing`).

## 4. Fairness

* `Orders` (`FairSpec`): user threads go on after the unlock and slots run,
  because the network thread's event loop runs; the server reports closings and
  answers the creates it executed, because that is its protocol. Nothing is assumed about
  answers to changes and removals, about trades, or about users calling.
* `OperationWait` and `OperationLife` (`LifeFairness`): a thread that was woken gets the mutex,
  timeouts run out, and no thread stops within a destructor or a handler; nothing makes a user
  let go of a handle. Nobody has to end the operation, so `Returns` speaks only of waits with a
  timeout and of operations that have a result.
* `HistRequests` (`FairSpec`): the same, and the event loop works on queued
  writes, which may fail, and on answers; the server answers what it
  received. So `ReceivedReturns` speaks of received requests only.
* `Subscription` (`FairSpec`): the thread that subscribed calls again and again,
  timers fire and time passes. Updates and peeks are not fair.
* `QuoteFilters` (`FairSpec`): a server that has a filter goes on sending lines, because
  the market of a paper does not stay still for good; one without filters need not send any
  (`Quotes`). The event loop works on queued writes, which may fail, and the loop over the list
  ends. Nothing is assumed about logins, pings or users.
* `OrderSessions` (`SessionFairness`): user threads go on after the unlock, with or without a
  session; slots run and rows are resumed while the event loop runs. Nothing is assumed about the
  server, and nobody has to connect again.
* `Replica`: within a session the ping timer fires and the network thread reads. A
  session may end before.
* `RemoteCalls`: each process goes on as long as it lives, and the library's functions
  return. Nobody has to call, to load or to unload.

All of it is weak fairness, of single actions or of what one thread does next.

## 5. Proofs

All theorems are of the form `Spec => ...` for arbitrary constants that satisfy
the named assumptions of the modules. These say that bounds are naturals, that special values
are none of the ordinary ones, and that the sets over which the code counts or takes a maximum
(`Subs` of `QuoteFilters`, `Keys` of `Replica`) are finite. `FramingAssumption` is about the
server: its blocks begin with a name and end with a letter, and hold no end of a block. In each
module an inductive invariant is proved first; the properties follow from it.

* **`OrderQuantity_proofs`**: `TypeOK` and `RestBounded` are inductive together.
  The properties about deals need what each stream knows: the rest has reported no more
  than was dealt, and the trades count is what trade lines told while the order was active
  (`StreamsBehindExchange`). That an order retired as executed knows all its deals is kept from
  then on because neither stream takes a lot back, and no deal follows (`ExecutedIsKnown`).

* **`Orders_proofs`** has one section for each of the following.
  - *Results.* `RegistryInv` = `TypeOK` and `PendingIffUnresolved`, with
    what they need: numbers above `reqId` are unused, and each
    calling thread's request has been made.
  - *Keys.* `KeysInv`. That an object is filed once needs that an
    object in the hash is allocated, and that the object of a pending *create* is in no
    hash, because the acceptance files it.
  - *Removals.* `RemovalInv`: without changes (`"change" \notin Kinds`), an
    object in the hash carries the id it is filed under. From this: every way out of the
    active hash finds the operations by that id (`PendingIsOnActive`); a second
    call finds the first operation (`OnePendingPerOrder`); a request names the id
    of its object, so that success is about the order the user meant
    (`RemovalIsReal`). With changes the three are *not* invariant: an object may carry another
    id than its key, and with two changes, or a change and a removal, a line on the old id
    resets it while an operation is pending under the new one.
  - *Finality.* `ClosedInv`: the id of a removal that succeeded is in the inactive hash. That it
    is not active (`CancelledStaysClosed`) says nothing of the lines to come, and is not
    inductive alone: a late line finds the id in neither hash. It rests on the
    invariants above, because a line W ends a removal only by the id in its object, and
    that this id is the one it retires needs `PendingIsOnActive`.
  - *The promise.* Under the same assumption each step of `Orders` is a step
    of `OperationResults` or a stutter, because with one operation per order a
    line ends at most one.
  - *Deals.* `DealsInv`, with changes and for any number of ids: the object filed under an id
    knows by its rest no more than the exchange dealt under that id, and by its trades no more
    than trade lines told; and the object of a pending create knows of no deal, because the
    acceptance files it under an id that may have deals already or none. `NoPhantomDeals` alone
    is not inductive: it says nothing of that object, nor why both ways of counting stay below
    the exchange's when an order moves to another id. The proof is in two parts, with and
    without the trades (`DealsOf`), because only the second survives a login.
  - *Sessions.* A step of `OrderSessions` is a step of `Orders`, a resumed order, a restart, or
    leaves the registry alone but for the callers it releases (`SessionSteps`). So the
    invariants above hold over sessions once the last three kinds of step preserve them. That a
    login puts a new object over one that is filed does not hurt `PendingIsOnActive`, since the
    new object carries the same id. For `OpenRowsAreActive`: a row is open only while its order
    is active, retired or still to be resumed (`RowsInv`), and no handler takes an id out of
    both hashes. `NoPhantomRest` is what is left of `NoPhantomDeals` over sessions: a resumed
    object begins with its whole quantity, and replaces one that knew more.

* **`OperationLife_proofs`**. For the waiting: `TypeOK` plus, for each
  thread, what its place in `waitForOperationResult` says of the state: asleep only without a
  result, woken only with one. For the life (`RefInv`): the count is the number of pointers, of
  threads and of the hash; while it is above 0 nobody was told 0; when it is 0, the operation is
  deleted or exactly one thread is about to. That one thread is what `NotDeletedInUse` lacks to
  be inductive: two destructors that both read 0 would delete twice. `LifeImplementsWait`
  says that `OperationLife` is a behaviour of `OperationWait`, but for its fairness.

* **`HistRequests_proofs`**: as for the waiting above, and that the request
  in the hands of the network thread is neither in the hash nor completed, and that
  numbers above `reqId` are unused.

* **`Subscription_proofs`**: `TypeOK`, `JobsAreDue` and `NewsKept` with two
  auxiliary parts. `Clock`: the delay that remains and the time since the last report add up
  to the minimal delay, which gives `MinDelayKept`. `Alarm`: a sleeper's timer is no later
  than the delay of any paper that still has one, updated or not; it gives
  `NoOversleep`, which is not inductive by itself because an update within the
  delay does not wake the sleeper.

* **`QuoteFilters_proofs`**: `CountsAreSubscribers` and `ServerFollows` are each inductive
  with `TypeOK`, whose part `used \subseteq listed` is not a matter of types: a subscription
  that is dropped is in the list, so that its papers are counted. What the proof of `ServerFollows`
  rests on is the last word of a queue on a key (`LastSays`): appending a write changes it for
  the keys the write has, taking the head off changes it for no key that is written later.

* **`Transport_proofs`**, the two layers that carry bytes.
  - *`RemoteCalls`.* `AnswerIsOwn` says which bytes a side has read, and needs all that
    is under way: `Exchange` names the four moments of a call (`Quiet`, `Asking`, `Working`,
    `Answering`) and says for each which bytes each stream and each side still holds: those of the
    present call, in order, and exactly as many as their reader waits for. While no helper
    runs, nothing is left of an earlier one's bytes (`Lives`). `FileStaysOpen` needs that files
    are open only while the library is loaded (`FileInv`).
  - *`Framing`.* `NothingLost` and `InOrder` say nothing of where in the text the buffer begins,
    and a buffer that began within a block could be cut elsewhere. `StreamInv` says where: the
    buffers and the wire hold the server's text from the first block on that was not handed over
    (`Flow`), and during the login the answer and nothing else (`Login`). From it the two follow.
    That it is kept rests on where a text that begins with a block has ends of blocks: only
    where its blocks end (`EndsAt`), because no block begins or ends with a character of a line
    end. So whatever a read appends, `parseReceivedData` takes the whole blocks and leaves the
    beginning of one more (`ParsePiece`). The decoder decodes a part of what it
    is given, and what it is not given stays in front of what is read next, for any width
    of the size of its argument; its result is taken to be whole (section 6). `Split` and `FlattenSeq` recur over the text; `SplitIs` and `FlattenJoins` prove that
    they have the values their definitions say, by a smallest counterexample among the lengths,
    which needs no induction theorem.

* **`Replica_proofs`**: `NothingElseLost` holds outside a session for another reason than
  within one, and `SafeInv` says both. Nobody is ahead of the server (`Behind`); users see no
  less than what is stored (`InSession`); blocks about one position come in order, and none is
  older than what users see (`InOrder`); and a row that is older than the server's, and was not
  skipped, is newer than every stored row, so that the next filter asks for it, and, once the
  server takes the filter, is on the wire with nothing newer before it (`Sent`, `Coming`). The
  last part is why a store of several blocks that fails in the middle leaves no gap, and why one
  that skips a row does. `PositionsFollow` is `Sent` when the wire is empty.

Proved and not run again: the `TypeOK`s, `ExecutedMonotone`, `TimeoutWasAskedFor`,
`TrueIsCompleted`, `NoPhantomRest` and `LifeImplementsWait`. `NoPhantomDeals`, `OneKeyPerObject`,
`PendingIffUnresolved` and `RemovalIsReal` are run for one session; all of them are also
proved over several, the first for the rest alone.

Only model-checked are the liveness properties (`DecidedResolves`, `CallersReturn`, `Returns`,
`DeletedAtLast`, `ReceivedReturns`, `Delivered`, `ReleasedIsDropped`, `CatchesUp`,
`CallReturns`, `HelperGoes`), which are out of the reach of the prover.

## 6. Not modelled

* **Quote book** (`m_quotes`): written by the network thread alone, one line per critical
  section. What could be wrong, levels that outlive a lost connection (cpp:3011), is listed as a
  hazard.
* **Local library, cryptography, bootstrap, database scripts**: calls into a closed DLL and into
  a platform API, copies of files, generated data: no state whose order of changes matters.
* **Document templates, papers and options, time marks**: pure functions and lookups.
* The wording of messages, logging and statistics; prices; the SQL statements.
* In the modelled components: listeners of the signals, and orders whose paper is not in the
  database (`Orders`); `m_simpleFilter` in `QuoteFilters` (`Replica` has it), and a subscription
  that names a paper in two of its options; decoded text longer than 65535 bytes (`Framing`);
  the HTTPS exchange and certificates before a login; the 64-bit atomics and the other storage
  policies of `ADSmartPtr`; the thread check of `waitForUpdate`, which returns at once.

## 7. Plan

In order of importance, with what each is to state:

1. `NoPhantomDeals` over several sessions: trades with the rows of `AD_TRADES`, so that only
   those that were not committed are told again, and what then holds of the trades (what
   holds of the rest is proved, `NoPhantomRest`).
2. The removal properties with changes: a run that shows how they break, and proofs that they
   hold for orders that are not being changed.
3. `Announcements`: what listeners of `onOrderStateChanged` see, in which order.
4. `QuoteBook`: queue lines, initial queues and sessions; composition with `Subscription`.
5. Pure functions: templates, option pairs, time marks.
