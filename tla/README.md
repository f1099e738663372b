# TLA+ models of libuvcpp

libuvcpp is a C++11 wrapper over libuv (`src/src/<dir>/<file>`; paths below leave
out the first `src/`): event loops and handles, TCP and UDP clients and servers,
an HTTP/1, HTTP/2 and HTTP/3 stack, a web application framework, database and
redis clients. Most of it is sequential code that turns bytes into callbacks. What
is hard to get right, and what these models are about, is the part where threads,
loops and callbacks share state: mailboxes between loops, connections with changing
owners, pools, gates and shutdown.

Run a model with `tlc -workers 2 -config X.cfg M`, the proofs with
`tlapm M.tla` for `LoopWorkerProofs`, `DbPoolProofs`, `WorkLimitProofs`,
`TcpServerProofs` and `DbShardsProofs`.

## Inventory

| component | state | operations and interaction | what is hard | what makes it correct |
|---|---|---|---|---|
| Work loop `src/net/uvcpp_loop_worker.*` | `q_`, `async_`, `stopping_`, the thread, the loop | `start` (promise handshake with the thread), `post` from any thread, `drain` on the async callback, `stop_and_join`, teardown, two hooks of the owner | posting races with stop and teardown; a closure carries resources; two error paths of start | order, barrier at the stop task, no lost wakeup, nothing left behind, every call returns |
| TCP server `src/net/uvcpp_tcp_server.*` | registry `clients_`, worker listeners, `workers_`, callback pointer | accept on the acceptor or fanned out, handoff of sockets through mailboxes, `take_client` / `return_client`, `listen` with rollback, destructor | a connection changes owner between loop, registry and user; snapshots of the registry; listeners that come up late | each connection closed and freed once, by its loop, never under its owner |
| TCP client `src/net/uvcpp_tcp_client.cpp` | status bits, write queue, callback slots, TLS filter | connect, write, shutdown, close, read modes | callbacks that close or delete; order of close and write completions | each callback once, none after close |
| Database pool `src/db/uvcpp_db_pool.*` | `owned_`, `idle_`, `opening_`, `closed_`, `url_`, `work_in_flight` | borrow and return from threads, jobs on the libuv pool, `init`, `close`, destructor | the lock is dropped for `ping` and `open`; wakeups; closing and re-initialising in use; destructor against jobs | ownership, limit, no lost wakeup, no stale connection, destructor returns |
| Native queries `src/db/uvcpp_db_pool.cpp`, `uvcpp_db_pgsql.cpp` | one shard per loop: connections, free ones, waiting jobs, a `uv_async`; one task per query with a poll handle and a timer | submit from any thread, wake the loop, drain its queue, complete, hand spare connections to siblings, `detach_loop`, `close`, destructor | the lock is dropped for `open`; the wakeup handle is made on the loop by a detour; a query that timed out still answers; raw pointers in requests under way | one query per connection, no reuse of a connection that owes an answer, every query answered, nothing freed under a loop |
| Database facade `src/db/uvcpp_db_async.cpp` | one query on a poll handle | submit, cancel, complete | destruction inside a completion | one completion per query |
| Admission gate `src/webapp/uvcpp_web_work_limit.*` | `in_flight_`, `wakeups_`, `notifying_`, `notify_again_` | `acquire`, `release`, `release_deferred`, `dispatch_wakeups` | check and registration are two steps; nested dispatch; two kinds of threads | slots counted right, no waiter forgotten, dispatch ends |
| File transfer `src/webapp/uvcpp_web_file.cpp` | `state_`, `gate_held_`, `gate_wakeup_`, file position | read in slices, pause and resume, cancel | pause without an operation under way; callbacks on the same stack | slot returned on every path |
| Static files `src/webapp/uvcpp_web_static.cpp` | cache, jobs | probe and read on pool threads, answer on the loop | slot returned on one thread, dispatch on another | as for the gate |
| Web application `src/webapp/uvcpp_web_app.cpp` | per-loop tables, requests in flight | start, route, drain, stop | shutdown over n loops while requests run | every request answered or cut, stop returns |
| HTTP server and client, WebSocket `src/web/` | contexts per connection, keep-alive, client pool | parse, dispatch, timeouts, upgrade, closing handshake | pipelining, timeout against late answer, closing from both sides | one answer per request in order |
| Redis client `src/redis/` | pipeline of pending commands | send, reply, disconnect | replies after a disconnect | replies match commands |
| HTTP/2, gRPC, QUIC, HTTP/3 | streams, sessions | plumbing around nghttp2, ngtcp2, nghttp3 | stream life against session life | no callback after close |
| Memory pool `src/expand/` | thread caches, central lists, page spans | allocate, free, move spans | concurrent central lists | a block has one owner |
| Handles, requests `src/handle`, `src/req`, `src/uvcpp` | one C++ object per libuv object | init, close, callbacks | close is asynchronous | freed after the close callback |
| TLS, SOAP/WSDL, JSON, C interface | library state, conversions | forwarding | none between actors | outside this project |

How they interact: the TCP server owns n-1 work loops and posts accepted sockets
to them; the HTTP server and the web application hang their per-loop tables on
the start and exit hooks of the same loops. File transfers, uploads and static
files share the gate. Database jobs run on libuv's thread pool and borrow from
the pool with the same calls the users make.

`PROJECT.json` lists the components with their status, and the hazards at the
lines where they bite.

## Plan

Modules in order of importance. The first five exist.

1. `LoopWorker` with the abstract `Mailbox` and `LoopWorkerProofs`: modelled,
   checked, proved.
2. `DbPool` with the abstract `Leases` and `DbPoolProofs`: modelled, checked, proved.
3. `WorkLimit` with `WorkLimitProofs`: modelled, checked, proved.
4. `TcpServer` with `TcpServerProofs`: modelled, checked, proved.
5. `DbShards`, which implements `Leases` too, with `DbShardsProofs`: modelled,
   checked, proved.
6. The lifecycle of the web application over several loops (which brings the
   second loop into `WorkLimit`), the redis pipeline, the closing handshake of a
   WebSocket, the write queue of the TCP client, the central cache of the memory
   pool, in this order.

Abstract specifications worth stating: `Mailbox` (done); a pool as a set of
`Leases` (done); a connection registry as a map to owners.

## Modules

### Mailbox and LoopWorker

`Mailbox` says what the header of the work loop promises: accepted closures are one
sequence, a prefix of it is executed, the stop closure ends execution, closing drops
the rest.

`LoopWorker` is the code. Threads: the owner (`owner`), any number of posters and
the worker (`worker` is its program counter through `thread_main`, `drain` and
`teardown_loop`). `q`, `batch`, `async`, `stopping`, `mu` are the members of the
class and the local deque of `drain()`; `sent` is libuv's pending flag of the async
handle; `uvStop` is the stop flag of the loop. `log` and `ran` are history: what
went into the mailbox and what was called.

| action | code |
|---|---|
| `Start`, `StopRequest`, `Join`, `Destroy` | `start`, `stop_and_join` before and after the join, destructor |
| `PostRefused`, `PostCheck`, `PostPush` | `post` from another thread, split where it reads `stopping_` (the worker writes it without the lock) |
| `SelfPost` | `post` from a task or a hook |
| `InitAsync` ... `StartHookThrows` | `thread_main` up to `uv_run`, with both error paths |
| `Wake`, `Swap`, `BeginTask`, `EndTask`, `RunStop`, `EndDrain` | the async callback and `drain` |
| `LeaveLoop`, `ExitHookReturns`, `Detach`, `CloseLoop` | the way out |

A closure is a model value. Each is posted at most once; closures are told apart
and otherwise have no content. A throwing task is the same step as one that
returns, since `drain` catches it.

### Leases and DbPool

`Leases` says what the header of the pool promises whoever uses one of its
connections: it is his alone and stays alive until he gives it back, and he has one at
a time. `have` are the connections that are alive, `lent` who uses which; what is not
lent the pool opens and frees as it likes. Under `DbPool` a lease is a thread with a
connection in its hands, under `DbShards` a query that was taken up.

`DbPool` is the code. `owned`, `idle`, `opening`, `closed`, `url` are the members of
the pool. A connection is a pair of an address and the number of the `init` whose
url it was opened with, so a stale one can be recognised. `pc` says where a thread
is in `acquire` (`head`: at the top of the loop with the lock; `check` and
`opening`: lock dropped for `ping` and `open`; `asleep`, `woken`, `late`: in the
wait; `held`: borrowed). Jobs are threads that are counted in by `Submit` and out by
`Leave`. One administrating thread calls `init`, `close`, `close_idle` and the
destructor; `init` is split where it drops the lock. Closing and waking are one
step: the code notifies after unlocking, and a thread that goes to sleep in between
gets at most a wakeup more than in the model.

`Faults` selects what may fail outside (`open`, `ping`, `uv_queue_work`, spurious
wakeups); `SharedInit` says whether `init` may overlap with use. Which idle
connections are old enough to be pruned is left to chance.

### WorkLimit

The loop thread is one thread of control: `loop` is its position, `notifying` and
`outer` are the frames below it, `cur` is the transfer whose `submit_read` runs.
Every access to the atomic counter and every access to the locked table is a step
of its own, as in the code; jobs on pool threads interleave between any two.
`behind` is history: the transfers that were in the table when a slot came back.

### TcpServer

The subject is who owns a connection. `conn` gives for each one its loop (`home`),
what stands for it (`obj`: nothing, a bare socket on its way, a client, a deleted
client), its handle, whose callback the handle will call when it is closed (`slot`),
and whether the close manager that deletes the client is installed (`mgr`). `reg` is
`clients_`; `mine` are the clients the user has taken and not given back. `shut`
counts how often the socket was closed.

Threads: the caller's thread runs the acceptor's loop and the server's API calls,
every work loop has its own. A callback is one step, with the user's code it calls.
`close_clients_of_loop()` walks a copy of the registry while other loops change it,
so it is `BeginScan` and one `ScanClient` per element; `take_client()` on a foreign
thread has two halves. A work loop is taken as what `LoopWorker` shows it to be: a
mailbox in order of acceptance that drops what is behind the stop task, then the
exit hook, then a pump for close callbacks.

| action | code |
|---|---|
| `Listen`, `AskWorker`, `WorkerAnswers`, `AnswerTimesOut`, `ListenGivesUp`, `ListenReturns` | `listen`, `start_worker_listeners` with its five seconds and its rollback |
| `Accept`, `AcceptAndHandoff`, `HandoffTask`, `HandoffRefused`, `HandshakeDone` | `accept_on_loop`, `accept_and_handoff`, `on_handoff_task`, `finish_accept`, `on_tls_handshake_done` |
| `ListenTask`, `UnlistenTask`, `CloseAllTask`, `StopTask` | the closures posted to a work loop |
| `PeerGone`, `CloseClient`, `CloseHandle`, `CloseDone` | a read that ends or a handshake that fails, with the read callback and `fire_close_callbacks`; `close`; `get_tcp()->close`; the close callback with what it fires |
| `TakeClient`, `ReturnClient`, `ReturnDead`, `UserDeletes` | `take_client`, `return_client`, the owner's own `delete` |
| `CloseAll`, `ScanClient`, `AcceptorScanned`, `WorkerScanned`, `StopServer` | `close_all_clients`, `close_clients_of_loop`, `stop` |
| `BeginDestroy`, `StopWorker`, `WorkerJoined`, `ExitHook`, `WorkerEnds`, `Destroy` | the destructor, `stop_workers`, the exit hook, the end of the work loop |

What `on_connection` does with its client is one of `Answers`: keep it, close it,
take it, throw, take it and throw, or close it and throw. `Delivered` follows what
`close_client_on_callback_error()` then does (`ErrorClosed`): it closes without asking
`is_closing()`, so `shut` can become 2. Whether the kernel spreads connections (`fan`)
and whether there is a TLS context (`tls`) is chosen at the start.

The user's code also runs when a connection ends. `PeerGone` calls the read callback
and then the close callbacks, `CloseDone` the close callbacks; in each the user may do
one of `Reactions`: look, `close()`, `get_tcp()->close()`, `take_client()`. `Reacted` is
what that does to the client, `Fires` is `fire_close_callbacks()`: the manager is copied
out of its slot first, then `on_close` and the observers run, then the copy deletes the
client, whatever they did. `TakeClient` is one step on the client's own loop and two on
any other thread, `erase` from the registry under the lock and `clear` of the manager
without it; `taker` marks a client between the two.

In seven cases the code breaks a property, and `May` selects which of them happen:

| case | what happens |
|---|---|
| `closeThrow` | `on_connection` closes its client and then throws |
| `closeInside` | `close()` in the read callback that hears of the end, in `on_close` or an observer, of a client the server still manages |
| `takeInside` | `take_client()` in `on_close` or an observer |
| `takeAnywhere` | `take_client()` on a thread that is not the client's loop |
| `lateTake` | `take_client()` of a client whose `on_connection` threw |
| `returnClosing` | `return_client()` of a client whose `close()` is under way |
| `timeoutClosing` | the handshake timer fires while the handle is being closed |

They are not misuse: `closeThrow` and `closeInside` are ordinary code, comments or
guides invite `takeInside` and `takeAnywhere`, `return_client()` accepts a `CLOSING`
client, nothing forbids `lateTake`, and the timer is the server's own. They are cases of
their own so that the properties can be checked and proved for everything else, each
theorem without the cases that break it and with all others. `tcp_server` has `May =
{}`, `tcp_server_take` has `takeInside`; *Known limits* says what the other cases break.

### DbShards

The native path of the pool, for drivers that can query without a thread. Every loop
has a shard: `conns`, `free`, `pending`, and `shard` for the state of its `uv_async`
(`none`, `cold`: no wakeup handle yet, `booting`: being made, `ready`, `detached`).
`at` is where the loop's thread is: in the poll, at the head of `drain_shard`'s
`for`, inside `open` with the lock dropped, about to send, or on its way out; `done`
is the job whose completion is below that frame. `caller` are threads between the two
critical sections of `submit_native` and `wake_shard`. `query` are the tasks of the
driver, with how they end; `dirty` is history: connections whose server still works
on a query.

| action | code |
|---|---|
| `Submit`, `WakeShard`, `BootRefused` | `submit_native`, `wake_shard` |
| `Bootstrap`, `OnWake` | `on_bootstrap`, `wake_cb` with `on_wake` |
| `DrainFree`, `DrainIdle`, `DrainOpens`, `OpenDone`, `OpenFails`, `DrainEnds` | `drain_shard`, one action per way it gets a connection or leaves |
| `Sent`, `NotSent` | `start_native` with `pg_async_task::send` |
| `ResultsRead`, `ConnectionLost`, `TimesOut` | `pg_async_task`: `drain_results`, `on_io`, `on_timeout`; the first one counts (`finishing_`) |
| `Complete`, `Leave` | `on_async_done` before and after its own `drain_shard` |
| `Close`, `CloseShard`, `CloseReturns`, `Detach`, `BeginDestroy`, `Destroy` | `close`, `detach_loop`, `wind_down`, `~impl` |

Submissions come on the loop's thread, where the queue is drained at once, or on
another. Each query is for one loop (`Home`). Synchronous borrowing is left out here:
nobody takes a connection out of `idle_` for longer than the lock is held.

A query that is handed to the driver can end before it returns to the poll. `SendEnds`
lists how: it goes out (`wait`); the connection turns out broken (`lost`); or libpq
refuses it or `uv_poll_start()` fails, which are both `EXEC_FAILED` and keep the
connection. After a refusal the connection is clean, after the other one the server
still works on it. The latter needs `"poll"` in `Faults`; it breaks `CleanReuse`, so the
run leaves that one fault out. `May` lists three things callers may do that break
properties: closing while a loop opens (`closeOpening`, the finding below), destroying
an open pool (`destroyOpen`) and destroying it while a loop is in its code without a job
that counts (`destroyBusy`).

## Runs

| run | instance | states | shows |
|---|---|---|---|
| `loop_worker` | 2 posters, 4 tasks, 2 starts | 97,455 | order, barrier, wakeups, nothing left, refinement of `Mailbox`; `start` returns; for the first thread `stop_and_join` returns and every task settles |
| `loop_worker_restart` | 1 poster, 1 task, 2 starts | | violated: the second stop hangs |
| `db_pool` | 2 users, 1 job, 3 addresses, min 1, max 2, 2 inits, faults | 382,686 | ownership, refinement of `Leases`, reservations, destructor |
| `db_pool_use` | 3 users, 1 job, min 1, max 2, 2 inits, no failures | 55,388 | limit, current url, lost wakeups, starvation |
| `db_pool_failed_open` | 2 users, max 1 | | violated: a failed open wakes nobody |
| `db_pool_reinit` | 2 users, 2 inits | | violated: a stale connection is lent again |
| `work_limit` | 2 transfers, 2 jobs, limits 1 and 2, 1 change | 48,199 | slots, no waiter forgotten, dispatch ends |
| `work_limit_missed` | 1 transfer, 1 job, limit 1 | | violated: a registration that comes too late |
| `tcp_server` | 2 work loops, 2 connections, 1 sweep, `May = {}` | 1,734,118 (symmetry) | owner, closing, way out, what is left, failed `listen` |
| `tcp_server_take` | 1 work loop, 1 connection, `takeInside` | | violated: a client taken in `on_close` is deleted |
| `db_shards` | 2 loops, 3 queries (2 for one loop), 2 addresses, min 1, max 2, all faults but `poll`, `May = {}` | 257,774 | one query per connection, refinement of `Leases`, clean reuse, the count, pointers, every query answered |
| `db_shards_close` | the same, `close` while a loop opens | | violated: front of an empty queue |

Bounds. In `LoopWorker` four tasks are enough for a batch with tasks before and
behind the stop task while another is being pushed and one is self-posted; two
posters make the lock matter; two starts show what one thread leaves to the next.
The safety theorems hold without these bounds. In `DbPool` max 2 with three users
and a job has borrowers, an opener and sleepers at once; three addresses allow two
owned connections and one that replaces them; two inits make a connection of the old
generation meet the new one. In `WorkLimit` two transfers and two jobs give a nested
dispatch (one callback fails to start its read while another waits) and a deferred
one at the same time; limits 1 and 2 and a change cover a gate that becomes tighter
than its use. In `TcpServer` two work loops give a listener that came up next to one
that did not, a snapshot with a client of another loop, and a work loop that is
already gone while the other one runs; two connections let one be closed while
another is still in a mailbox behind it. One sweep is enough for a sweep to meet a
sweep, since every exit hook is one. The theorems hold for any numbers. In `DbShards`
two queries for one loop make one wait while the other is sent or opened for, and
make the loop keep one connection and give another back; the third one is the
sibling that waits for it. With max 2 the pool is full when both loops have a
connection, so every way out of `drain_shard` occurs.

Deadlock is checked in the database runs and in `tcp_server`. It is not in `loop_worker`
and `loop_worker_restart`, where a restarted worker really blocks for ever (the finding),
nor in `WorkLimit`, whose transfers and jobs simply end.

Fairness. Threads that can run do (weak fairness of the worker's steps, of a thread
inside `acquire`, of `init` once called). A poster inside `post` finishes it. Nobody
is obliged to post, to stop, to borrow or to destroy. In `DbPool`, `open`, `ping`
and a query return and a borrower gives back; deadlines pass. In `WorkLimit` a read
under way completes and libuv delivers completions that are ready again and again
(strong fairness of `ReadDone` and `AfterWork`: the loop is often busy, so they are
not enabled all the time). In `DbShards` threads inside a call go on, loops run what
is due on them, and a query ends: `send` starts a timer for it (five seconds and
one, if the client's timeout was not set to 0), so `on_timeout` ends it if nothing
else does. Nobody has to submit, close or destroy. `TcpServer` has no liveness
property: its progress is that of `LoopWorker`.

## What the violations show

* **A stopped work loop cannot be restarted.** `stopping_` stays set. `start()`
  succeeds, `post()` refuses everything and the next `stop_and_join()` joins a loop
  nobody stops. No caller in this repository restarts a worker.
* **A failed `open()` frees its place silently.** `open_into_locked` takes
  `opening_` back and does not notify; sleepers find out by their timeout or not
  at all.
* **A stale connection comes back after a second `init`.** `put_back_locked` only
  asks whether the pool is closed now.
* **A transfer may register too late.** `acquire()` and `add_wakeup()` are two
  steps; the last job in flight can return its slot in between.
* **`close()` races with `drain_shard()`.** The loop opens a connection without the
  lock and takes `pending.front()` afterwards, while `close()` on another thread has
  failed everything that waited.
* **A client taken in `on_close` is deleted under its owner.** `fire_close_callbacks()`
  copies the manager before it runs `on_close`, and calls the copy afterwards although
  `take_client()` cleared the slot. The comments in both headers send a user who wants to
  keep a client to `take_client()`, one of them next to `on_close`.

Seen while modelling, without a run of their own: a woken sleeper does not look at
`closed_` again although the comment in `acquire_locked` says so, and `acquire(-1)`
can sleep on after `close()`; `put_back_locked` wakes one sleeper, and if that one
finds its deadline passed when it holds the lock again it reports a timeout without
looking at `idle_`, so another sleeper goes on sleeping beside the connection
(`NoLostWakeup` fails when `"timed"` is added to `Patience` in `MCDbPoolLive.cfg`);
after a failed `init` the connections already opened stay in the pool; `owned_` can
exceed `max` when `init` overlaps with use (which is why `Cap` is checked and proved
where `init` has the pool to itself; `NothingOutlivesClose` only needs that no
`open` fails, and is proved for both); closures that a failed start leaves in the
mailbox stay until the object dies or the next thread drains them.

## Known limits

What the cases of `May` and the fault `poll` break, found by adding them to the constants
of a run. In `TcpServer`:

* `closeThrow`: `close_client_on_callback_error()` closes the handle a second time and
  replaces its callback (`SocketClosedOnce`). `finish_accept()` names closing inside
  `on_connection` as ordinary use, and what it throws is caught.
* `closeInside`: the completion of `close()` has captured the client, and the manager
  deletes the client before it runs (`CallbackFindsClient`). `arm_async_read()` asks only
  whether the client still exists, not whether it is closing.
* `takeInside`: the finding above (`TakenIsLeftAlone`, `OneOwner`, `WayOut`).
* `takeAnywhere`: between the two halves of `take_client()` the client's own loop still
  finds the manager and deletes the client; the manager is then cleared in freed memory
  and the user is given what is gone (`OneOwner`, `WayOut`). The documentation disagrees
  with itself: `uvcpp_tcp_server.h:278-280` and `doc/net-guide.md:305` call `take_client`
  and `return_client` right from any thread, the `@warning` in the comment of
  `take_client` and `net-guide.md:619` ask for the client's loop. `tcp_server` and the
  theorems `Owned` and `CanLeave` take the side of the warning; `return_client()` on a
  foreign thread, which would install a manager while the client's loop runs, is not
  modelled.
* `lateTake`: a client whose `on_connection` threw stays registered until its close
  callback, which deletes it, whoever took it meanwhile (`WayOut`, `OneOwner`).
* `returnClosing`: `return_client()` takes a client for dead when it is `CLOSING` and
  deletes it; the completion of its own `close()` has captured it
  (`CallbackFindsClient` fails in six steps).
* `timeoutClosing`: `tls_fail()` does not ask whether the handle is being closed and
  lets the manager delete the client before the completion of `close()` runs
  (`CallbackFindsClient`).

After a step that is undefined behaviour in the code (a second `uv_close`, the use of a
deleted client) the model goes on as if it had done no further harm. A theorem that
admits such a case therefore says that its property is not broken by the case itself,
not that the program survives it. One thing of this kind is left out: `tls_fail()` does
not ask whether the client still exists after its read callback, so a callback that
takes and deletes its client there is not modelled.

In `DbShards`:

* `poll`: `uv_poll_start()` fails after the query went out. `send()` ends it with
  `EXEC_FAILED`, `on_async_done()` retires a connection only when it is not connected, so
  one whose server owes an answer is free again (`CleanReuse` fails in eight steps).
* `destroyOpen`: the header says the destructor closes the pool, but `wind_down()` does
  not fail what waits; it waits itself, for ever if the loops no longer run
  (`EveryJobSettles`).
* `destroyBusy`: the request that makes a loop's `uv_async` and a thread inside
  `drain_shard` without a completion are not counted in `work_in_flight`
  (`PointersHold`).

Further limits, of the code and not of one schedule: with `max` below the number of
loops a loop can wait for a connection that another keeps free for itself
(`kKeepFree`), for ever if that loop has nothing more to do; `release()` and
`discard()` of a borrowed connection wake no shard; `uv_async_send` outside the lock
may meet a `detach_loop()` of the same loop; `close()` walks plain shard pointers
after unlocking and answers what waited on the closing thread, though the header says
callbacks come on the loop's; connections in a shard survive `close()` and a new
`init()` with the url of the old one; `close_clients_of_loop()` reads the loop of
clients other loops may have deleted since the snapshot; `stop()` closes the
acceptor's listener only; a client whose handle its user closes directly just before
its work loop ends stays registered, as `NothingLeft` says. Of these, what concerns
`release()` is outside the model, which has no borrower.

## Properties and their limits

`NoLostWakeup` of `LoopWorker` is stated for the first thread of an object: the
second one may inherit closures from a failed start without a wakeup. `EveryTaskSettles`
and `FirstStopReturns` speak of the first thread too, since the second stop hangs.
`ExitHookAfterTasks` excludes the error path of `start`, which does not drain.
`Fifo` has no run of its own: `Implements` implies it, since `Mailbox` executes a
prefix of what it accepted; it is stated and proved because `Ledger` rests on it.
`ReleaseSeesWaiters` speaks of waiters that were registered when a slot came back;
that one may register afterwards is the finding above. `PoolServes` needs an
environment in which connections can be opened: with failing opens the finding of
`db_pool_failed_open` breaks it.

`NothingLeft` has one stated exception and `EveryJobSettles` two conditions on the
instance (a place for every loop, nobody borrowing). The properties of `TcpServer`
hold without the cases of `May` that break them (*Known limits*): `SocketClosedOnce`
without `closeThrow`; `OneOwner` and `WayOut` without `takeInside`, `takeAnywhere`,
`lateTake`; `CallbackFindsClient` without `closeInside`, `returnClosing`,
`timeoutClosing`; `NothingLeft` and `FailedListenCleansUp` in all of them.
`TakenIsLeftAlone` is the part of `OneOwner` that the comment of `take_client()`
promises. The properties of `DbShards` hold for `May = {}`, and `CleanReuse` besides
only if `uv_poll_start()` does not fail.

## Proofs

`LoopWorkerProofs` proves the safety properties of `loop_worker` for any sets of
posters and tasks and any bound on starts, from the assumptions named in
`LoopWorker`: `Stop` and `NoTask` are no tasks and differ, `Nobody` is no poster,
the bound is a natural number. `WorkLimitProofs` assumes that `NoTransfer` is no
transfer, that transfers and jobs are finitely many and that limits are naturals.

The inductive invariant is `IInv == TypeOK /\ Places /\ Gate /\ Ledger /\
FirstThread`. The properties are not inductive as they stand. `Places` ties the
positions of owner and worker to the handles they own (which handle exists where,
when a join is possible). `Gate` says what follows from the shut gate: the stop task
has run and is the last that ran. `Ledger` is the heart: what has run, what is in
the batch and what is in the queue are consecutive pieces of `log`, as long as the
gate is open; once it is shut only the prefix matters. `FirstThread` adds what holds
before any restart: no closure waits in the queue without a wakeup. The proof takes
one step per action and one per conjunct the action can disturb; the refinement
reuses `IInv` to show that `BeginTask` and `RunStop` execute exactly the next
accepted closure and that every other action is `Accept`, `Open`, `Close` or a
stutter.

`WorkLimitProofs` proves types, `NoSlotLeak` and `ReleaseSeesWaiters` for any finite
sets of transfers and jobs, any limits and any number of changes. `NoSlotLeak` needs
`Frames`: what the frames on the loop's stack know of their transfer (one that is
about to acquire is not reading; one whose completion is under everything else is
delivering), so that every step moves at most one reader in or out of a finite set.
`ReleaseSeesWaiters` needs more than the flag `notifying`: a dispatch on the stack
counts only if everybody who waited at a release is still in its snapshot, or it was
told to go round again, or its snapshot is yet to be taken (`WillSee`). With a job
that owes a look (`WillLook`) this is inductive, since an empty gate is never full
and every step that could end the look finds the table empty.

`TcpServerProofs` proves all seven properties of `tcp_server` for any sets of work
loops and connections and any number of sweeps, from the assumption that the
acceptor and `NoWorker` are no work loops. `TypeOK`, `NothingLeft` and
`FailedListenCleansUp` are proved whatever `May` is, the others for every `May`
without the cases listed above for them. The inductive invariant is `IInv == TypeOK
/\ AllSound /\ InTransit /\ ExitHookWorks /\ AllGone` and holds for every `May`.
`AllSound` says of each connection how object, handle, slot, manager and owner go
together (`Sound`): a bare socket has neither handle nor manager, a live client
always has a handle, an open handle belongs to a live client and has no close
callback yet, what is registered is alive and has its way out. Three conjuncts of
`Sound` are guarded by the cases that break them (`ClosesOnce`, `TakesForGood`,
`DeletesLast`). `InTransit`: a connection is in at most one mailbox message, of its
home, exactly while it is a bare socket. `ExitHookWorks`: a loop past its exit hook
has no listener, and what is registered there and not yet in the snapshot's rest is
closing or closed. `AllGone` is the same for the destroyed server. `OneOwner` and
`WayOut` need each other: a release takes a client out of the registry only because
the manager says it is there. `FailedListenCleansUp` has an invariant of its own,
`ListenInv`: before the destructor no work loop is told to stop, and once the server
gave up there is, for every work loop that listens or has a listen task in its
mailbox, an unlisten task behind it.

`DbPoolProofs` proves the eight invariants of `db_pool` and `db_pool_use` for any
finite sets of users, jobs and addresses, any sizes `MinSize <= MaxSize`, `MaxSize`
positive, and any number of `init`s. For types, `OnePlace`, `Reservations` and
`NoJobOutlivesPool` nothing else is assumed: every fault may happen and `init` may
overlap with use. Their invariant adds `Positions` (users and jobs have positions of
their own, and `inFlight` is the number of jobs on their way) and `Administrator`
(what the administrating thread knows: it still has connections to open while it
fills the pool; it winds down a closed pool in which no user is; when the pool is gone
everybody has left), because a count
only stays right if the step that changes it is taken by a thread that was counted.
The others rest on what their runs assume too:

* `Cap` and `OnlyCurrentUrl` on `~SharedInit`. `Alone` says that `init` then meets
  nobody and that what it has opened and has yet to open is at most `MinSize`;
  `Current` that every borrower and opener of an open pool uses its url.
* `NothingOutlivesClose` on `open` not failing, since the finding of a failed `init`
  leaves connections behind. `Swept` says that a closed pool has no idle connections:
  `close` empties `idle_` and `put_back_locked` does not fill it again; only a pool
  that is being destroyed closes first and lets go of them later.
* `NoLostWakeup` on `~SharedInit`, on `open` not failing and on nobody waiting with a
  deadline (see *What the violations show*). The argument is a count, `Watched`: while
  somebody sleeps in an open pool at least `MaxSize` threads hold, check or open a
  connection or are awake in front of one. A thread falls asleep only at the limit,
  when nothing is idle, and then the connections and reservations belong one to one to
  busy threads (this needs `OnePlace`); a thread that stops being busy either frees a
  place and wakes one sleeper, who takes over its part of the count, or everybody. The
  last two conditions are needed for the code, not for the proof: a failed `open` and a
  sleeper whose deadline passes as it is notified give a place up and wake nobody.

That borrowing implements `Leases` again assumes nothing. A step changes what one
thread has at most: the connection taken from `idle_` or just opened is nobody else's
because `OnePlace` holds after the step, and whatever `close`, pruning or another `init`
frees, what is lent afterwards is owned, again by `OnePlace`. `MovesTo` does the rest:
whoever is only woken keeps what he has.

`DbShardsProofs` proves the five invariants of `db_shards`, and `Leases`, for any
finite sets of loops, queries and addresses, any sizes and all faults, from `May =
{}`; for `CleanReuse` one fault is excluded, `poll`. The invariant ties four views
of the same queries together. `Accounted`: a query that is not over waits at its
home loop, is on a connection of that loop or is being completed there, and only one
of these, so `work_in_flight` is the number of queries not over through every way to
fail a queue. `OneUse`, in `Claims`: connection by connection, free, in use and idle
exclude each other, and `owned_` is what is idle or claimed. `Owed`: a server that
still works is that of a query that waits or was given up (this part is conditional
on `"poll" \notin Faults`), so a connection comes back to `free` or `idle_` only
after the answer. `Manned`: a loop is in the pool's code, has a wakeup under way or
a query only while its shard is ready, an opening loop has a job in front and an
open pool, and in a pool that winds down every loop inside is completing a job that
counts. `OneUse` needs `Manned` (the new connection is for a job that exists),
`Manned` needs `Accounted` (no work in flight means no query anywhere), and
`CleanReuse` and `PointersHold` follow from the whole. `Leases` follows with little
more: no two queries share a job (`Accounted`) or a connection (`Claims`), and a
query's connection is owned, since a pool that is gone has no queries left. `May =
{}` is used only for `Manned`: each of its cases is one of the ways the code relies
on its callers (*Known limits* and the last finding).

Only model-checked: all liveness (`EveryJobSettles`, `EveryTaskSettles`,
`StartReturns`, `FirstStopReturns`, `DestroyReturns`, `PoolServes`, `WaiterIsCalled`,
`DispatchEnds`), which is beyond the proof system.

## Not modelled

Besides the components without a module: memory ordering of the relaxed atomics of
the gate (every access is taken as sequentially consistent; the counter and the
table are still read in separate steps), exceptions from allocation, the content of
tasks, queries and files, and time (deadlines pass at any moment). Protocol parsers
and codecs are conversions of bytes and stay with the repository's tests.
