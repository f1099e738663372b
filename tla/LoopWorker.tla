----------------------------- MODULE LoopWorker -----------------------------
(***************************************************************************)
(* One work loop of src/net/uvcpp_loop_worker.cpp: a libuv loop, the       *)
(* thread that runs it, and the mailbox other threads post tasks into.     *)
(*                                                                         *)
(* Threads.  The owner calls start(), stop_and_join() and the destructor;  *)
(* the posters call post(); the worker is the thread started by start().   *)
(* Only post() is split at the lock: it reads the stopping_ flag that the  *)
(* worker sets without the lock.  A critical section that no unlocked      *)
(* write can disturb is one step.                                          *)
(***************************************************************************)
EXTENDS Naturals, Sequences, Functions

CONSTANTS
  Task,      \* closures that may be posted, each at most once
  Stop,      \* the closure stop_and_join() posts
  NoTask,    \* "this thread is not inside post()"
  Poster,    \* threads other than the owner and the worker
  Nobody,    \* mu_ is free
  MaxStarts  \* bound on successful thread creations by start()

ASSUME TaskAssumption == Stop \notin Task /\ NoTask \notin Task \cup {Stop}
ASSUME PosterAssumption == Nobody \notin Poster
ASSUME BoundAssumption == MaxStarts \in Nat

VARIABLES
  owner,     \* where the owner is: "idle", "starting", "joining", "gone"
  joinable,  \* thread_.joinable()
  worker,    \* where the worker thread is
  failed,    \* start() is on its error path: the start hook threw
  final,     \* uv_run has returned: the drain under way is the last one
  loop,      \* loop_ is an initialised loop
  async,     \* async_ is not null
  sent,      \* uv_async_send was called and the callback has not started
  uvStop,    \* uv_stop was called on the loop
  stopping,  \* stopping_
  mu,        \* holder of mu_ among the posters
  posting,   \* [Poster -> the closure it is about to push, or NoTask]
  q,         \* q_
  batch,     \* drain()'s local deque
  refused,   \* closures post() destroyed on the spot
  starts,    \* threads created so far
  log,       \* history: what was pushed into q_, in order
  ran        \* history: what drain() called, in order

owners  == <<owner, joinable, starts>>
threads == <<worker, failed, final>>
handles == <<loop, async, sent, uvStop>>
boxes   == <<q, batch>>
history == <<log, ran>>
posts   == <<mu, posting, refused>>
vars    == <<owners, threads, handles, stopping, posts, boxes, history>>

\* Closures the program still holds and has not handed to post().
Fresh == Task \ (Range(log) \cup refused \cup Range(posting))

\* The places where code of the owner runs on the worker thread and may post:
\* a task's body and the two hooks.
UserCode == {"startHook", "body", "exitHook"}

WorkerAt == {"none", "init", "poll", "drain", "run", "detach", "close", "done"}
              \cup UserCode

Init ==
  /\ owner = "idle" /\ joinable = FALSE /\ starts = 0
  /\ worker = "none" /\ failed = FALSE /\ final = FALSE
  /\ loop = FALSE /\ async = FALSE /\ sent = FALSE /\ uvStop = FALSE
  /\ stopping = FALSE
  /\ mu = Nobody /\ posting = [p \in Poster |-> NoTask] /\ refused = {}
  /\ q = << >> /\ batch = << >>
  /\ log = << >> /\ ran = << >>

-----------------------------------------------------------------------------
(* The owner. *)

\* start(): refused with UV_EALREADY while the old thread is joinable (no
\* state changes then); otherwise a thread is created and start() blocks on
\* the promise.
Start ==
  /\ owner = "idle" /\ ~joinable /\ starts < MaxStarts
  /\ owner' = "starting" /\ joinable' = TRUE /\ starts' = starts + 1
  /\ worker' = "init" /\ failed' = FALSE /\ final' = FALSE
  /\ loop' = TRUE
  /\ UNCHANGED <<async, sent, uvStop, stopping, posts, boxes, history>>

\* Faulty: the stop task goes into the mailbox, nobody wakes the loop.
StopRequestNoSend ==
  /\ owner = "idle" /\ joinable
  /\ mu = Nobody
  /\ owner' = "joining"
  /\ IF async /\ ~stopping
     THEN q' = Append(q, Stop) /\ log' = Append(log, Stop)
     ELSE UNCHANGED <<q, log>>
  /\ UNCHANGED <<joinable, starts, threads, handles, stopping, posts, batch, ran>>

\* stop_and_join() up to join(): the stop task goes behind everything already
\* accepted.  With async_ null or stopping_ set there is nobody to tell.
StopRequest ==
  /\ owner = "idle" /\ joinable
  /\ mu = Nobody
  /\ owner' = "joining"
  /\ IF async /\ ~stopping
     THEN q' = Append(q, Stop) /\ log' = Append(log, Stop) /\ sent' = TRUE
     ELSE UNCHANGED <<q, log, sent>>
  /\ UNCHANGED <<joinable, starts, threads, loop, async, uvStop, stopping,
                 posts, batch, ran>>

\* thread_.join() returns.
Join ==
  /\ owner = "joining" /\ worker = "done"
  /\ owner' = "idle" /\ joinable' = FALSE
  /\ worker' = "none"
  /\ UNCHANGED <<starts, failed, final, handles, stopping, posts, boxes, history>>

\* The rest of the destructor, once its stop_and_join() has returned: the
\* members go, and with q_ every closure left in it.
Destroy ==
  /\ owner = "idle" /\ ~joinable
  /\ owner' = "gone" /\ loop' = FALSE
  /\ q' = << >>
  /\ UNCHANGED <<joinable, starts, threads, async, sent, uvStop, stopping,
                 posts, batch, history>>

-----------------------------------------------------------------------------
(* The posters.  The contract of start(): post() may be called from any    *)
(* thread once start() has returned.                                       *)

PostRefused(p, t) ==
  /\ owner \in {"idle", "joining"} /\ starts > 0
  /\ mu = Nobody /\ posting[p] = NoTask
  /\ ~async \/ stopping
  /\ refused' = refused \cup {t}
  /\ UNCHANGED <<owners, threads, handles, stopping, mu, posting, boxes, history>>

PostCheck(p, t) ==
  /\ owner \in {"idle", "joining"} /\ starts > 0
  /\ mu = Nobody /\ posting[p] = NoTask
  /\ async /\ ~stopping
  /\ mu' = p
  /\ posting' = [posting EXCEPT ![p] = t]
  /\ UNCHANGED <<owners, threads, handles, stopping, refused, boxes, history>>

\* Faulty: the lock is not released.
PostPushNoUnlock(p) ==
  /\ mu = p /\ posting[p] # NoTask
  /\ q' = Append(q, posting[p])
  /\ log' = Append(log, posting[p])
  /\ sent' = TRUE
  /\ posting' = [posting EXCEPT ![p] = NoTask]
  /\ UNCHANGED <<owners, threads, loop, async, uvStop, stopping, mu, refused,
                 batch, ran>>

\* Faulty: the wakeup is sent only when the loop looks asleep.
PostPushNoSend(p) ==
  /\ mu = p /\ posting[p] # NoTask
  /\ q' = Append(q, posting[p])
  /\ log' = Append(log, posting[p])
  /\ sent' = (sent \/ worker = "poll")
  /\ mu' = Nobody
  /\ posting' = [posting EXCEPT ![p] = NoTask]
  /\ UNCHANGED <<owners, threads, loop, async, uvStop, stopping, refused,
                 batch, ran>>

PostPush(p) ==
  /\ mu = p /\ posting[p] # NoTask
  /\ q' = Append(q, posting[p])
  /\ log' = Append(log, posting[p])
  /\ sent' = TRUE
  /\ mu' = Nobody
  /\ posting' = [posting EXCEPT ![p] = NoTask]
  /\ UNCHANGED <<owners, threads, loop, async, uvStop, stopping, refused,
                 batch, ran>>

-----------------------------------------------------------------------------
(* The worker thread: thread_main(), drain() and teardown_loop(). *)

InitAsync ==
  /\ worker = "init"
  /\ async' = TRUE
  /\ worker' = "startHook"
  /\ UNCHANGED <<owners, failed, final, loop, sent, uvStop, stopping, posts,
                 boxes, history>>

\* uv_async_init failed: the loop is given back and start() gets the code.
InitFails ==
  /\ worker = "init"
  /\ loop' = FALSE
  /\ worker' = "done" /\ owner' = "idle"
  /\ UNCHANGED <<joinable, starts, failed, final, async, sent, uvStop, stopping,
                 posts, boxes, history>>

\* A hook or a task's body posts to its own loop: same post(), but nothing
\* can come between its check and its push that it did not do itself.
SelfPost(t) ==
  /\ worker \in UserCode /\ mu = Nobody
  /\ IF async /\ ~stopping
     THEN /\ q' = Append(q, t) /\ log' = Append(log, t) /\ sent' = TRUE
          /\ UNCHANGED refused
     ELSE /\ refused' = refused \cup {t}
          /\ UNCHANGED <<q, log, sent>>
  /\ UNCHANGED <<owners, threads, loop, async, uvStop, stopping, mu, posting,
                 batch, ran>>

\* The start hook returned (or there is none): start() is released.
StartHookReturns ==
  /\ worker = "startHook"
  /\ worker' = "poll" /\ owner' = "idle"
  /\ UNCHANGED <<joinable, starts, failed, final, handles, stopping, posts,
                 boxes, history>>

\* The start hook threw: the exit hook runs, the mailbox is not drained.
StartHookThrows ==
  /\ worker = "startHook"
  /\ worker' = "exitHook" /\ failed' = TRUE
  /\ UNCHANGED <<owners, final, handles, stopping, posts, boxes, history>>

\* uv_run sees the pending async: its flag is cleared before the callback.
Wake ==
  /\ worker = "poll" /\ sent /\ ~uvStop
  /\ sent' = FALSE
  /\ worker' = "drain"
  /\ UNCHANGED <<owners, failed, final, loop, async, uvStop, stopping, posts,
                 boxes, history>>

\* Faulty: no last drain after uv_run.
LeaveLoopUndrained ==
  /\ worker = "poll" /\ uvStop
  /\ uvStop' = FALSE
  /\ final' = TRUE
  /\ worker' = "exitHook"
  /\ UNCHANGED <<owners, failed, loop, async, sent, stopping, posts, boxes,
                 history>>

\* uv_run returns because of uv_stop; thread_main drains a last time.
LeaveLoop ==
  /\ worker = "poll" /\ uvStop
  /\ uvStop' = FALSE
  /\ final' = TRUE
  /\ worker' = "drain"
  /\ UNCHANGED <<owners, failed, loop, async, sent, stopping, posts, boxes,
                 history>>

\* Faulty: the queue is copied, not swapped.
SwapCopies ==
  /\ worker = "drain" /\ mu = Nobody
  /\ batch' = q
  /\ worker' = "run"
  /\ UNCHANGED <<owners, failed, final, handles, stopping, posts, q, history>>

\* drain(): the whole queue is swapped out under the lock.
Swap ==
  /\ worker = "drain" /\ mu = Nobody
  /\ batch' = q /\ q' = << >>
  /\ worker' = "run"
  /\ UNCHANGED <<owners, failed, final, handles, stopping, posts, history>>

\* Faulty: the gate is not looked at between two closures.
BeginTaskPastGate ==
  /\ worker = "run"
  /\ batch # << >> /\ Head(batch) # Stop
  /\ batch' = Tail(batch) /\ ran' = Append(ran, Head(batch))
  /\ worker' = "body"
  /\ UNCHANGED <<owners, failed, final, handles, stopping, posts, q, log>>

\* drain(): the next closure of the batch is called.
BeginTask ==
  /\ worker = "run" /\ ~stopping
  /\ batch # << >> /\ Head(batch) # Stop
  /\ batch' = Tail(batch) /\ ran' = Append(ran, Head(batch))
  /\ worker' = "body"
  /\ UNCHANGED <<owners, failed, final, handles, stopping, posts, q, log>>

\* The body returned or threw; a throw is logged and otherwise ignored.
EndTask ==
  /\ worker = "body"
  /\ worker' = "run"
  /\ UNCHANGED <<owners, failed, final, handles, stopping, posts, boxes, history>>

\* Faulty: the loop is stopped and the gate stays open.
RunStopOpenGate ==
  /\ worker = "run" /\ ~stopping
  /\ batch # << >> /\ Head(batch) = Stop
  /\ batch' = Tail(batch) /\ ran' = Append(ran, Stop)
  /\ uvStop' = TRUE
  /\ UNCHANGED <<owners, threads, loop, async, sent, stopping, posts, q, log>>

\* The stop task: it shuts the gate on the worker thread itself.
RunStop ==
  /\ worker = "run" /\ ~stopping
  /\ batch # << >> /\ Head(batch) = Stop
  /\ batch' = Tail(batch) /\ ran' = Append(ran, Stop)
  /\ stopping' = TRUE /\ uvStop' = TRUE
  /\ UNCHANGED <<owners, threads, loop, async, sent, posts, q, log>>

\* drain() returns: the batch is through, or the gate is shut and what is
\* left of the batch is destroyed with it.
EndDrain ==
  /\ worker = "run"
  /\ batch = << >> \/ stopping
  /\ batch' = << >>
  /\ worker' = IF final THEN "exitHook" ELSE "poll"
  /\ UNCHANGED <<owners, failed, final, handles, stopping, posts, q, history>>

ExitHookReturns ==
  /\ worker = "exitHook"
  /\ worker' = "detach"
  /\ UNCHANGED <<owners, failed, final, handles, stopping, posts, boxes, history>>

\* Faulty: the handle is closed and async_ still points to it.
DetachKeepsAsync ==
  /\ worker = "detach" /\ mu = Nobody
  /\ sent' = FALSE
  /\ worker' = "close"
  /\ UNCHANGED <<owners, failed, final, loop, async, uvStop, stopping, posts,
                 boxes, history>>

\* teardown_loop(), under the lock: from here on post() refuses.
Detach ==
  /\ worker = "detach" /\ mu = Nobody
  /\ async' = FALSE /\ sent' = FALSE
  /\ worker' = "close"
  /\ UNCHANGED <<owners, failed, final, loop, uvStop, stopping, posts, boxes,
                 history>>

\* Faulty: on the error path nobody fulfils the promise of start().
CloseLoopSilent ==
  /\ worker = "close"
  /\ loop' = FALSE /\ uvStop' = FALSE
  /\ worker' = "done"
  /\ UNCHANGED <<owners, failed, final, async, sent, stopping, posts, boxes,
                 history>>

\* The rest of teardown_loop(); on the error path start() is released last.
CloseLoop ==
  /\ worker = "close"
  /\ loop' = FALSE /\ uvStop' = FALSE
  /\ worker' = "done"
  /\ owner' = IF failed THEN "idle" ELSE owner
  /\ UNCHANGED <<joinable, starts, failed, final, async, sent, stopping, posts,
                 boxes, history>>

-----------------------------------------------------------------------------
WorkerStep ==
  \/ InitAsync \/ InitFails
  \/ StartHookReturns \/ StartHookThrows
  \/ Wake \/ LeaveLoop \/ Swap \/ BeginTask \/ EndTask \/ RunStop \/ EndDrain
  \/ ExitHookReturns \/ Detach \/ CloseLoop

\* Nothing more can happen: the object is gone.
Gone == owner = "gone" /\ UNCHANGED vars

Next ==
  \/ Start \/ StopRequest \/ Join \/ Destroy
  \/ \E p \in Poster, t \in Fresh : PostRefused(p, t) \/ PostCheck(p, t)
  \/ \E p \in Poster : PostPush(p)
  \/ \E t \in Fresh : SelfPost(t)
  \/ WorkerStep
  \/ Gone

Spec == Init /\ [][Next]_vars

\* The scheduler runs a thread that can run; post() holds the lock for a few
\* instructions and returns; stop_and_join() is inside join().  Nobody is
\* obliged to call post(), start() or stop_and_join().
Fairness ==
  /\ WF_vars(WorkerStep)
  /\ WF_vars(Join)
  /\ \A p \in Poster : WF_vars(PostPush(p))

FairSpec == Spec /\ Fairness

-----------------------------------------------------------------------------
(* Properties. *)

\* Types, and the lock discipline: mu_ is held exactly by the thread that is
\* between the check and the push of post().
TypeOK ==
  /\ owner \in {"idle", "starting", "joining", "gone"}
  /\ joinable \in BOOLEAN /\ starts \in 0..MaxStarts
  /\ worker \in WorkerAt /\ failed \in BOOLEAN /\ final \in BOOLEAN
  /\ loop \in BOOLEAN /\ async \in BOOLEAN /\ sent \in BOOLEAN
  /\ uvStop \in BOOLEAN /\ stopping \in BOOLEAN
  /\ mu \in Poster \cup {Nobody}
  /\ posting \in [Poster -> Task \cup {NoTask}]
  /\ \A p \in Poster : posting[p] # NoTask <=> mu = p
  /\ refused \subseteq Task
  /\ q \in Seq(Task \cup {Stop}) /\ batch \in Seq(Task \cup {Stop})
  /\ log \in Seq(Task \cup {Stop}) /\ ran \in Seq(Task \cup {Stop})

\* Tasks run in the order in which they were accepted, each at most once and
\* none skipped, across batches, self-posts and a failed start
\* (uvcpp_loop_worker.cpp, drain and post).  Implements, below, says so too.
Fifo ==
  /\ Len(ran) <= Len(log)
  /\ \A i \in 1..Len(ran) : ran[i] = log[i]

\* The stop task is a barrier: nothing accepted behind it is ever called, even
\* when it was swapped out in the same batch (comment in stop_and_join: what
\* is before it still runs, what is behind it is dropped).
NothingRunsBehindStop ==
  \A i \in 1..Len(ran) : ran[i] = Stop => i = Len(ran)

\* No lost wakeup: while the mailbox handle lives, a queued closure has a
\* wakeup under way or a drain that has not swapped yet (comment in post on
\* sending under the lock).  For the first thread only: a closure that a start
\* on the error path left behind is inherited without a wakeup by the next one.
NoLostWakeup ==
  starts = 1 /\ async /\ q # << >> => sent \/ worker = "drain"

\* When stop_and_join() has returned, nothing of the generation is left: no
\* swapped-out closure, no handle, no loop, no post() half way, and if the loop
\* ever ran no queued closure either (header comment of stop_and_join).
Quiescent ==
  ~joinable =>
    /\ batch = << >> /\ ~async /\ ~sent /\ ~loop /\ mu = Nobody
    /\ final => q = << >>

\* Every accepted task ran before the exit hook, or the gate was shut: the hook
\* never sees a loop on which an accepted task could still be called.  The one
\* exception is the error path of start(), which does not drain.
ExitHookAfterTasks ==
  worker \in {"exitHook", "detach", "close"} /\ ~failed =>
    stopping /\ batch = << >> /\ Stop \in Range(ran)

\* post() accepts a closure only while the worker will still drain it or drop
\* it with the batch; in particular never after teardown_loop() detached the
\* handle, however late the poster read the flags.
NoAcceptAfterDetach ==
  [][(worker \in {"close", "done", "none"}) => UNCHANGED log]_vars

\* A closure queued for the first thread leaves the mailbox, called or
\* destroyed, although the owner never stops the loop; only the error path of
\* start() leaves one behind.
Queued(t) == t \in Range(q) \cup Range(batch)
EveryTaskSettles ==
  \A t \in Task : Queued(t) /\ starts = 1 ~> ~Queued(t) \/ failed

\* start() returns, whatever the hooks do, a second time too; stop_and_join()
\* does, whoever keeps posting, when it ends the first thread (start(),
\* stop_and_join()).
StartReturns == owner = "starting" ~> owner # "starting"
FirstStopReturns == owner = "joining" /\ starts = 1 ~> owner # "joining"

\* stop_and_join() returns, after any start() that returned.
StopReturns == owner = "joining" ~> owner # "joining"

\* The work loop implements the mailbox.
M == INSTANCE Mailbox WITH accepted <- log, executed <- ran, open <- async,
                           stopped <- stopping
Implements == M!Spec
=============================================================================
