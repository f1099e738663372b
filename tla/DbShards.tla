------------------------------ MODULE DbShards ------------------------------
(***************************************************************************)
(* The native asynchronous path of src/db/uvcpp_db_pool.cpp: queries that  *)
(* hold no thread, driven by the loop they were submitted for.             *)
(*                                                                         *)
(* A shard is what the pool keeps per loop: connections in use there, the  *)
(* free ones among them, the jobs that wait and a uv_async to wake the     *)
(* loop.  Every loop has a thread; a critical section of mu_ is one step,  *)
(* and what a thread does between two of them touches nothing but the      *)
(* connection it took.  Synchronous borrowing is DbPool's subject; here    *)
(* nobody borrows.                                                         *)
(***************************************************************************)
EXTENDS Naturals, Sequences, FiniteSets, SequencesExt

CONSTANTS
  Loop,     \* loops with a thread each
  Job,      \* queries, each submitted at most once
  Home,     \* [Job -> the loop it is submitted for]
  Client,   \* addresses of connections
  NoJob,    \* the loop is not inside a completion
  NoLoop,   \* no thread is inside query() for this job
  MinSize, MaxSize,  \* arguments of init(), after clamping
  Faults,   \* what goes wrong outside: "open", "send", "poll", "lost", "late",
            \* "queue", "async"; "poll" is uv_poll_start() failing, see Sent
  May       \* what callers do besides, see below

\* What May leaves out when it is empty:
\*   "closeOpening"  close() while a loop opens a connection for a query
\*   "destroyBusy"   destruction while a loop drains its queue or sets its
\*                   uv_async up, see Uncounted
\*   "destroyOpen"   destruction of a pool that was not closed
ASSUME MayAssumption == May \subseteq {"closeOpening", "destroyBusy", "destroyOpen"}
ASSUME FiniteAssumption == IsFiniteSet(Loop) /\ IsFiniteSet(Job) /\ IsFiniteSet(Client)
ASSUME HomeAssumption == Home \in [Job -> Loop]
ASSUME SizeAssumption == MinSize \in Nat /\ MaxSize \in Nat \ {0} /\ MinSize <= MaxSize
ASSUME NamesAssumption == NoJob \notin Job /\ NoLoop \notin Loop

VARIABLES
  pool,     \* "open"; anything else is closed_
  toFail,   \* shards close() has not visited yet
  owned,    \* owned_
  idle,     \* idle_, the connections no loop has a claim on
  conns,    \* [Loop -> connections of the shard]
  free,     \* [Loop -> the free ones among them]
  pending,  \* [Loop -> jobs that wait, oldest first]
  shard,    \* [Loop -> state of the shard and its uv_async]
  wake,     \* [Loop -> a wakeup is on its way]
  at,       \* [Loop -> where its thread is in the pool's code]
  done,     \* [Loop -> the job whose completion the thread is inside]
  query,    \* queries on connections, taken up but not completed
  dirty,    \* connections whose server still works on a query
  job,      \* [Job -> where it is]
  caller,   \* [Job -> the loop its submitter is about to wake]
  work      \* work_in_flight

sizes  == <<owned, idle, conns, free>>
shards == <<pending, shard, wake>>
stacks == <<at, done>>
jobs   == <<job, caller, work>>
vars   == <<pool, toFail, sizes, shards, stacks, query, dirty, jobs>>

\* end: "hand" before the query is sent, "wait" while the server works, then
\* what the driver will report once its handles are closed.
Query == [client : Client, loop : Loop, job : Job,
          end : {"hand", "wait", "ok", "lost"}]

Init ==
  /\ pool = "open" /\ toFail = {}
  /\ \E S \in SUBSET Client : Cardinality(S) = MinSize /\ owned = S /\ idle = S
  /\ conns = [l \in Loop |-> {}] /\ free = [l \in Loop |-> {}]
  /\ pending = [l \in Loop |-> << >>]
  /\ shard = [l \in Loop |-> "none"] /\ wake = [l \in Loop |-> FALSE]
  /\ at = [l \in Loop |-> "poll"] /\ done = [l \in Loop |-> NoJob]
  /\ query = {} /\ dirty = {}
  /\ job = [j \in Job |-> "new"] /\ caller = [j \in Job |-> NoLoop]
  /\ work = 0

-----------------------------------------------------------------------------
(* Helpers. *)

closed == pool # "open"

\* One free connection stays with the loop it was used on.
KeepFree == 1

Opening == {l \in Loop : at[l] = "opening"}
Room == Cardinality(owned) + Cardinality(Opening) < MaxSize

Goto(l, there) == [at EXCEPT ![l] = there]

\* put_back_locked() of the connections S: freed when the pool is closed,
\* otherwise idle; entries that were idle too long go, down to MinSize.
PutBack(S) ==
  IF closed
  THEN owned' = owned \ S /\ idle' = idle
  ELSE \E old \in SUBSET idle :
         /\ old # {} => Cardinality(owned \ old) >= MinSize
         /\ owned' = owned \ old
         /\ idle' = (idle \ old) \cup S

\* fail_shard_pending(): every job that waits is answered with an error.
FailPending(l) ==
  /\ job' = [j \in Job |-> IF j \in ToSet(pending[l]) THEN "answered" ELSE job[j]]
  /\ work' = work - Len(pending[l])
  /\ pending' = [pending EXCEPT ![l] = << >>]

\* Take the oldest job of l up on connection c.
TakeUp(l, c) ==
  /\ query' = query \cup
       {[client |-> c, loop |-> l, job |-> Head(pending[l]), end |-> "hand"]}
  /\ pending' = [pending EXCEPT ![l] = Tail(@)]
  /\ at' = Goto(l, "start")

-----------------------------------------------------------------------------
(* submit_native(), wake_shard(). *)

\* A query is counted in and queued under the lock.  On the loop's own thread
\* the queue is drained at once; any other thread goes on to wake the loop.
\* A loop that was detached is about to go, so nobody submits for it.
Submit(j, l, onLoop) ==
  /\ job[j] = "new" /\ l = Home[j] /\ ~closed /\ shard[l] # "detached"
  /\ onLoop => at[l] = "poll"
  /\ work' = work + 1
  /\ pending' = [pending EXCEPT ![l] = Append(@, j)]
  /\ job' = [job EXCEPT ![j] = "in"]
  /\ shard' = [shard EXCEPT ![l] = IF @ = "none" THEN "cold" ELSE @]
  /\ IF onLoop /\ shard[l] = "ready"
     THEN at' = Goto(l, "drain") /\ UNCHANGED caller
     ELSE caller' = [caller EXCEPT ![j] = l] /\ UNCHANGED at
  /\ UNCHANGED <<pool, toFail, sizes, wake, done, query, dirty>>

\* Faulty: the wakeup is only sent while the loop is not busy draining.
WakeShardPolite(j) ==
  LET l == caller[j]
  IN /\ l # NoLoop
     /\ caller' = [caller EXCEPT ![j] = NoLoop]
     /\ wake' = [wake EXCEPT ![l] = shard[l] = "ready" /\ at[l] = "poll"]
     /\ shard' = [shard EXCEPT ![l] = IF @ = "cold" THEN "booting" ELSE @]
     /\ UNCHANGED <<pool, toFail, sizes, pending, stacks, query, dirty, job, work>>

\* The wakeup needs the uv_async; if there is none yet, the first caller has
\* it made on the loop's thread by a detour over the thread pool.
WakeShard(j) ==
  LET l == caller[j]
  IN /\ l # NoLoop
     /\ caller' = [caller EXCEPT ![j] = NoLoop]
     /\ wake' = [wake EXCEPT ![l] = @ \/ shard[l] = "ready"]
     /\ shard' = [shard EXCEPT ![l] = IF @ = "cold" THEN "booting" ELSE @]
     /\ UNCHANGED <<pool, toFail, sizes, pending, stacks, query, dirty, job, work>>

\* uv_queue_work() refuses the detour: what waits is failed here.
BootRefused(j) ==
  LET l == caller[j]
  IN /\ l # NoLoop /\ shard[l] = "cold" /\ "queue" \in Faults
     /\ caller' = [caller EXCEPT ![j] = NoLoop]
     /\ FailPending(l)
     /\ UNCHANGED <<pool, toFail, sizes, shard, wake, stacks, query, dirty>>

\* on_bootstrap(): the uv_async exists from here on, unless the pool closed or
\* it cannot be made.
Bootstrap(l) ==
  /\ shard[l] = "booting" /\ at[l] = "poll"
  /\ \/ /\ closed \/ "async" \in Faults
        /\ shard' = [shard EXCEPT ![l] = "cold"]
        /\ FailPending(l) /\ UNCHANGED at
     \/ /\ ~closed
        /\ shard' = [shard EXCEPT ![l] = "ready"]
        /\ at' = Goto(l, "drain") /\ UNCHANGED <<pending, job, work>>
  /\ UNCHANGED <<pool, toFail, sizes, wake, done, query, dirty, caller>>

\* wake_cb(): alive_ is gone once the destructor has begun.
OnWake(l) ==
  /\ wake[l] /\ at[l] = "poll"
  /\ wake' = [wake EXCEPT ![l] = FALSE]
  /\ at' = Goto(l, IF pool \in {"open", "closing", "closed"} THEN "drain" ELSE "poll")
  /\ UNCHANGED <<pool, toFail, sizes, pending, shard, done, query, dirty, jobs>>

-----------------------------------------------------------------------------
(* drain_shard() and start_native(), on the loop's thread. *)

Wants(l) == at[l] = "drain" /\ ~closed /\ pending[l] # << >>

DrainFree(l, c) ==
  /\ Wants(l) /\ c \in free[l]
  /\ free' = [free EXCEPT ![l] = @ \ {c}]
  /\ TakeUp(l, c)
  /\ UNCHANGED <<pool, toFail, owned, idle, conns, shard, wake, done, dirty, jobs>>

\* Faulty: the connection stays in idle_ as well.
DrainIdleShared(l, c) ==
  /\ Wants(l) /\ free[l] = {} /\ c \in idle
  /\ conns' = [conns EXCEPT ![l] = @ \cup {c}]
  /\ TakeUp(l, c)
  /\ UNCHANGED <<pool, toFail, owned, idle, free, shard, wake, done, dirty, jobs>>

DrainIdle(l, c) ==
  /\ Wants(l) /\ free[l] = {} /\ c \in idle
  /\ idle' = idle \ {c}
  /\ conns' = [conns EXCEPT ![l] = @ \cup {c}]
  /\ TakeUp(l, c)
  /\ UNCHANGED <<pool, toFail, owned, free, shard, wake, done, dirty, jobs>>

\* Nothing to be had, but there is room: the lock is dropped for open().
DrainOpens(l) ==
  /\ Wants(l) /\ free[l] = {} /\ idle = {} /\ Room
  /\ at' = Goto(l, "opening")
  /\ UNCHANGED <<pool, toFail, sizes, shards, done, query, dirty, jobs>>

\* The lock is held again.  The new connection is for the job in front, and
\* nobody looks whether there still is one: front() of an empty queue.
OpenDone(l, c) ==
  /\ at[l] = "opening" /\ c \notin owned
  /\ owned' = owned \cup {c} /\ dirty' = dirty \ {c}
  /\ conns' = [conns EXCEPT ![l] = @ \cup {c}]
  /\ IF pending[l] = << >>
     THEN at' = Goto(l, "undefined") /\ UNCHANGED <<query, pending>>
     ELSE TakeUp(l, c)
  /\ UNCHANGED <<pool, toFail, idle, free, shard, wake, done, jobs>>

\* Faulty: open() is tried again although its jobs have been failed.
OpenFailsRetries(l) ==
  /\ at[l] = "opening" /\ "open" \in Faults
  /\ FailPending(l)
  /\ UNCHANGED <<pool, toFail, sizes, shard, wake, stacks, query, dirty, caller>>

\* open() fails: so do all jobs that wait on this loop.
OpenFails(l) ==
  /\ at[l] = "opening" /\ "open" \in Faults
  /\ at' = Goto(l, "leave")
  /\ FailPending(l)
  /\ UNCHANGED <<pool, toFail, sizes, shard, wake, done, query, dirty, caller>>

\* Closed, nothing left to do, or nothing to do it with.
DrainEnds(l) ==
  /\ at[l] = "drain"
  /\ \/ closed \/ pending[l] = << >>
     \/ free[l] = {} /\ idle = {} /\ ~Room
  /\ at' = Goto(l, "leave")
  /\ UNCHANGED <<pool, toFail, sizes, shards, done, query, dirty, jobs>>

\* Faulty: the completed job stays counted in.
LeaveCounted(l) ==
  /\ at[l] = "leave"
  /\ at' = Goto(l, "poll") /\ done' = [done EXCEPT ![l] = NoJob]
  /\ job' = [j \in Job |-> IF j = done[l] THEN "answered" ELSE job[j]]
  /\ UNCHANGED <<pool, toFail, sizes, shards, query, dirty, caller, work>>

\* Back in on_async_done(): the completed job is counted out, then answered.
Leave(l) ==
  /\ at[l] = "leave"
  /\ at' = Goto(l, "poll") /\ done' = [done EXCEPT ![l] = NoJob]
  /\ job' = [j \in Job |-> IF j = done[l] THEN "answered" ELSE job[j]]
  /\ work' = IF done[l] = NoJob THEN work ELSE work - 1
  /\ UNCHANGED <<pool, toFail, sizes, shards, query, dirty, caller>>

\* What send() leaves behind.  "wait": the server works on the query.  "lost":
\* the connection turned out broken.  "ok" is an error that leaves the
\* connection to the pool: libpq refused the query, as it does while an answer
\* is outstanding, or the query is out but nobody polls for its answer.
SendEnds(c, end) ==
  \/ end = "wait" /\ c \notin dirty /\ dirty' = dirty \cup {c}
  \/ end = "lost" /\ "lost" \in Faults /\ UNCHANGED dirty
  \/ end = "ok" /\ (c \in dirty \/ "send" \in Faults) /\ UNCHANGED dirty
  \/ end = "ok" /\ c \notin dirty /\ "poll" \in Faults /\ dirty' = dirty \cup {c}

\* query_async() took the query.
Sent(l, q, end) ==
  /\ at[l] = "start" /\ q \in query /\ q.loop = l /\ q.end = "hand"
  /\ query' = (query \ {q}) \cup {[q EXCEPT !.end = end]}
  /\ SendEnds(q.client, end)
  /\ at' = Goto(l, "drain")
  /\ UNCHANGED <<pool, toFail, sizes, shards, done, jobs>>

\* It did not: the connection is retired and the job fails.
NotSent(l, q) ==
  /\ at[l] = "start" /\ q \in query /\ q.loop = l /\ q.end = "hand"
  /\ "send" \in Faults
  /\ query' = query \ {q}
  /\ owned' = owned \ {q.client}
  /\ conns' = [conns EXCEPT ![l] = @ \ {q.client}]
  /\ job' = [job EXCEPT ![q.job] = "answered"]
  /\ work' = work - 1
  /\ dirty' = dirty \ {q.client}
  /\ at' = Goto(l, "drain")
  /\ UNCHANGED <<pool, toFail, idle, free, shards, done, caller>>

-----------------------------------------------------------------------------
(* The query itself: pg_async_task of uvcpp_db_pgsql.cpp.  What comes first  *)
(* counts; the completion waits until the task's handles are closed.         *)

Ends(q, how) == query' = (query \ {q}) \cup {[q EXCEPT !.end = how]}

\* The last result is read: nothing is left on the connection.
ResultsRead(q) ==
  /\ q \in query /\ q.end = "wait" /\ at[q.loop] = "poll"
  /\ Ends(q, "ok") /\ dirty' = dirty \ {q.client}
  /\ UNCHANGED <<pool, toFail, sizes, shards, stacks, jobs>>

ConnectionLost(q) ==
  /\ q \in query /\ q.end = "wait" /\ at[q.loop] = "poll"
  /\ "lost" \in Faults
  /\ Ends(q, "lost") /\ dirty' = dirty \ {q.client}
  /\ UNCHANGED <<pool, toFail, sizes, shards, stacks, jobs>>

\* Faulty: a late query is reported as one that failed.
TimesOutAsError(q) ==
  /\ q \in query /\ q.end = "wait" /\ at[q.loop] = "poll"
  /\ "late" \in Faults
  /\ Ends(q, "ok") /\ UNCHANGED dirty
  /\ UNCHANGED <<pool, toFail, sizes, shards, stacks, jobs>>

\* on_timeout(): the server may still answer, so the connection is given up.
TimesOut(q) ==
  /\ q \in query /\ q.end = "wait" /\ at[q.loop] = "poll"
  /\ "late" \in Faults
  /\ Ends(q, "lost") /\ UNCHANGED dirty
  /\ UNCHANGED <<pool, toFail, sizes, shards, stacks, jobs>>

\* on_async_done(): the connection is retired, kept for this loop or given
\* back to all, one sibling that waits is woken, the own queue is drained, and
\* only then is the job over.
Complete(q) ==
  LET l == q.loop
      c == q.client
      retire == q.end = "lost" \/ closed
      keep == ~retire /\ Cardinality(free[l]) < KeepFree
      waiting == {k \in Loop \ {l} : shard[k] = "ready" /\ pending[k] # << >>}
  IN /\ q \in query /\ q.end \in {"ok", "lost"} /\ at[l] = "poll"
     /\ query' = query \ {q}
     /\ dirty' = IF retire THEN dirty \ {c} ELSE dirty
     /\ free' = IF keep THEN [free EXCEPT ![l] = @ \cup {c}] ELSE free
     /\ conns' = IF keep THEN conns ELSE [conns EXCEPT ![l] = @ \ {c}]
     /\ IF retire THEN owned' = owned \ {c} /\ UNCHANGED idle
        ELSE IF keep THEN UNCHANGED <<owned, idle>> ELSE PutBack({c})
     /\ \/ waiting = {} /\ UNCHANGED wake
        \/ \E k \in waiting : wake' = [wake EXCEPT ![k] = TRUE]
     /\ at' = Goto(l, "drain") /\ done' = [done EXCEPT ![l] = q.job]
     /\ UNCHANGED <<pool, toFail, pending, shard, jobs>>

-----------------------------------------------------------------------------
(* close(), detach_loop() and the destructor. *)

Close ==
  /\ pool = "open"
  /\ Opening # {} => "closeOpening" \in May
  /\ pool' = "closing" /\ toFail' = {l \in Loop : shard[l] # "none"}
  /\ owned' = owned \ idle /\ idle' = {}
  /\ UNCHANGED <<conns, free, shards, stacks, query, dirty, jobs>>

\* What waits is failed, on the thread that closes.
CloseShard(l) ==
  /\ pool = "closing" /\ l \in toFail
  /\ toFail' = toFail \ {l}
  /\ FailPending(l)
  /\ UNCHANGED <<pool, sizes, shard, wake, stacks, query, dirty, caller>>

CloseReturns ==
  /\ pool = "closing" /\ toFail = {}
  /\ pool' = "closed"
  /\ UNCHANGED <<toFail, sizes, shards, stacks, query, dirty, jobs>>

\* Faulty: queries on the loop's connections are not looked at.
DetachInUse(l) ==
  /\ shard[l] \in {"cold", "ready"} /\ at[l] = "poll"
  /\ pool \in {"open", "closed"} /\ \A j \in Job : caller[j] # l
  /\ pending[l] = << >>
  /\ conns' = [conns EXCEPT ![l] = {}] /\ free' = [free EXCEPT ![l] = {}]
  /\ PutBack(conns[l])
  /\ shard' = [shard EXCEPT ![l] = "detached"]
  /\ wake' = [wake EXCEPT ![l] = FALSE]
  /\ UNCHANGED <<pool, toFail, pending, stacks, query, dirty, jobs>>

\* detach_loop(): only with nothing in flight, pending or on its way.  The
\* caller sees to it that nobody is inside query() for this loop or in close().
Detach(l) ==
  /\ shard[l] \in {"cold", "ready"} /\ at[l] = "poll"
  /\ pool \in {"open", "closed"} /\ \A j \in Job : caller[j] # l
  /\ pending[l] = << >> /\ \A q \in query : q.loop # l
  /\ conns' = [conns EXCEPT ![l] = {}] /\ free' = [free EXCEPT ![l] = {}]
  /\ PutBack(conns[l])
  /\ shard' = [shard EXCEPT ![l] = "detached"]
  /\ wake' = [wake EXCEPT ![l] = FALSE]
  /\ UNCHANGED <<pool, toFail, pending, stacks, query, dirty, jobs>>

\* The loop is in the pool's code, or about to be, without a job that would
\* make the destructor wait for it.
Uncounted(l) == shard[l] = "booting" \/ (at[l] # "poll" /\ done[l] = NoJob)

\* wind_down(): no caller is inside a method of the pool.
BeginDestroy ==
  /\ \/ pool = "closed"
     \/ pool = "open" /\ "destroyOpen" \in May
  /\ \A j \in Job : caller[j] = NoLoop
  /\ (\E l \in Loop : Uncounted(l)) => "destroyBusy" \in May
  /\ pool' = "winding"
  /\ UNCHANGED <<toFail, sizes, shards, stacks, query, dirty, jobs>>

\* Faulty: the queries in flight are not waited for.
DestroyAtOnce ==
  /\ pool = "winding"
  /\ pool' = "gone" /\ owned' = {} /\ idle' = {}
  /\ UNCHANGED <<toFail, conns, free, shards, stacks, query, dirty, jobs>>

\* work_in_flight is zero: the connections go.
Destroy ==
  /\ pool = "winding" /\ work = 0
  /\ pool' = "gone" /\ owned' = {} /\ idle' = {}
  /\ UNCHANGED <<toFail, conns, free, shards, stacks, query, dirty, jobs>>

-----------------------------------------------------------------------------

LoopStep(l) ==
  \/ Bootstrap(l) \/ OnWake(l)
  \/ \E c \in Client : DrainFree(l, c) \/ DrainIdle(l, c) \/ OpenDone(l, c)
  \/ DrainOpens(l) \/ OpenFails(l) \/ DrainEnds(l) \/ Leave(l)
  \/ \E q \in query : NotSent(l, q) \/ \E end \in {"wait", "ok", "lost"} : Sent(l, q, end)

QueryStep(l) ==
  \E q \in query : q.loop = l /\
    (ResultsRead(q) \/ ConnectionLost(q) \/ TimesOut(q) \/ Complete(q))

Inside(j) == WakeShard(j) \/ BootRefused(j)

CloseStep == CloseReturns \/ \E l \in Loop : CloseShard(l)

\* Nothing is left to happen.
Terminated == pool = "gone" /\ UNCHANGED vars

Next ==
  \/ \E j \in Job, l \in Loop, onLoop \in BOOLEAN : Submit(j, l, onLoop)
  \/ \E j \in Job : Inside(j)
  \/ \E l \in Loop : LoopStep(l) \/ QueryStep(l) \/ Detach(l)
  \/ Close \/ CloseStep \/ BeginDestroy \/ Destroy \/ Terminated

Spec == Init /\ [][Next]_vars

\* Threads go on, loops run what is due, and a query ends: at the latest when
\* its timer fires.  Nobody has to submit, close or destroy.
Fairness ==
  /\ \A j \in Job : WF_vars(Inside(j))
  /\ \A l \in Loop : WF_vars(LoopStep(l)) /\ WF_vars(QueryStep(l))
  /\ WF_vars(CloseStep)

FairSpec == Spec /\ Fairness

-----------------------------------------------------------------------------
(* Properties. *)

TypeOK ==
  /\ pool \in {"open", "closing", "closed", "winding", "gone"}
  /\ toFail \subseteq Loop /\ owned \subseteq Client /\ idle \subseteq Client
  /\ conns \in [Loop -> SUBSET Client] /\ free \in [Loop -> SUBSET Client]
  /\ pending \in [Loop -> Seq(Job)]
  /\ shard \in [Loop -> {"none", "cold", "booting", "ready", "detached"}]
  /\ wake \in [Loop -> BOOLEAN]
  /\ at \in [Loop -> {"poll", "drain", "opening", "start", "leave"}]
  /\ done \in [Loop -> Job \cup {NoJob}]
  /\ query \subseteq Query /\ dirty \subseteq Client
  /\ job \in [Job -> {"new", "in", "answered"}]
  /\ caller \in [Job -> Loop \cup {NoLoop}]
  /\ work \in 0..Cardinality(Job)

InUse(l) == {q.client : q \in {r \in query : r.loop = l}}

\* A connection carries one query at a time and is claimed by one loop or by
\* none; none is lost on the way from one loop to another, and the pool stays
\* within max.
OneUse ==
  /\ Cardinality(owned) + Cardinality(Opening) <= MaxSize
  /\ \A q, r \in query : q.client = r.client => q = r
  /\ \A l \in Loop : /\ free[l] \cap InUse(l) = {}
                     /\ conns[l] = free[l] \cup InUse(l)
                     /\ conns[l] \cap idle = {}
  /\ \A k, l \in Loop : k # l => conns[k] \cap conns[l] = {}
  /\ pool # "gone" => owned = idle \cup UNION {conns[l] : l \in Loop}

\* Nobody is given a connection whose server still owes an answer to an
\* earlier query, the one that timed out included.
CleanReuse ==
  /\ dirty \cap idle = {}
  /\ \A l \in Loop : dirty \cap free[l] = {}
  /\ \A q \in query : q.end = "hand" => q.client \notin dirty

\* work_in_flight counts the jobs that were accepted and not answered yet,
\* and each of those waits, is on a connection or is being completed, once.
WorkCounted ==
  LET in == {j \in Job : job[j] = "in"}
      places(j) ==
        Cardinality({p \in Loop \X (1..Cardinality(Job)) :
                       p[2] <= Len(pending[p[1]]) /\ pending[p[1]][p[2]] = j})
          + Cardinality({q \in query : q.job = j})
          + Cardinality({l \in Loop : done[l] = j})
  IN /\ work = Cardinality(in)
     /\ \A j \in Job : places(j) = IF j \in in THEN 1 ELSE 0

\* Whoever still has a pointer into the pool or a shard finds it there: no
\* query, bootstrap or thread inside drain_shard() is left when the pool is
\* gone, and none for a loop that was detached.
PointersHold ==
  \A l \in Loop :
    pool = "gone" \/ shard[l] = "detached" =>
      /\ at[l] = "poll" /\ shard[l] # "booting"
      /\ pending[l] = << >> /\ InUse(l) = {}
      /\ \A j \in Job : caller[j] # l

\* The methods of the pool may be called from any thread, close() included: no
\* thread is in undefined behaviour, whatever another one does.
ThreadSafe == \A l \in Loop : at[l] # "undefined"

\* Every query that was accepted is answered: by the database, by the timer,
\* by close(), or because no connection can be had.
EveryJobSettles == \A j \in Job : (job[j] = "in") ~> (job[j] = "answered")

\* Queries implement the leases: a query that was taken up has its connection
\* until it is over, through timeouts, siblings that look for connections,
\* close(), detach_loop() and the destructor.
L == INSTANCE Leases WITH Holder <- Job, Conn <- Client, have <- owned,
       lent <- {[holder |-> q.job, conn |-> q.client] : q \in query}
Implements == L!Spec
=============================================================================
