------------------------------- MODULE DbPool -------------------------------
(***************************************************************************)
(* The connection pool of src/db/uvcpp_db_pool.cpp: threads borrow and     *)
(* return connections, jobs do the same on the libuv thread pool, and one  *)
(* thread runs init(), close(), close_idle() and the destructor.           *)
(*                                                                         *)
(* mu_ is kept as a variable only where a thread goes on after a step with *)
(* the lock still held (the loop of acquire_locked); every other critical  *)
(* section is one step.  The native asynchronous path (shards) is not      *)
(* part of this module.                                                    *)
(***************************************************************************)
EXTENDS Naturals, Sequences, FiniteSets, Functions

CONSTANTS
  User,        \* threads that call acquire(), release(), discard()
  Job,         \* asynchronous jobs, each submitted at most once
  Client,      \* addresses of connections; also bounds how many exist at a time
  Nobody,      \* mu_ is free
  NoClient,    \* a null uvcpp_db_client*
  MinSize, MaxSize,  \* the arguments min and max of init(), after clamping
  Patience,    \* what users pass to acquire(): "try", "timed", "forever"
  Faults,      \* what may go wrong outside: "open", "ping", "queue", "spurious"
  SharedInit,  \* init() may run while other threads use the pool
  MaxInits     \* bound on the calls of init()

Thread == User \cup Job

\* A connection is its address and the url_ it was opened with: init() number u.
Conn == Client \X (1..MaxInits)

ASSUME ThreadAssumption == User \cap Job = {} /\ Nobody \notin Thread
ASSUME FiniteAssumption == IsFiniteSet(User) /\ IsFiniteSet(Job)
ASSUME PatienceAssumption == Patience \subseteq {"try", "timed", "forever"}
ASSUME ClientAssumption == NoClient \notin Conn /\ IsFiniteSet(Client)
ASSUME SizeAssumption == MinSize \in Nat /\ MaxSize \in Nat \ {0} /\ MinSize <= MaxSize
ASSUME InitsAssumption == MaxInits \in Nat /\ SharedInit \in BOOLEAN

VARIABLES
  closed,    \* closed_
  url,       \* url_: the init() it was given to, 0 when empty
  owned,     \* owned_
  idle,      \* idle_, the subset of owned_ that may be lent; back is lent first
  opening,   \* opening_
  mu,        \* the thread inside the loop of acquire_locked()
  pc,        \* [Thread -> where it is]
  wait,      \* [Thread -> its timeout argument]
  client,    \* [Thread -> the connection in its hands]
  from,      \* [Thread -> the url_ copied by open_into_locked()]
  inFlight,  \* work_in_flight
  admin,     \* where the administrating thread is
  toOpen,    \* connections init() still has to open
  initUrl,   \* the url_ copied by open_into_locked() under init()
  inits      \* calls of init() so far

conns == <<owned, idle, opening>>
calls == <<wait, client, from>>
admins == <<admin, toOpen, initUrl, inits>>
vars == <<closed, url, conns, mu, pc, calls, inFlight, admins>>

At == {"out", "head", "check", "opening", "held", "asleep", "woken", "late",
       "none", "queued", "leaving", "ran"}

Init ==
  /\ closed = TRUE /\ url = 0
  /\ owned = {} /\ idle = << >> /\ opening = 0
  /\ mu = Nobody
  /\ pc = [t \in Thread |-> IF t \in User THEN "out" ELSE "none"]
  /\ wait = [t \in Thread |-> "try"]
  /\ client = [t \in Thread |-> NoClient]
  /\ from = [t \in Thread |-> 0]
  /\ inFlight = 0
  /\ admin = "idle" /\ toOpen = 0 /\ initUrl = 0 /\ inits = 0

-----------------------------------------------------------------------------
(* What the handlers are built from. *)

Free == mu = Nobody

\* Where a thread is after acquire() gave it nothing, or after it gave its
\* connection back: a job still has its work_in_flight to give back.
Away(t) == IF t \in User THEN "out" ELSE "leaving"

Move(t, to) == [pc EXCEPT ![t] = to]

\* acquire() returns: its locals are gone.
Forget(t) == wait' = [wait EXCEPT ![t] = "try"]
Fresh == {c \in Client : \A u \in 1..MaxInits : <<c, u>> \notin owned}

\* cv_.notify_all() and cv_.notify_one(), on the positions p.
Asleep(p) == {t \in Thread : p[t] = "asleep"}
WakeAll(p) == [t \in Thread |-> IF p[t] = "asleep" THEN "woken" ELSE p[t]]
WakeOne(p) == IF Asleep(p) = {} THEN {p}
              ELSE {[p EXCEPT ![t] = "woken"] : t \in Asleep(p)}

\* Faulty: connections being opened do not count.
RoomIgnoresOpening(own) == Cardinality(own) < MaxSize

Room(own) == Cardinality(own) + opening < MaxSize

\* prune_idle_locked(): entries leave from the front of idle_, and only while
\* more than MinSize connections are owned.  Which are old enough is up to the
\* clock; pushes are in order of time, so the old ones are a prefix.
Prunable(own, free) ==
  {k \in 0..Len(free) : k = 0 \/ Cardinality(own) >= MinSize + k}
Rest(free, k) == SubSeq(free, k + 1, Len(free))
Cut(free, k) == {free[i] : i \in 1..k}

\* Faulty: closed_ is not looked at, a late connection goes back to idle_.
PutBackKeeps(own, c, bad, p) ==
  \/ /\ bad /\ owned' = own \ {c} /\ idle' = idle /\ pc' = WakeAll(p)
  \/ /\ ~bad /\ owned' = own /\ idle' = Append(idle, c) /\ pc' \in WakeOne(p)

\* Faulty: nobody is woken for a connection that came back.
PutBackQuietRelease(own, c, bad, p) ==
  \/ /\ bad \/ closed
     /\ owned' = own \ {c} /\ idle' = idle /\ pc' = WakeAll(p)
  \/ /\ ~bad /\ ~closed /\ owned' = own /\ idle' = Append(idle, c) /\ pc' = p

\* Faulty: nobody is woken for a place that became free.
PutBackQuietDiscard(own, c, bad, p) ==
  \/ /\ bad \/ closed
     /\ owned' = own \ {c} /\ idle' = idle /\ pc' = p
  \/ /\ ~bad /\ ~closed /\ owned' = own /\ idle' = Append(idle, c)
     /\ pc' \in WakeOne(p)

\* put_back_locked(c, bad) when `own` is owned_ and p the positions; the entry
\* it has just pushed is never old enough to be pruned.
PutBack(own, c, bad, p) ==
  \/ /\ c \notin own \/ c \in Range(idle)
     /\ owned' = own /\ idle' = idle /\ pc' = p
  \/ /\ c \in own /\ c \notin Range(idle)
     /\ bad \/ closed
     /\ owned' = own \ {c} /\ idle' = idle /\ pc' = WakeAll(p)
  \/ /\ c \in own /\ c \notin Range(idle)
     /\ ~bad /\ ~closed
     /\ LET free == Append(idle, c)
        IN  \E k \in Prunable(own, free) \ {Len(free)} :
              idle' = Rest(free, k) /\ owned' = own \ Cut(free, k)
     /\ pc' \in WakeOne(p)

\* A call of the pool's methods is allowed: the destructor has not begun, and
\* if init() is not shared nobody is inside it.
Callable == admin \notin {"winding", "gone"} /\ (SharedInit \/ admin = "idle")

-----------------------------------------------------------------------------
(* acquire(), and run_pool_job() up to the connection. *)

\* acquire_locked() up to its loop: a closed pool answers null.
Acquire(t, how) ==
  /\ Free
  /\ pc[t] = IF t \in User THEN "out" ELSE "queued"
  /\ t \in User => Callable
  /\ IF closed
     THEN pc' = Move(t, Away(t)) /\ UNCHANGED <<mu, wait>>
     ELSE pc' = Move(t, "head") /\ mu' = t /\ wait' = [wait EXCEPT ![t] = how]
  /\ UNCHANGED <<closed, url, conns, client, from, inFlight, admins>>

\* Faulty: the lock stays held during the health check.
TakeIdleLocked(t, k) ==
  /\ mu = t
  /\ Rest(idle, k) # << >>
  /\ client' = [client EXCEPT ![t] = idle[Len(idle)]]
  /\ idle' = SubSeq(idle, k + 1, Len(idle) - 1)
  /\ owned' = owned \ Cut(idle, k)
  /\ pc' = Move(t, "check")
  /\ UNCHANGED <<closed, url, opening, mu, wait, from, inFlight, admins>>

\* Faulty: the connection is chosen first and can be pruned with the others.
TakeIdleFirst(t, k) ==
  /\ mu = t
  /\ idle # << >>
  /\ client' = [client EXCEPT ![t] = idle[Len(idle)]]
  /\ idle' = SubSeq(idle, k + 1, Len(idle) - 1)
  /\ owned' = owned \ Cut(idle, k)
  /\ pc' = Move(t, "check") /\ mu' = Nobody
  /\ UNCHANGED <<closed, url, opening, wait, from, inFlight, admins>>

\* One round of the loop, k old entries pruned first: an idle connection is
\* taken and the lock dropped for the health check ...
TakeIdle(t, k) ==
  /\ mu = t
  /\ Rest(idle, k) # << >>
  /\ client' = [client EXCEPT ![t] = idle[Len(idle)]]
  /\ idle' = SubSeq(idle, k + 1, Len(idle) - 1)
  /\ owned' = owned \ Cut(idle, k)
  /\ pc' = Move(t, "check") /\ mu' = Nobody
  /\ UNCHANGED <<closed, url, opening, wait, from, inFlight, admins>>

\* ... or there is room: a place is reserved and the lock dropped for open() ...
ReserveOpen(t, k) ==
  /\ mu = t
  /\ Rest(idle, k) = << >> /\ Room(owned \ Cut(idle, k))
  /\ idle' = << >> /\ owned' = owned \ Cut(idle, k)
  /\ opening' = opening + 1
  /\ from' = [from EXCEPT ![t] = url]
  /\ pc' = Move(t, "opening") /\ mu' = Nobody
  /\ UNCHANGED <<closed, url, wait, client, inFlight, admins>>

\* ... or the pool is full: the caller sleeps, or gives up with timeout 0.
Full(t, k) ==
  /\ mu = t
  /\ Rest(idle, k) = << >> /\ ~Room(owned \ Cut(idle, k))
  /\ idle' = << >> /\ owned' = owned \ Cut(idle, k)
  /\ pc' = Move(t, IF wait[t] = "try" THEN Away(t) ELSE "asleep")
  /\ mu' = Nobody
  /\ UNCHANGED <<closed, url, opening, calls, inFlight, admins>>

Round(t) ==
  \E k \in Prunable(owned, idle) : TakeIdle(t, k) \/ ReserveOpen(t, k) \/ Full(t, k)

\* The health check passed, or is off: the connection is the caller's.
CheckPasses(t) ==
  /\ pc[t] = "check" /\ Free
  /\ pc' = Move(t, "held") /\ Forget(t)
  /\ UNCHANGED <<closed, url, conns, mu, client, from, inFlight, admins>>

\* It did not: the connection is thrown away and the loop goes round again
\* without dropping the lock.
CheckFails(t) ==
  /\ pc[t] = "check" /\ Free /\ "ping" \in Faults
  /\ PutBack(owned, client[t], TRUE, Move(t, "head"))
  /\ client' = [client EXCEPT ![t] = NoClient]
  /\ mu' = t
  /\ UNCHANGED <<closed, url, opening, wait, from, inFlight, admins>>

OpenSucceeds(t, c) ==
  /\ pc[t] = "opening" /\ Free
  /\ from[t] # 0 /\ c \in Fresh
  /\ opening' = opening - 1
  /\ owned' = owned \cup {<<c, from[t]>>}
  /\ client' = [client EXCEPT ![t] = <<c, from[t]>>]
  /\ from' = [from EXCEPT ![t] = 0]
  /\ pc' = Move(t, "held") /\ Forget(t)
  /\ UNCHANGED <<closed, url, idle, mu, inFlight, admins>>

\* Faulty: the reservation is not given back.
OpenFailsReserved(t) ==
  /\ pc[t] = "opening" /\ Free
  /\ from[t] = 0 \/ "open" \in Faults
  /\ from' = [from EXCEPT ![t] = 0]
  /\ pc' = Move(t, Away(t)) /\ Forget(t)
  /\ UNCHANGED <<closed, url, conns, mu, client, inFlight, admins>>

\* open() failed (an empty url always does): the place is given up, and nobody
\* is woken.
OpenFails(t) ==
  /\ pc[t] = "opening" /\ Free
  /\ from[t] = 0 \/ "open" \in Faults
  /\ opening' = opening - 1
  /\ from' = [from EXCEPT ![t] = 0]
  /\ pc' = Move(t, Away(t)) /\ Forget(t)
  /\ UNCHANGED <<closed, url, owned, idle, mu, client, inFlight, admins>>

\* The deadline of a sleeper passes, or cv_ wakes it for no reason.
Expire(t) ==
  /\ pc[t] = "asleep" /\ wait[t] = "timed"
  /\ pc' = Move(t, "late")
  /\ UNCHANGED <<closed, url, conns, mu, calls, inFlight, admins>>

WakeSpuriously(t) ==
  /\ pc[t] = "asleep" /\ "spurious" \in Faults
  /\ pc' = Move(t, "woken")
  /\ UNCHANGED <<closed, url, conns, mu, calls, inFlight, admins>>

\* A woken thread has the lock again and goes round the loop; closed_ is not
\* looked at again.
Relock(t) ==
  /\ pc[t] = "woken" /\ Free
  /\ pc' = Move(t, "head") /\ mu' = t
  /\ UNCHANGED <<closed, url, conns, calls, inFlight, admins>>

\* wait_until() reports a timeout when the deadline has passed by the time the
\* lock is held again, whatever woke the thread; the loop is left at once.
TimesOut(t) ==
  /\ pc[t] = "late" \/ (pc[t] = "woken" /\ wait[t] = "timed")
  /\ Free
  /\ pc' = Move(t, Away(t)) /\ Forget(t)
  /\ UNCHANGED <<closed, url, conns, mu, client, from, inFlight, admins>>

-----------------------------------------------------------------------------
(* release() and discard(); which one the pool's own query() and its jobs    *)
(* call depends on what the connection answered.                             *)

GiveBack(t, bad) ==
  /\ pc[t] = "held" /\ Free
  /\ PutBack(owned, client[t], bad, Move(t, Away(t)))
  /\ client' = [client EXCEPT ![t] = NoClient]
  /\ UNCHANGED <<closed, url, opening, mu, wait, from, inFlight, admins>>

Release(t) == GiveBack(t, FALSE)
Discard(t) == GiveBack(t, TRUE)

-----------------------------------------------------------------------------
(* Asynchronous jobs on the thread pool. *)

\* Faulty: the job is not counted in when closed_ is checked.
SubmitUncounted(j) ==
  /\ pc[j] = "none" /\ Free /\ Callable /\ ~closed
  /\ pc' = Move(j, "queued")
  /\ UNCHANGED <<closed, url, conns, mu, calls, inFlight, admins>>

\* submit_job(): counted in under the lock; a closed pool refuses.
Submit(j) ==
  /\ pc[j] = "none" /\ Free /\ Callable /\ ~closed
  /\ inFlight' = inFlight + 1
  /\ pc' = Move(j, "queued")
  /\ UNCHANGED <<closed, url, conns, mu, calls, admins>>

\* Faulty: a job that was never launched stays counted in.
LaunchFailsCounted(j) ==
  /\ pc[j] = "queued" /\ "queue" \in Faults
  /\ pc' = Move(j, "ran")
  /\ UNCHANGED <<closed, url, conns, mu, calls, inFlight, admins>>

\* launch(): uv_queue_work refused the job.
LaunchFails(j) ==
  /\ pc[j] = "queued" /\ "queue" \in Faults
  /\ inFlight' = inFlight - 1
  /\ pc' = Move(j, "ran")
  /\ UNCHANGED <<closed, url, conns, mu, calls, admins>>

\* The end of run_pool_job(): from here on the job does not know the pool.
Leave(j) ==
  /\ pc[j] = "leaving"
  /\ inFlight' = inFlight - 1
  /\ pc' = Move(j, "ran")
  /\ UNCHANGED <<closed, url, conns, mu, calls, admins>>

-----------------------------------------------------------------------------
(* init(), close(), close_idle() and the destructor. *)

\* Faulty: the borrowed connections are freed as well.
CloseBodyFreesAll ==
  /\ Free
  /\ closed' = TRUE /\ url' = 0
  /\ owned' = {} /\ idle' = << >>
  /\ pc' = WakeAll(pc)
  /\ UNCHANGED <<opening, mu, calls, inFlight>>

\* Faulty: the idle connections stay.
CloseBodyKeepsIdle ==
  /\ Free
  /\ closed' = TRUE /\ url' = 0
  /\ pc' = WakeAll(pc)
  /\ UNCHANGED <<conns, mu, calls, inFlight>>

CloseBody ==
  /\ Free
  /\ closed' = TRUE /\ url' = 0
  /\ owned' = owned \ Range(idle) /\ idle' = << >>
  /\ pc' = WakeAll(pc)
  /\ UNCHANGED <<opening, mu, calls, inFlight>>

Close ==
  /\ admin = "idle"
  /\ CloseBody
  /\ UNCHANGED admins

\* init() closes the old generation first, ...
InitCloses ==
  /\ admin = "idle" /\ inits < MaxInits
  /\ SharedInit \/ \A t \in Thread : pc[t] \in {"out", "none", "ran"}
  /\ CloseBody
  /\ admin' = "closing" /\ inits' = inits + 1
  /\ UNCHANGED <<toOpen, initUrl>>

\* ... then sets the new one up ...
InitSets ==
  /\ admin = "closing" /\ Free
  /\ url' = inits /\ closed' = FALSE
  /\ toOpen' = MinSize
  /\ admin' = IF MinSize = 0 THEN "idle" ELSE "filling"
  /\ UNCHANGED <<conns, mu, pc, calls, inFlight, initUrl, inits>>

\* ... and opens MinSize connections one by one, whatever the pool holds.
InitReserves ==
  /\ admin = "filling" /\ Free
  /\ opening' = opening + 1 /\ initUrl' = url
  /\ admin' = "opening"
  /\ UNCHANGED <<closed, url, owned, idle, mu, pc, calls, inFlight,
                 toOpen, inits>>

InitOpens(c) ==
  /\ admin = "opening" /\ Free
  /\ initUrl # 0 /\ c \in Fresh
  /\ opening' = opening - 1
  /\ PutBack(owned \cup {<<c, initUrl>>}, <<c, initUrl>>, FALSE, pc)
  /\ toOpen' = toOpen - 1
  /\ admin' = (IF toOpen = 1 THEN "idle" ELSE "filling") /\ initUrl' = 0
  /\ UNCHANGED <<closed, url, mu, calls, inFlight, inits>>

\* One of them failed: the pool is closed again, what it opened stays.
InitFails ==
  /\ admin = "opening" /\ Free
  /\ initUrl = 0 \/ "open" \in Faults
  /\ opening' = opening - 1
  /\ closed' = TRUE
  /\ admin' = "idle" /\ toOpen' = 0 /\ initUrl' = 0
  /\ UNCHANGED <<url, owned, idle, mu, pc, calls, inFlight, inits>>

CloseIdle ==
  /\ admin = "idle" /\ Free
  /\ \E k \in Prunable(owned, idle) :
       /\ k + 1 \notin Prunable(owned, idle)
       /\ idle' = Rest(idle, k) /\ owned' = owned \ Cut(idle, k)
  /\ UNCHANGED <<closed, url, opening, mu, pc, calls, inFlight, admins>>

\* The destructor: no user thread is inside the pool or holds a connection
\* (its contract); jobs may be.
Destroy ==
  /\ admin = "idle" /\ Free
  /\ \A t \in User : pc[t] = "out"
  /\ closed' = TRUE
  /\ pc' = WakeAll(pc)
  /\ admin' = "winding"
  /\ UNCHANGED <<url, conns, mu, calls, inFlight, toOpen, initUrl, inits>>

\* wind_down() saw work_in_flight at zero; ~impl() frees everything.
Destroyed ==
  /\ admin = "winding" /\ inFlight = 0
  /\ admin' = "gone"
  /\ owned' = {} /\ idle' = << >>
  /\ UNCHANGED <<closed, url, opening, mu, pc, calls, inFlight, toOpen,
                 initUrl, inits>>

Gone == admin = "gone" /\ UNCHANGED vars

-----------------------------------------------------------------------------
\* What a thread does without being asked once it is inside the pool.
Proceed(t) ==
  \/ Round(t) \/ CheckPasses(t) \/ CheckFails(t)
  \/ (\E c \in Client : OpenSucceeds(t, c)) \/ OpenFails(t)
  \/ Relock(t) \/ TimesOut(t) \/ Expire(t)

\* A job waits as long as set_acquire_timeout_ms() says, which is never forever.
RunJob(j) ==
  \/ LaunchFails(j) \/ Leave(j)
  \/ \E how \in Patience \ {"forever"} : Acquire(j, how)

InitProceeds ==
  \/ InitSets \/ InitReserves \/ InitFails
  \/ \E c \in Client : InitOpens(c)

Next ==
  \/ \E t \in User, how \in Patience : Acquire(t, how)
  \/ \E j \in Job : Submit(j) \/ RunJob(j)
  \/ \E t \in Thread : Proceed(t) \/ WakeSpuriously(t) \/ Release(t) \/ Discard(t)
  \/ Close \/ InitCloses \/ InitProceeds \/ CloseIdle
  \/ Destroy \/ Destroyed \/ Gone

Spec == Init /\ [][Next]_vars

\* Threads run, deadlines pass, open() and ping() return, a queued job gets a
\* pool thread, and who borrows a connection gives it back.
Fairness ==
  /\ \A t \in Thread :
       WF_vars(Proceed(t)) /\ WF_vars(Release(t) \/ Discard(t))
  /\ \A j \in Job : WF_vars(RunJob(j))
  /\ WF_vars(InitProceeds)
  /\ WF_vars(Destroyed)

FairSpec == Spec /\ Fairness

-----------------------------------------------------------------------------
(* Properties. *)

\* Types, and who may be inside the loop of acquire_locked().
TypeOK ==
  /\ closed \in BOOLEAN /\ url \in 0..MaxInits
  /\ owned \subseteq Conn /\ idle \in Seq(Conn) /\ opening \in Nat
  /\ mu \in Thread \cup {Nobody}
  /\ pc \in [Thread -> At]
  /\ \A t \in Thread : pc[t] = "head" <=> mu = t
  /\ wait \in [Thread -> {"try", "timed", "forever"}]
  /\ client \in [Thread -> Conn \cup {NoClient}]
  /\ from \in [Thread -> 0..MaxInits]
  /\ inFlight \in Nat
  /\ admin \in {"idle", "closing", "filling", "opening", "winding", "gone"}
  /\ toOpen \in 0..MinSize /\ initUrl \in 0..MaxInits /\ inits \in 0..MaxInits

\* Every connection the pool owns is in exactly one place: in idle_ once, or in
\* the hands of one thread.  So none is lent twice or while it is idle, none is
\* freed under its borrower by close(), close_idle(), pruning or a second
\* init(), and none is leaked (uvcpp_db_pool.h on ownership).
HasClient(t) == pc[t] \in {"check", "held"}
OnePlace ==
  /\ \A i, j \in 1..Len(idle) : idle[i] = idle[j] => i = j
  /\ \A t \in Thread : HasClient(t) => client[t] \in owned \ Range(idle)
  /\ \A t, u \in Thread :
       HasClient(t) /\ HasClient(u) /\ client[t] = client[u] => t = u
  /\ owned = Range(idle) \cup {client[t] : t \in {u \in Thread : HasClient(u)}}

\* A place reserved for open() is given back on every path out of it, so the
\* pool never counts itself smaller than it is (open_into_locked).
Reservations ==
  opening = Cardinality({t \in Thread : pc[t] = "opening"})
              + (IF admin = "opening" THEN 1 ELSE 0)

\* The destructor outlasts every job: when the members go, no job is between
\* its submission and its last touch of the pool (comment on wind_down).
NoJobOutlivesPool ==
  admin = "gone" =>
    \A t \in Thread : pc[t] \in {"out", "none", "ran"} /\ mu = Nobody

\* The destructor returns, whatever its jobs are waiting for.
DestroyReturns == admin = "winding" ~> admin = "gone"

\* The pool never holds or opens more than max connections, when init() has the
\* pool to itself (uvcpp_db_pool.h: max_size() is the upper limit).
Cap == Cardinality(owned) + opening <= MaxSize

\* A connection that can be lent goes to the database of the last init().
OnlyCurrentUrl == \A c \in Range(idle) : c[2] = url

\* Once a closed pool is left alone nothing of it remains: idle connections go
\* in close(), borrowed ones when they come back, even one whose open() was
\* under way (header comments of close() and init()).
NothingOutlivesClose ==
  closed /\ admin \in {"idle", "gone"} /\ (\A t \in Thread : ~HasClient(t))
    => owned = {}

\* A thread sleeps only while there is nothing to have, or a thread that has
\* been woken will see to it (comments in put_back_locked: a freed place goes to
\* whoever waits, and waking before pushing would lose the wakeup).
NoLostWakeup ==
  ~closed /\ Asleep(pc) # {} /\ (idle # << >> \/ Room(owned)) =>
    \E t \in Thread : pc[t] \in {"woken", "head"}

\* On an open pool it never comes to stay that threads wait in acquire() while
\* nobody has a connection or is opening one.
Starved ==
  /\ \E t \in Thread : pc[t] \in {"asleep", "woken", "head"}
  /\ \A t \in Thread : pc[t] \notin {"check", "opening", "held"}
PoolServes == []<>(~Starved \/ closed)

\* Borrowing implements the leases: whatever init(), close(), close_idle(),
\* pruning, failed checks and other borrowers do, a borrowed connection stays
\* alive and its borrower's until he gives it back.
L == INSTANCE Leases WITH Holder <- Thread, have <- owned,
       lent <- {[holder |-> t, conn |-> client[t]] : t \in {u \in Thread : HasClient(u)}}
Implements == L!Spec
=============================================================================
