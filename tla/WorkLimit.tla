----------------------------- MODULE WorkLimit -----------------------------
(***************************************************************************)
(* The admission gate of src/webapp/uvcpp_web_work_limit.cpp and its two   *)
(* kinds of users: file transfers, which take a slot per read on the loop  *)
(* thread and ask to be woken when there is none, and the whole-file jobs  *)
(* of uvcpp_web_static.cpp, which take and return slots on threads of the  *)
(* libuv pool.                                                             *)
(*                                                                         *)
(* The counter is atomic and the table of wakeups has a lock, but each     *)
(* call reads them one after the other: every such access is a step.  The  *)
(* loop thread is one thread of control: `loop' is where it is, and the    *)
(* nesting of its calls is in `notifying' and `outer'.                     *)
(***************************************************************************)
EXTENDS Naturals, FiniteSets

CONSTANTS
  Transfer,    \* file transfers on the loop
  Job,         \* whole-file jobs, each one request
  NoTransfer,
  Limits,      \* the values set_limit() is called with; 0 is "no limit"
  MaxChanges   \* bound on the calls of set_limit()

ASSUME TransferAssumption == NoTransfer \notin Transfer
ASSUME FiniteAssumption == IsFiniteSet(Transfer) /\ IsFiniteSet(Job)
ASSUME LimitsAssumption == Limits \subseteq Nat /\ MaxChanges \in Nat

VARIABLES
  limit,      \* limit_
  inFlight,   \* in_flight_
  wakeups,    \* wakeups_: whose callback is in the table
  notifying,  \* notifying_
  again,      \* notify_again_
  ids,        \* notify_wakeups()'s snapshot, what is left of it
  loop,       \* where the loop thread is
  cur,        \* the transfer whose submit_read() or submit_close() is running
  outer,      \* the transfer whose on_read_done() is under everything else
  state,      \* [Transfer -> state_]
  job,        \* [Job -> where the job is]
  owed,       \* slot_deferred: jobs that owe a dispatch_wakeups()
  changes,    \* calls of set_limit() so far
  behind      \* history: transfers in the table when a slot was given back

gate == <<limit, inFlight, changes>>
dispatch == <<notifying, again, ids>>
vars == <<gate, wakeups, dispatch, loop, cur, outer, state, job, owed, behind>>

Full == limit # 0 /\ inFlight >= limit

Init ==
  /\ limit \in Limits /\ inFlight = 0 /\ changes = 0
  /\ wakeups = {} /\ notifying = FALSE /\ again = FALSE /\ ids = {}
  /\ loop = "idle" /\ cur = NoTransfer /\ outer = NoTransfer
  /\ state = [t \in Transfer |-> "ready"]
  /\ job = [j \in Job |-> "queued"] /\ owed = {}
  /\ behind = {}

SetLimit(l) ==
  /\ changes < MaxChanges
  /\ limit' = l /\ changes' = changes + 1
  /\ UNCHANGED <<inFlight, wakeups, dispatch, loop, cur, outer, state, job, owed,
                 behind>>

-----------------------------------------------------------------------------
(* The loop thread: what it does next when a call returns. *)

Caller == IF notifying THEN "next"
          ELSE IF outer # NoTransfer THEN "goOn" ELSE "idle"

\* submit_read() of a transfer: its first read, or the sink resumed it.  A
\* transfer that waits for a slot may be resumed too.
Resume(t) ==
  /\ loop = "idle" /\ state[t] \in {"ready", "paused"}
  /\ loop' = "acquire" /\ cur' = t
  /\ UNCHANGED <<gate, wakeups, dispatch, outer, state, job, owed, behind>>

\* acquire() succeeded and the read is under way ...
StartRead ==
  /\ loop = "acquire" /\ ~Full
  /\ inFlight' = inFlight + 1
  /\ state' = [state EXCEPT ![cur] = "reading"]
  /\ loop' = Caller /\ cur' = NoTransfer
  /\ UNCHANGED <<limit, changes, wakeups, dispatch, outer, job, owed, behind>>

\* Faulty: a read that was refused keeps its slot.
ReadRefusedLeaks ==
  /\ loop = "acquire" /\ ~Full
  /\ inFlight' = inFlight + 1
  /\ state' = [state EXCEPT ![cur] = "done"]
  /\ wakeups' = wakeups \ {cur} /\ behind' = behind \ {cur}
  /\ loop' = Caller /\ cur' = NoTransfer
  /\ UNCHANGED <<limit, changes, dispatch, outer, job, owed>>

\* ... or it could not even be submitted: submit_close() gives the slot back on
\* the same stack.
ReadRefused ==
  /\ loop = "acquire" /\ ~Full
  /\ inFlight' = inFlight + 1
  /\ state' = [state EXCEPT ![cur] = "done"]
  /\ wakeups' = wakeups \ {cur} /\ behind' = behind \ {cur}
  /\ loop' = "release" /\ cur' = NoTransfer
  /\ UNCHANGED <<limit, changes, dispatch, outer, job, owed>>

\* acquire() failed: the transfer pauses ...
NoSlot ==
  /\ loop = "acquire" /\ Full
  /\ state' = [state EXCEPT ![cur] = "paused"]
  /\ loop' = "register"
  /\ UNCHANGED <<gate, wakeups, dispatch, cur, outer, job, owed, behind>>

\* ... and, unless it is in the table already, asks to be woken.
AddWakeup ==
  /\ loop = "register"
  /\ wakeups' = wakeups \cup {cur}
  /\ loop' = Caller /\ cur' = NoTransfer
  /\ UNCHANGED <<gate, dispatch, outer, state, job, owed, behind>>

\* on_read_done(): the slot goes back before anything else, after the transfer
\* has left the table.
ReadDone(t) ==
  /\ loop = "idle" /\ state[t] = "reading"
  /\ state' = [state EXCEPT ![t] = "delivering"]
  /\ wakeups' = wakeups \ {t} /\ behind' = behind \ {t}
  /\ loop' = "release" /\ outer' = t
  /\ UNCHANGED <<gate, dispatch, cur, job, owed>>

\* The rest of on_read_done(): the transfer is finished, or its sink is full, or
\* it reads on.
GoOn ==
  /\ loop = "goOn"
  /\ outer' = NoTransfer
  /\ \/ /\ state' = [state EXCEPT ![outer] = "done"]
        /\ loop' = "idle" /\ UNCHANGED cur
     \/ /\ state' = [state EXCEPT ![outer] = "ready"]
        /\ loop' = "idle" /\ UNCHANGED cur
     \/ /\ state' = [state EXCEPT ![outer] = "ready"]
        /\ loop' = "acquire" /\ cur' = outer
  /\ UNCHANGED <<gate, wakeups, dispatch, job, owed, behind>>

\* cancel() of a transfer with no read under way.
Cancel(t) ==
  /\ loop = "idle" /\ state[t] \in {"ready", "paused"}
  /\ state' = [state EXCEPT ![t] = "done"]
  /\ wakeups' = wakeups \ {t} /\ behind' = behind \ {t}
  /\ UNCHANGED <<gate, dispatch, loop, cur, outer, job, owed>>

-----------------------------------------------------------------------------
(* release(), dispatch_wakeups() and notify_wakeups() on the loop thread. *)

Release ==
  /\ loop = "release"
  /\ IF inFlight = 0
     THEN loop' = Caller /\ UNCHANGED <<inFlight, behind>>
     ELSE /\ inFlight' = inFlight - 1
          /\ behind' = behind \cup wakeups
          /\ loop' = "full"
  /\ UNCHANGED <<limit, changes, wakeups, dispatch, cur, outer, state, job, owed>>

CheckFull ==
  /\ loop = "full"
  /\ loop' = IF Full THEN Caller ELSE "empty"
  /\ UNCHANGED <<gate, wakeups, dispatch, cur, outer, state, job, owed, behind>>

\* Faulty: a nested release is dropped instead of noted.
CheckEmptyDropsNested ==
  /\ loop = "empty"
  /\ IF wakeups = {} \/ notifying
     THEN loop' = Caller /\ UNCHANGED notifying
     ELSE loop' = "snapshot" /\ notifying' = TRUE
  /\ UNCHANGED <<gate, wakeups, again, ids, cur, outer, state, job, owed, behind>>

\* Nobody waits; or a dispatch is already on the stack and is told to go round
\* again; or one begins.
CheckEmpty ==
  /\ loop = "empty"
  /\ IF wakeups = {}
     THEN loop' = Caller /\ UNCHANGED <<notifying, again>>
     ELSE IF notifying
     THEN loop' = "next" /\ again' = TRUE /\ UNCHANGED notifying
     ELSE loop' = "snapshot" /\ notifying' = TRUE /\ UNCHANGED again
  /\ UNCHANGED <<gate, wakeups, ids, cur, outer, state, job, owed, behind>>

Snapshot ==
  /\ loop = "snapshot"
  /\ ids' = wakeups /\ again' = FALSE
  /\ loop' = "next"
  /\ UNCHANGED <<gate, wakeups, notifying, cur, outer, state, job, owed, behind>>

\* The next id of the snapshot that is still in the table: taken out, then its
\* callback runs, which does nothing unless the transfer is paused.
Notify(t) ==
  /\ loop = "next" /\ t \in ids
  /\ ids' = ids \ {t}
  /\ wakeups' = wakeups \ {t} /\ behind' = behind \ {t}
  /\ IF t \in wakeups /\ state[t] = "paused"
     THEN loop' = "acquire" /\ cur' = t
     ELSE UNCHANGED <<loop, cur>>
  /\ UNCHANGED <<gate, notifying, again, outer, state, job, owed>>

\* Faulty: the dispatch ends after the first callback.
EndRoundEarly ==
  /\ loop = "next"
  /\ notifying' = FALSE
  /\ loop' = IF outer # NoTransfer THEN "goOn" ELSE "idle"
  /\ UNCHANGED <<gate, wakeups, again, ids, cur, outer, state, job, owed, behind>>

\* Faulty: rounds go on until the table is empty, slot or no slot.
EndRoundUntilEmpty ==
  /\ loop = "next" /\ ids = {}
  /\ loop' = "again"
  /\ UNCHANGED <<gate, wakeups, dispatch, cur, outer, state, job, owed, behind>>

\* The snapshot is through: another round if a nested release asked for one,
\* there is a slot, and somebody waits.
EndRound ==
  /\ loop = "next" /\ ids = {}
  /\ IF again /\ ~Full
     THEN loop' = "again" /\ UNCHANGED notifying
     ELSE /\ notifying' = FALSE
          /\ loop' = IF outer # NoTransfer THEN "goOn" ELSE "idle"
  /\ UNCHANGED <<gate, wakeups, again, ids, cur, outer, state, job, owed, behind>>

GoRoundAgain ==
  /\ loop = "again"
  /\ IF wakeups # {}
     THEN loop' = "snapshot" /\ UNCHANGED notifying
     ELSE /\ notifying' = FALSE
          /\ loop' = IF outer # NoTransfer THEN "goOn" ELSE "idle"
  /\ UNCHANGED <<gate, wakeups, again, ids, cur, outer, state, job, owed, behind>>

-----------------------------------------------------------------------------
(* The jobs: run_job() on a pool thread, after_work on the loop. *)

JobAcquires(j) ==
  /\ job[j] = "queued" /\ ~Full
  /\ inFlight' = inFlight + 1
  /\ job' = [job EXCEPT ![j] = "reading"]
  /\ UNCHANGED <<limit, changes, wakeups, dispatch, loop, cur, outer, state, owed,
                 behind>>

\* No slot: the request is answered with 503 on the loop.
JobRejected(j) ==
  /\ job[j] = "queued" /\ Full
  /\ job' = [job EXCEPT ![j] = "worked"]
  /\ UNCHANGED <<gate, wakeups, dispatch, loop, cur, outer, state, owed, behind>>

\* release_deferred(): the slot goes back ...
JobReleases(j) ==
  /\ job[j] = "reading"
  /\ IF inFlight = 0
     THEN job' = [job EXCEPT ![j] = "worked"] /\ UNCHANGED <<inFlight, behind>>
     ELSE /\ inFlight' = inFlight - 1
          /\ behind' = behind \cup wakeups
          /\ job' = [job EXCEPT ![j] = "released"]
  /\ UNCHANGED <<limit, changes, wakeups, dispatch, loop, cur, outer, state, owed>>

\* ... then the gate is looked at ...
JobChecksFull(j) ==
  /\ job[j] = "released"
  /\ job' = [job EXCEPT ![j] = IF Full THEN "worked" ELSE "checking"]
  /\ UNCHANGED <<gate, wakeups, dispatch, loop, cur, outer, state, owed, behind>>

\* Faulty: the job does not remember that it owes a dispatch.
JobChecksEmptyForgets(j) ==
  /\ job[j] = "checking"
  /\ job' = [job EXCEPT ![j] = "worked"]
  /\ UNCHANGED <<gate, wakeups, dispatch, loop, cur, outer, state, owed, behind>>

\* ... and then the table: a dispatch is owed if somebody is in it.
JobChecksEmpty(j) ==
  /\ job[j] = "checking"
  /\ job' = [job EXCEPT ![j] = "worked"]
  /\ owed' = IF wakeups # {} THEN owed \cup {j} ELSE owed
  /\ UNCHANGED <<gate, wakeups, dispatch, loop, cur, outer, state, behind>>

\* after_work on the loop thread: an owed dispatch is made up for.
AfterWork(j) ==
  /\ job[j] = "worked" /\ loop = "idle"
  /\ job' = [job EXCEPT ![j] = "done"]
  /\ owed' = owed \ {j}
  /\ loop' = IF j \in owed THEN "full" ELSE "idle"
  /\ UNCHANGED <<gate, wakeups, dispatch, cur, outer, state, behind>>

-----------------------------------------------------------------------------
LoopStep ==
  \/ StartRead \/ ReadRefused \/ NoSlot \/ AddWakeup \/ GoOn
  \/ Release \/ CheckFull \/ CheckEmpty \/ Snapshot \/ EndRound \/ GoRoundAgain
  \/ \E t \in Transfer : Notify(t)

JobStep(j) ==
  \/ JobAcquires(j) \/ JobRejected(j)
  \/ JobReleases(j) \/ JobChecksFull(j) \/ JobChecksEmpty(j)

Next ==
  \/ \E l \in Limits : SetLimit(l)
  \/ \E t \in Transfer : Resume(t) \/ ReadDone(t) \/ Cancel(t)
  \/ LoopStep
  \/ \E j \in Job : JobStep(j) \/ AfterWork(j)

Spec == Init /\ [][Next]_vars

\* A thread that can run does; libuv gets round to every finished request, so
\* a completion that is ready again and again is delivered.
Fairness ==
  /\ WF_vars(LoopStep)
  /\ \A j \in Job : WF_vars(JobStep(j)) /\ SF_vars(AfterWork(j))
  /\ \A t \in Transfer : SF_vars(ReadDone(t))

FairSpec == Spec /\ Fairness

-----------------------------------------------------------------------------
(* Properties. *)

\* Types, and the discipline of the loop's stack: a dispatch is under way
\* exactly when its flag is up, and the snapshot is empty otherwise.
TypeOK ==
  /\ limit \in Limits /\ inFlight \in Nat /\ changes \in 0..MaxChanges
  /\ wakeups \subseteq Transfer /\ ids \subseteq Transfer
  /\ behind \subseteq wakeups
  /\ notifying \in BOOLEAN /\ again \in BOOLEAN
  /\ loop \in {"idle", "acquire", "register", "goOn", "release", "full", "empty",
               "snapshot", "next", "again"}
  /\ cur \in Transfer \cup {NoTransfer} /\ outer \in Transfer \cup {NoTransfer}
  /\ cur # NoTransfer <=> loop \in {"acquire", "register"}
  /\ ~notifying => ids = {} /\ loop \notin {"snapshot", "next", "again"}
  /\ state \in [Transfer -> {"ready", "paused", "reading", "delivering", "done"}]
  /\ job \in [Job -> {"queued", "reading", "released", "checking", "worked", "done"}]
  /\ owed \subseteq Job

\* The counter is the number of slots in use, on both threads and on every way
\* out: none leaks and none is given back twice, so the clamp at zero never
\* hides an error (header comment: returns pair with acquires one to one).
SlotsInUse ==
  Cardinality({t \in Transfer : state[t] = "reading"})
    + Cardinality({j \in Job : job[j] = "reading"})
    + (IF loop = "release" THEN 1 ELSE 0)
NoSlotLeak == inFlight = SlotsInUse

\* Somebody is going to look at the table again, or is doing so.
DispatchAhead ==
  \/ notifying \/ loop \in {"full", "empty"}
  \/ \E j \in Job : job[j] \in {"released", "checking"} \/ j \in owed

\* A transfer in the table behind which a slot was given back is not forgotten:
\* whatever was nested, rejected or re-registered meanwhile, while no slot is in
\* use a dispatch is still ahead (comments in dispatch_wakeups, notify_wakeups).
ReleaseSeesWaiters ==
  behind # {} /\ inFlight = 0 => DispatchAhead

\* ... so it is called, or it leaves the table on its own.
WaiterIsCalled == \A t \in Transfer : t \in behind ~> t \notin behind

\* A dispatch ends, however often its callbacks release and register again.
DispatchEnds == notifying ~> ~notifying

\* What the header says of release_deferred(): who waits registered because the
\* gate was full, the holder's look at the table comes after that registration,
\* and so no waiter is missed.  (The registration is a step of its own, after
\* the failed acquire().)
NoStrandedWaiter ==
  wakeups # {} /\ inFlight = 0 => DispatchAhead
=============================================================================
