-------------------------- MODULE LoopWorkerProofs --------------------------
(***************************************************************************)
(* What TLAPS proves of LoopWorker, for every set of tasks and posters and *)
(* every number of starts.  IInv is inductive; the safety properties the   *)
(* runs check follow from it.                                              *)
(***************************************************************************)
EXTENDS LoopWorker, TLAPS

Item == Task \cup {Stop}

\* Where the worker is when the mailbox handle exists.
Attached == {"poll", "drain", "run", "detach"} \cup UserCode

\* The handle, the lock and the thread agree on where the worker is.
Places ==
  /\ async <=> worker \in Attached
  /\ sent => async
  /\ mu # Nobody => async
  /\ loop => worker \notin {"none", "done"}
  /\ batch # << >> => worker \in {"run", "body"}
  /\ ~joinable => worker = "none"
  /\ owner = "gone" => ~joinable
  /\ owner = "joining" => joinable

\* The gate: who knows that it is shut, and what is left behind it.
Gate ==
  /\ uvStop => stopping
  /\ final => stopping
  /\ worker \in {"exitHook", "detach", "close"} => failed \/ final
  /\ final /\ worker # "drain" => q = << >> /\ mu = Nobody
  /\ stopping => ran # << >> /\ ran[Len(ran)] = Stop
  /\ \A i \in 1..Len(ran) : ran[i] = Stop => stopping /\ i = Len(ran)

\* Until the gate shuts, what was accepted is what ran, then the batch, then
\* the queue.
Ledger ==
  /\ Fifo
  /\ ~stopping /\ owner # "gone" =>
       /\ Len(log) = Len(ran) + Len(batch) + Len(q)
       /\ \A i \in 1..Len(batch) : batch[i] = log[Len(ran) + i]
       /\ \A i \in 1..Len(q) : q[i] = log[Len(ran) + Len(batch) + i]

\* The first thread starts on an empty mailbox.
FirstThread ==
  /\ starts = 0 => q = << >> /\ worker = "none"
  /\ starts = 1 /\ worker = "init" => q = << >>
  /\ NoLostWakeup

IInv == TypeOK /\ Places /\ Gate /\ Ledger /\ FirstThread

LEMMA FreshIsTask == \A t \in Fresh : t \in Task
  BY DEF Fresh

-----------------------------------------------------------------------------
(* What appending to and taking from a mailbox does. *)

LEMMA AppendFacts ==
  ASSUME NEW s \in Seq(Item), NEW x \in Item
  PROVE  /\ Append(s, x) \in Seq(Item)
         /\ Len(Append(s, x)) = Len(s) + 1
         /\ Append(s, x)[Len(s) + 1] = x
         /\ \A i \in 1..Len(s) : Append(s, x)[i] = s[i]
         /\ Append(s, x) # << >>
  OBVIOUS

LEMMA TailFacts ==
  ASSUME NEW s \in Seq(Item), s # << >>
  PROVE  /\ Tail(s) \in Seq(Item)
         /\ Head(s) = s[1] /\ Head(s) \in Item
         /\ Len(s) \in Nat /\ Len(s) >= 1
         /\ Len(Tail(s)) = Len(s) - 1
         /\ \A i \in 1..(Len(s) - 1) : Tail(s)[i] = s[i + 1]
  OBVIOUS

\* The thread in the middle of post() holds a task, the lock and a live handle.
LEMMA PushFacts ==
  ASSUME TypeOK, Places, NEW p \in Poster, PostPush(p)
  PROVE  /\ posting[p] \in Task
         /\ mu # Nobody /\ async /\ worker \in Attached
  BY PosterAssumption DEF TypeOK, Places, PostPush

LEMMA TypeStep ==
  ASSUME TypeOK, [Next]_vars
  PROVE  TypeOK'
<1>. USE DEF TypeOK, WorkerAt, UserCode, vars, owners, threads, handles, boxes, history, posts
<1>1. CASE Start
  <2>1. starts' \in 0..MaxStarts
    BY <1>1, BoundAssumption DEF Start
  <2>2. /\ worker' \in WorkerAt /\ failed' \in BOOLEAN /\ final' \in BOOLEAN
        /\ loop' \in BOOLEAN /\ joinable' \in BOOLEAN
    BY <1>1 DEF Start
  <2>. QED
    BY <1>1, <2>1, <2>2 DEF Start
<1>2. CASE StopRequest
  BY <1>2, AppendFacts DEF StopRequest, Item
<1>3. CASE Join
  BY <1>3 DEF Join
<1>4. CASE Destroy
  <2>1. joinable' \in BOOLEAN /\ loop' \in BOOLEAN
    BY <1>4 DEF Destroy
  <2>2. q' \in Seq(Task \cup {Stop})
    BY <1>4 DEF Destroy
  <2>. QED
    BY <1>4, <2>1, <2>2 DEF Destroy
<1>5. ASSUME NEW p \in Poster, NEW t \in Fresh, PostRefused(p, t)
       PROVE  TypeOK'
  BY <1>5, FreshIsTask DEF PostRefused
<1>6. ASSUME NEW p \in Poster, NEW t \in Fresh, PostCheck(p, t)
       PROVE  TypeOK'
  BY <1>6, FreshIsTask, TaskAssumption, PosterAssumption DEF PostCheck
<1>7. ASSUME NEW p \in Poster, PostPush(p)
       PROVE  TypeOK'
  BY <1>7, TaskAssumption, PosterAssumption, AppendFacts DEF PostPush, Item
<1>8. CASE InitAsync
  BY <1>8 DEF InitAsync
<1>9. CASE InitFails
  BY <1>9 DEF InitFails
<1>10. ASSUME NEW t \in Fresh, SelfPost(t)
       PROVE  TypeOK'
  <2>1. t \in Task /\ t \in Item
    BY FreshIsTask DEF Item
  <2>2. CASE async /\ ~stopping
    BY <1>10, <2>1, <2>2, AppendFacts DEF SelfPost, Item
  <2>3. CASE ~(async /\ ~stopping)
    BY <1>10, <2>1, <2>3 DEF SelfPost
  <2>. QED
    BY <2>2, <2>3
<1>11. CASE StartHookReturns
  BY <1>11 DEF StartHookReturns
<1>12. CASE StartHookThrows
  BY <1>12 DEF StartHookThrows
<1>13. CASE Wake
  BY <1>13 DEF Wake
<1>14. CASE LeaveLoop
  BY <1>14 DEF LeaveLoop
<1>15. CASE Swap
  BY <1>15 DEF Swap
<1>16. CASE BeginTask
  BY <1>16, TailFacts, AppendFacts DEF BeginTask, Item
<1>17. CASE EndTask
  BY <1>17 DEF EndTask
<1>18. CASE RunStop
  BY <1>18, TailFacts, AppendFacts DEF RunStop, Item
<1>19. CASE EndDrain
  BY <1>19 DEF EndDrain
<1>20. CASE ExitHookReturns
  BY <1>20 DEF ExitHookReturns
<1>21. CASE Detach
  BY <1>21 DEF Detach
<1>22. CASE CloseLoop
  BY <1>22 DEF CloseLoop
<1>23. CASE UNCHANGED vars
  BY <1>23
<1>. QED
  BY <1>1, <1>2, <1>3, <1>4, <1>5, <1>6, <1>7, <1>8, <1>9, <1>10, <1>11, <1>12, <1>13, <1>14, <1>15, <1>16, <1>17, <1>18, <1>19, <1>20, <1>21, <1>22, <1>23 DEF Next, WorkerStep, Gone

LEMMA PlacesStep ==
  ASSUME TypeOK, Places, [Next]_vars
  PROVE  Places'
<1>. USE DEF Places, Attached, TypeOK, WorkerAt, UserCode, vars, owners, threads, handles, boxes, history, posts
<1>1. CASE Start
  BY <1>1 DEF Start
<1>2. CASE StopRequest
  BY <1>2 DEF StopRequest
<1>3. CASE Join
  BY <1>3 DEF Join
<1>4. CASE Destroy
  BY <1>4 DEF Destroy
<1>5. ASSUME NEW p \in Poster, NEW t \in Fresh, PostRefused(p, t)
       PROVE  Places'
  BY <1>5 DEF PostRefused
<1>6. ASSUME NEW p \in Poster, NEW t \in Fresh, PostCheck(p, t)
       PROVE  Places'
  BY <1>6 DEF PostCheck
<1>7. ASSUME NEW p \in Poster, PostPush(p)
       PROVE  Places'
  BY <1>7, PushFacts DEF PostPush
<1>8. CASE InitAsync
  BY <1>8 DEF InitAsync
<1>9. CASE InitFails
  BY <1>9 DEF InitFails
<1>10. ASSUME NEW t \in Fresh, SelfPost(t)
       PROVE  Places'
  BY <1>10 DEF SelfPost
<1>11. CASE StartHookReturns
  BY <1>11 DEF StartHookReturns
<1>12. CASE StartHookThrows
  BY <1>12 DEF StartHookThrows
<1>13. CASE Wake
  BY <1>13 DEF Wake
<1>14. CASE LeaveLoop
  BY <1>14 DEF LeaveLoop
<1>15. CASE Swap
  BY <1>15 DEF Swap
<1>16. CASE BeginTask
  BY <1>16 DEF BeginTask
<1>17. CASE EndTask
  BY <1>17 DEF EndTask
<1>18. CASE RunStop
  BY <1>18 DEF RunStop
<1>19. CASE EndDrain
  BY <1>19 DEF EndDrain
<1>20. CASE ExitHookReturns
  BY <1>20 DEF ExitHookReturns
<1>21. CASE Detach
  BY <1>21 DEF Detach
<1>22. CASE CloseLoop
  BY <1>22 DEF CloseLoop
<1>23. CASE UNCHANGED vars
  BY <1>23
<1>. QED
  BY <1>1, <1>2, <1>3, <1>4, <1>5, <1>6, <1>7, <1>8, <1>9, <1>10, <1>11, <1>12, <1>13, <1>14, <1>15, <1>16, <1>17, <1>18, <1>19, <1>20, <1>21, <1>22, <1>23 DEF Next, WorkerStep, Gone

LEMMA GateStep ==
  ASSUME TypeOK, Places, Gate, [Next]_vars
  PROVE  Gate'
<1>. USE DEF Places, Attached, Gate, TypeOK, WorkerAt, UserCode, vars, owners, threads, handles, boxes, history, posts
<1>1. CASE Start
  BY <1>1 DEF Start
<1>2. CASE StopRequest
  BY <1>2 DEF StopRequest
<1>3. CASE Join
  BY <1>3 DEF Join
<1>4. CASE Destroy
  BY <1>4 DEF Destroy
<1>5. ASSUME NEW p \in Poster, NEW t \in Fresh, PostRefused(p, t)
       PROVE  Gate'
  BY <1>5 DEF PostRefused
<1>6. ASSUME NEW p \in Poster, NEW t \in Fresh, PostCheck(p, t)
       PROVE  Gate'
  BY <1>6 DEF PostCheck
<1>7. ASSUME NEW p \in Poster, PostPush(p)
       PROVE  Gate'
  BY <1>7, PushFacts DEF PostPush
<1>8. CASE InitAsync
  BY <1>8 DEF InitAsync
<1>9. CASE InitFails
  BY <1>9 DEF InitFails
<1>10. ASSUME NEW t \in Fresh, SelfPost(t)
       PROVE  Gate'
  BY <1>10 DEF SelfPost
<1>11. CASE StartHookReturns
  BY <1>11 DEF StartHookReturns
<1>12. CASE StartHookThrows
  BY <1>12 DEF StartHookThrows
<1>13. CASE Wake
  BY <1>13 DEF Wake
<1>14. CASE LeaveLoop
  BY <1>14 DEF LeaveLoop
<1>15. CASE Swap
  BY <1>15 DEF Swap
<1>16. CASE BeginTask
  <2>1. /\ ran \in Seq(Item) /\ Head(batch) \in Item /\ Head(batch) # Stop
        /\ ran' = Append(ran, Head(batch))
    BY <1>16, TailFacts DEF BeginTask, Item
  <2>2. \A i \in 1..Len(ran') : ran'[i] # Stop
    BY <1>16, <2>1, AppendFacts DEF BeginTask
  <2>. QED
    BY <1>16, <2>2 DEF BeginTask
<1>17. CASE EndTask
  BY <1>17 DEF EndTask
<1>18. CASE RunStop
  BY <1>18 DEF RunStop
<1>19. CASE EndDrain
  BY <1>19 DEF EndDrain
<1>20. CASE ExitHookReturns
  BY <1>20 DEF ExitHookReturns
<1>21. CASE Detach
  BY <1>21 DEF Detach
<1>22. CASE CloseLoop
  BY <1>22 DEF CloseLoop
<1>23. CASE UNCHANGED vars
  BY <1>23
<1>. QED
  BY <1>1, <1>2, <1>3, <1>4, <1>5, <1>6, <1>7, <1>8, <1>9, <1>10, <1>11, <1>12, <1>13, <1>14, <1>15, <1>16, <1>17, <1>18, <1>19, <1>20, <1>21, <1>22, <1>23 DEF Next, WorkerStep, Gone

\* Accepting an item: post() by a poster or by the worker, and the stop task.
LEMMA PushKeepsLedger ==
  ASSUME TypeOK, Ledger, NEW m \in Item, owner # "gone",
         q' = Append(q, m), log' = Append(log, m),
         UNCHANGED <<ran, batch, stopping>>
  PROVE  Ledger'
<1>. USE DEF TypeOK, Ledger, Fifo
<1>1. /\ q \in Seq(Item) /\ log \in Seq(Item)
      /\ ran \in Seq(Item) /\ batch \in Seq(Item)
  BY DEF Item
<1>2. Fifo'
  BY <1>1, AppendFacts
<1>3. CASE stopping
  BY <1>2, <1>3
<1>4. CASE ~stopping
  <2>1. Len(log') = Len(ran') + Len(batch') + Len(q')
    BY <1>1, <1>4, AppendFacts
  <2>2. ASSUME NEW i \in 1..Len(batch') PROVE batch'[i] = log'[Len(ran') + i]
    BY <1>1, <1>4, AppendFacts
  <2>3. ASSUME NEW i \in 1..Len(q')
        PROVE  q'[i] = log'[Len(ran') + Len(batch') + i]
    <3>1. /\ Len(log) = Len(ran) + Len(batch) + Len(q)
          /\ Len(q') = Len(q) + 1 /\ q'[Len(q) + 1] = m
          /\ log'[Len(log) + 1] = m
      BY <1>1, <1>4, AppendFacts
    <3>2. CASE i = Len(q) + 1
      BY <1>1, <3>1, <3>2
    <3>3. CASE i \in 1..Len(q)
      <4>1. /\ q'[i] = q[i]
            /\ q[i] = log[Len(ran) + Len(batch) + i]
        BY <1>1, <1>4, <3>1, <3>3, AppendFacts
      <4>2. Len(ran) + Len(batch) + i \in 1..Len(log)
        <5>1. Len(ran) \in Nat /\ Len(batch) \in Nat /\ Len(q) \in Nat
          BY <1>1
        <5>. QED
          BY <3>1, <3>3, <5>1
      <4>. QED
        BY <1>1, <4>1, <4>2, AppendFacts
    <3>4. Len(q) \in Nat /\ i \in 1..(Len(q) + 1)
      BY <1>1, <3>1
    <3>5. i = Len(q) + 1 \/ i \in 1..Len(q)
      BY <3>4
    <3>. QED
      BY <3>2, <3>3, <3>5
  <2>. QED
    BY <1>2, <2>1, <2>2, <2>3
<1>. QED
  BY <1>3, <1>4

\* Calling the next item of the batch.
LEMMA TakeKeepsLedger ==
  ASSUME TypeOK, Ledger, ~stopping, owner # "gone", batch # << >>,
         batch' = Tail(batch), ran' = Append(ran, Head(batch)),
         UNCHANGED <<q, log>>
  PROVE  Ledger'
<1>. USE DEF TypeOK, Ledger, Fifo
<1>1. /\ q \in Seq(Item) /\ log \in Seq(Item)
      /\ ran \in Seq(Item) /\ batch \in Seq(Item) /\ Head(batch) \in Item
  BY TailFacts DEF Item
<1>2. Head(batch) = log[Len(ran) + 1]
  BY <1>1, TailFacts
<1>3. Fifo'
  BY <1>1, <1>2, AppendFacts, TailFacts
<1>4. Len(log') = Len(ran') + Len(batch') + Len(q')
  <2>1. /\ Len(ran') = Len(ran) + 1 /\ Len(batch') = Len(batch) - 1
        /\ Len(log) = Len(ran) + Len(batch) + Len(q)
    BY <1>1, AppendFacts, TailFacts
  <2>. QED
    BY <1>1, <2>1
<1>5. ASSUME NEW i \in 1..Len(batch') PROVE batch'[i] = log'[Len(ran') + i]
  BY <1>1, AppendFacts, TailFacts
<1>6. ASSUME NEW i \in 1..Len(q')
      PROVE  q'[i] = log'[Len(ran') + Len(batch') + i]
  BY <1>1, AppendFacts, TailFacts
<1>. QED
  BY <1>3, <1>4, <1>5, <1>6

LEMMA LedgerStep ==
  ASSUME TypeOK, Places, Gate, Ledger, [Next]_vars
  PROVE  Ledger'
<1>. USE DEF Places, Attached, Gate, Ledger, Fifo, TypeOK, WorkerAt, UserCode, vars, owners, threads, handles, boxes, history, posts
<1>1. CASE Start
  BY <1>1 DEF Start
<1>2. CASE StopRequest
  <2>1. CASE async /\ ~stopping
    <3>1. /\ q' = Append(q, Stop) /\ log' = Append(log, Stop)
          /\ UNCHANGED <<ran, batch, stopping>> /\ owner # "gone"
      BY <1>2, <2>1 DEF StopRequest
    <3>. QED
      BY <3>1, PushKeepsLedger DEF Item
  <2>2. CASE ~(async /\ ~stopping)
    BY <1>2, <2>2 DEF StopRequest
  <2>. QED
    BY <2>1, <2>2
<1>3. CASE Join
  BY <1>3 DEF Join
<1>4. CASE Destroy
  BY <1>4 DEF Destroy
<1>5. ASSUME NEW p \in Poster, NEW t \in Fresh, PostRefused(p, t)
       PROVE  Ledger'
  BY <1>5 DEF PostRefused
<1>6. ASSUME NEW p \in Poster, NEW t \in Fresh, PostCheck(p, t)
       PROVE  Ledger'
  BY <1>6 DEF PostCheck
<1>7. ASSUME NEW p \in Poster, PostPush(p)
       PROVE  Ledger'
  <2>1. /\ q' = Append(q, posting[p]) /\ log' = Append(log, posting[p])
        /\ UNCHANGED <<ran, batch, stopping>> /\ owner # "gone"
    BY <1>7, PushFacts DEF PostPush
  <2>. QED
    BY <1>7, <2>1, PushFacts, PushKeepsLedger DEF Item
<1>8. CASE InitAsync
  BY <1>8 DEF InitAsync
<1>9. CASE InitFails
  BY <1>9 DEF InitFails
<1>10. ASSUME NEW t \in Fresh, SelfPost(t)
       PROVE  Ledger'
  <2>1. CASE async /\ ~stopping
    <3>1. /\ q' = Append(q, t) /\ log' = Append(log, t) /\ t \in Item
          /\ UNCHANGED <<ran, batch, stopping>> /\ owner # "gone"
      BY <1>10, <2>1, FreshIsTask DEF SelfPost, Item
    <3>. QED
      BY <3>1, PushKeepsLedger
  <2>2. CASE ~(async /\ ~stopping)
    BY <1>10, <2>2 DEF SelfPost
  <2>. QED
    BY <2>1, <2>2
<1>11. CASE StartHookReturns
  BY <1>11 DEF StartHookReturns
<1>12. CASE StartHookThrows
  BY <1>12 DEF StartHookThrows
<1>13. CASE Wake
  BY <1>13 DEF Wake
<1>14. CASE LeaveLoop
  BY <1>14 DEF LeaveLoop
<1>15. CASE Swap
  <2>1. batch = << >>
    BY <1>15 DEF Swap
  <2>2. /\ batch' = q /\ q' = << >>
        /\ UNCHANGED <<owner, ran, log, stopping>>
    BY <1>15 DEF Swap
  <2>. QED
    BY <2>1, <2>2
<1>16. CASE BeginTask
  <2>1. /\ batch # << >> /\ ~stopping /\ owner # "gone"
        /\ batch' = Tail(batch) /\ ran' = Append(ran, Head(batch))
        /\ UNCHANGED <<q, log>>
    BY <1>16 DEF BeginTask
  <2>. QED
    BY <2>1, TakeKeepsLedger
<1>17. CASE EndTask
  BY <1>17 DEF EndTask
<1>18. CASE RunStop
  <2>1. /\ batch # << >> /\ ~stopping /\ owner # "gone"
        /\ batch' = Tail(batch) /\ ran' = Append(ran, Head(batch))
        /\ UNCHANGED <<q, log>>
    BY <1>18 DEF RunStop
  <2>. QED
    BY <2>1, TakeKeepsLedger
<1>19. CASE EndDrain
  BY <1>19 DEF EndDrain
<1>20. CASE ExitHookReturns
  BY <1>20 DEF ExitHookReturns
<1>21. CASE Detach
  BY <1>21 DEF Detach
<1>22. CASE CloseLoop
  BY <1>22 DEF CloseLoop
<1>23. CASE UNCHANGED vars
  BY <1>23
<1>. QED
  BY <1>1, <1>2, <1>3, <1>4, <1>5, <1>6, <1>7, <1>8, <1>9, <1>10, <1>11, <1>12, <1>13, <1>14, <1>15, <1>16, <1>17, <1>18, <1>19, <1>20, <1>21, <1>22, <1>23 DEF Next, WorkerStep, Gone

LEMMA FirstThreadStep ==
  ASSUME TypeOK, Places, FirstThread, [Next]_vars
  PROVE  FirstThread'
<1>. USE DEF Places, Attached, FirstThread, NoLostWakeup, TypeOK, WorkerAt, UserCode, vars, owners, threads, handles, boxes, history, posts
<1>1. CASE Start
  BY <1>1 DEF Start
<1>2. CASE StopRequest
  BY <1>2 DEF StopRequest
<1>3. CASE Join
  BY <1>3 DEF Join
<1>4. CASE Destroy
  BY <1>4 DEF Destroy
<1>5. ASSUME NEW p \in Poster, NEW t \in Fresh, PostRefused(p, t)
       PROVE  FirstThread'
  BY <1>5 DEF PostRefused
<1>6. ASSUME NEW p \in Poster, NEW t \in Fresh, PostCheck(p, t)
       PROVE  FirstThread'
  BY <1>6 DEF PostCheck
<1>7. ASSUME NEW p \in Poster, PostPush(p)
       PROVE  FirstThread'
  BY <1>7, PushFacts DEF PostPush
<1>8. CASE InitAsync
  BY <1>8 DEF InitAsync
<1>9. CASE InitFails
  BY <1>9 DEF InitFails
<1>10. ASSUME NEW t \in Fresh, SelfPost(t)
       PROVE  FirstThread'
  BY <1>10 DEF SelfPost
<1>11. CASE StartHookReturns
  BY <1>11 DEF StartHookReturns
<1>12. CASE StartHookThrows
  BY <1>12 DEF StartHookThrows
<1>13. CASE Wake
  BY <1>13 DEF Wake
<1>14. CASE LeaveLoop
  BY <1>14 DEF LeaveLoop
<1>15. CASE Swap
  BY <1>15 DEF Swap
<1>16. CASE BeginTask
  BY <1>16 DEF BeginTask
<1>17. CASE EndTask
  BY <1>17 DEF EndTask
<1>18. CASE RunStop
  BY <1>18 DEF RunStop
<1>19. CASE EndDrain
  BY <1>19 DEF EndDrain
<1>20. CASE ExitHookReturns
  BY <1>20 DEF ExitHookReturns
<1>21. CASE Detach
  BY <1>21 DEF Detach
<1>22. CASE CloseLoop
  BY <1>22 DEF CloseLoop
<1>23. CASE UNCHANGED vars
  BY <1>23
<1>. QED
  BY <1>1, <1>2, <1>3, <1>4, <1>5, <1>6, <1>7, <1>8, <1>9, <1>10, <1>11, <1>12, <1>13, <1>14, <1>15, <1>16, <1>17, <1>18, <1>19, <1>20, <1>21, <1>22, <1>23 DEF Next, WorkerStep, Gone

-----------------------------------------------------------------------------
LEMMA InitIInv == Init => IInv
<1>. SUFFICES ASSUME Init PROVE IInv
  OBVIOUS
<1>. USE DEF Init
<1>1. TypeOK
  <2>1. << >> \in Seq(Task \cup {Stop})
    OBVIOUS
  <2>2. posting \in [Poster -> Task \cup {NoTask}]
    OBVIOUS
  <2>3. \A p \in Poster : posting[p] # NoTask <=> mu = p
    BY PosterAssumption
  <2>4. starts \in 0..MaxStarts /\ worker \in WorkerAt
    BY BoundAssumption DEF WorkerAt
  <2>5. mu \in Poster \cup {Nobody} /\ refused \subseteq Task
    OBVIOUS
  <2>. QED
    BY <2>1, <2>2, <2>3, <2>4, <2>5 DEF TypeOK
<1>2. Places /\ Gate
  BY DEF Places, Gate, Attached, UserCode
<1>3. Ledger /\ FirstThread
  BY DEF Ledger, Fifo, FirstThread, NoLostWakeup
<1>. QED
  BY <1>1, <1>2, <1>3 DEF IInv

LEMMA StepIInv == IInv /\ [Next]_vars => IInv'
  BY TypeStep, PlacesStep, GateStep, LedgerStep, FirstThreadStep DEF IInv

LEMMA IInvAlways == Spec => []IInv
  BY InitIInv, StepIInv, PTL DEF Spec

\* Type correctness and the lock discipline of post().
THEOREM TypeCorrect == Spec => []TypeOK
<1>1. IInv => TypeOK
  BY DEF IInv
<1>. QED
  BY <1>1, IInvAlways, PTL

\* Tasks run in acceptance order, each once and none skipped.
THEOREM FifoCorrect == Spec => []Fifo
<1>1. IInv => Fifo
  BY DEF IInv, Ledger
<1>. QED
  BY <1>1, IInvAlways, PTL

\* The stop task is a barrier for execution.
THEOREM BarrierCorrect == Spec => []NothingRunsBehindStop
<1>1. IInv => NothingRunsBehindStop
  BY DEF IInv, Gate, NothingRunsBehindStop
<1>. QED
  BY <1>1, IInvAlways, PTL

\* Sending under the lock loses no wakeup.
THEOREM WakeupCorrect == Spec => []NoLostWakeup
<1>1. IInv => NoLostWakeup
  BY DEF IInv, FirstThread
<1>. QED
  BY <1>1, IInvAlways, PTL

\* stop_and_join() leaves nothing behind once the loop has run.
THEOREM QuiescentCorrect == Spec => []Quiescent
<1>1. IInv => Quiescent
  BY DEF IInv, TypeOK, Places, Gate, Attached, UserCode, Quiescent
<1>. QED
  BY <1>1, IInvAlways, PTL

\* The exit hook finds the gate shut and the batch gone.
THEOREM ExitHookCorrect == Spec => []ExitHookAfterTasks
<1>1. IInv => ExitHookAfterTasks
  <2>. SUFFICES ASSUME IInv, worker \in {"exitHook", "detach", "close"}, ~failed
                PROVE  stopping /\ batch = << >> /\ Stop \in Range(ran)
    BY DEF ExitHookAfterTasks
  <2>1. stopping /\ batch = << >>
    BY DEF IInv, Gate, Places
  <2>2. ran \in Seq(Task \cup {Stop}) /\ ran # << >> /\ ran[Len(ran)] = Stop
    BY <2>1 DEF IInv, TypeOK, Gate
  <2>3. Len(ran) \in DOMAIN ran
    BY <2>2
  <2>. QED
    BY <2>1, <2>2, <2>3 DEF Range
<1>. QED
  BY <1>1, IInvAlways, PTL

\* Nothing is accepted once the handle is detached: the poster between the check
\* and the push holds the lock that Detach needs.
THEOREM NoAcceptCorrect == Spec => NoAcceptAfterDetach
<1>1. IInv /\ [Next]_vars
        => [(worker \in {"close", "done", "none"}) => UNCHANGED log]_vars
  <2>. SUFFICES ASSUME IInv, Next, worker \in {"close", "done", "none"}
                PROVE  UNCHANGED log
    OBVIOUS
  <2>1. ~async /\ mu = Nobody
    BY DEF IInv, Places, Attached, UserCode
  <2>2. \A p \in Poster : ~PostPush(p)
    BY <2>1, PosterAssumption DEF PostPush
  <2>. QED
    BY <2>1, <2>2 DEF Next, WorkerStep, Gone, vars, history, boxes,
       Start, StopRequest, Join, Destroy, PostRefused, PostCheck, SelfPost,
       UserCode, InitAsync, InitFails, StartHookReturns, StartHookThrows, Wake,
       LeaveLoop, Swap, BeginTask, EndTask, RunStop, EndDrain, ExitHookReturns,
       Detach, CloseLoop
<1>. QED
  BY <1>1, IInvAlways, PTL DEF Spec, NoAcceptAfterDetach

-----------------------------------------------------------------------------
(* The refinement of Mailbox. *)

\* Pushing an item is the mailbox accepting it.
LEMMA PushIsAccept ==
  ASSUME NEW m \in Item, async, async' = async, log' = Append(log, m),
         UNCHANGED <<ran, stopping>>
  PROVE  M!Next
  BY DEF M!Next, M!Accept, Item

\* Calling the next item of the batch is the mailbox executing its oldest one.
LEMMA TakeIsExecute ==
  ASSUME IInv, async, async' = async, ~stopping, owner # "gone",
         batch # << >>, ran' = Append(ran, Head(batch)), UNCHANGED log,
         stopping' = (Head(batch) = Stop)
  PROVE  M!Next
<1>1. /\ batch \in Seq(Item) /\ ran \in Seq(Item) /\ log \in Seq(Item)
      /\ q \in Seq(Item)
  BY DEF IInv, TypeOK, Item
<1>2. /\ Len(ran) < Len(log)
      /\ Head(batch) = log[Len(ran) + 1]
  BY <1>1, TailFacts DEF IInv, Ledger
<1>3. M!Execute
  BY <1>2 DEF M!Execute
<1>. QED
  BY <1>3 DEF M!Next

\* Every step of the worker, the owner and the posters is a step of the mailbox
\* or leaves it unchanged.
LEMMA StepRefines == IInv /\ [Next]_vars => [M!Next]_(M!vars)
<1>. SUFFICES ASSUME IInv, [Next]_vars
              PROVE  M!Next \/ UNCHANGED <<log, ran, async, stopping>>
  BY DEF M!vars
<1>. USE DEF vars, owners, threads, handles, boxes, history, posts
<1>0. TypeOK /\ Places /\ Gate
  BY DEF IInv
<1>1. CASE StopRequest
  BY <1>1, PushIsAccept DEF StopRequest, Item
<1>2. ASSUME NEW p \in Poster, PostPush(p)
      PROVE  M!Next
  <2>1. posting[p] \in Item /\ async
    BY <1>0, <1>2, PushFacts DEF Item
  <2>. QED
    BY <1>2, <2>1, PushIsAccept DEF PostPush
<1>3. ASSUME NEW t \in Fresh, SelfPost(t)
      PROVE  M!Next \/ UNCHANGED <<log, ran, async, stopping>>
  BY <1>3, FreshIsTask, PushIsAccept DEF SelfPost, Item
<1>4. CASE InitAsync
  <2>1. ~async
    BY <1>0, <1>4 DEF InitAsync, Places, Attached, UserCode
  <2>. QED
    BY <1>4, <2>1 DEF InitAsync, M!Next, M!Open
<1>5. CASE BeginTask
  <2>1. async /\ owner # "gone"
    BY <1>0, <1>5 DEF BeginTask, Places, Attached, UserCode
  <2>2. stopping' = (Head(batch) = Stop)
    BY <1>0, <1>5 DEF BeginTask, TypeOK
  <2>. QED
    BY <1>5, <2>1, <2>2, TakeIsExecute DEF BeginTask
<1>6. CASE RunStop
  <2>1. async /\ owner # "gone"
    BY <1>0, <1>6 DEF RunStop, Places, Attached, UserCode
  <2>. QED
    BY <1>6, <2>1, TakeIsExecute DEF RunStop
<1>7. CASE Detach
  <2>1. async
    BY <1>0, <1>7 DEF Detach, Places, Attached
  <2>. QED
    BY <1>7, <2>1 DEF Detach, M!Next, M!Close
<1>8. CASE Start \/ Join \/ Destroy
  BY <1>8 DEF Start, Join, Destroy
<1>9. ASSUME NEW p \in Poster, NEW t \in Fresh,
             PostRefused(p, t) \/ PostCheck(p, t)
      PROVE  UNCHANGED <<log, ran, async, stopping>>
  BY <1>9 DEF PostRefused, PostCheck
<1>10. CASE \/ InitFails \/ StartHookReturns \/ StartHookThrows \/ Wake
            \/ LeaveLoop \/ Swap \/ EndTask \/ EndDrain \/ ExitHookReturns
  BY <1>10 DEF InitFails, StartHookReturns, StartHookThrows, Wake, LeaveLoop,
     Swap, EndTask, EndDrain, ExitHookReturns
<1>11. CASE CloseLoop
  BY <1>11 DEF CloseLoop
<1>12. CASE UNCHANGED vars
  BY <1>12
<1>. QED
  BY <1>1, <1>2, <1>3, <1>4, <1>5, <1>6, <1>7, <1>8, <1>9, <1>10, <1>11, <1>12
     DEF Next, WorkerStep, Gone

\* The work loop implements the mailbox, for any number of threads and starts.
THEOREM ImplementsCorrect == Spec => Implements
<1>1. Init => M!Init
  BY DEF Init, M!Init
<1>. QED
  BY <1>1, StepRefines, IInvAlways, PTL DEF Spec, Implements, M!Spec
=============================================================================
