-------------------------- MODULE WorkLimitProofs --------------------------
(***************************************************************************)
(* Proofs about the admission gate: its types, the count of its slots, and *)
(* that a slot which comes back is offered to those who wait.              *)
(***************************************************************************)
EXTENDS WorkLimit, FiniteSetTheorems, TLAPS

Reading == {t \in Transfer : state[t] = "reading"}
Working == {j \in Job : job[j] = "reading"}

\* What the frames on the loop's stack know of their transfers.
Frames ==
  /\ loop = "acquire" => state[cur] \in {"ready", "paused"}
  /\ loop = "register" => state[cur] = "paused"
  /\ outer # NoTransfer => state[outer] = "delivering"
  /\ loop = "goOn" => outer # NoTransfer
  /\ loop = "again" => ids = {}

\* The dispatch on the stack still has everybody before it who waited when a
\* slot came back, or was told to go round again, or has yet to look.
WillSee == notifying /\ (again \/ loop = "snapshot" \/ behind \subseteq ids)

\* Somebody is about to look at the table, or owes a look.
WillLook ==
  \/ loop \in {"full", "empty"}
  \/ \E j \in Job : job[j] \in {"released", "checking"} \/ j \in owed

Ahead == behind # {} /\ inFlight = 0 => WillSee \/ WillLook

IInv == TypeOK /\ Frames /\ NoSlotLeak /\ Ahead

-----------------------------------------------------------------------------
(* Counting one more or one less in a finite set of readers. *)

LEMMA CountOne ==
  ASSUME NEW S, IsFiniteSet(S), NEW x
  PROVE  /\ Cardinality(S) \in Nat
         /\ x \notin S => Cardinality(S \cup {x}) = Cardinality(S) + 1
         /\ x \in S => /\ Cardinality(S \ {x}) = Cardinality(S) - 1
                       /\ Cardinality(S) >= 1
<1>1. Cardinality(S) \in Nat
  BY FS_CardinalityType
<1>2. x \notin S => Cardinality(S \cup {x}) = Cardinality(S) + 1
  BY FS_AddElement
<1>3. ASSUME x \in S
      PROVE  Cardinality(S \ {x}) = Cardinality(S) - 1 /\ Cardinality(S) >= 1
  <2>1. Cardinality(S \ {x}) = Cardinality(S) - 1
    BY <1>3, FS_RemoveElement
  <2>2. Cardinality(S \ {x}) \in Nat
    BY FS_RemoveElement, FS_CardinalityType
  <2>. QED
    BY <1>1, <2>1, <2>2
<1>. QED
  BY <1>1, <1>2, <1>3

\* Readers are finitely many, so they can be counted.
LEMMA ReadersFinite == IsFiniteSet(Reading) /\ IsFiniteSet(Working)
<1>1. Reading \in SUBSET Transfer /\ Working \in SUBSET Job
  BY DEF Reading, Working
<1>. QED
  BY <1>1, FiniteAssumption, FS_Subset

\* A gate that nobody uses is not full.
LEMMA EmptyIsNotFull == TypeOK /\ inFlight = 0 => ~Full
  BY LimitsAssumption DEF TypeOK, Full

-----------------------------------------------------------------------------
(* The invariant is inductive: one lemma per conjunct, one step per action. *)

LEMMA InitInv == Init => IInv
<1>. SUFFICES ASSUME Init
              PROVE  IInv
  OBVIOUS
<1>1. TypeOK
  <2>1. changes \in 0..MaxChanges /\ inFlight \in Nat
    BY LimitsAssumption DEF Init
  <2>2. state \in [Transfer -> {"ready"}] /\ job \in [Job -> {"queued"}]
    BY DEF Init
  <2>. QED
    BY <2>1, <2>2 DEF Init, TypeOK
<1>2. Frames /\ Ahead
  BY DEF Init, Frames, Ahead
<1>3. Reading = {} /\ Working = {}
  BY DEF Init, Reading, Working
<1>4. NoSlotLeak
  BY <1>3, FS_EmptySet DEF Init, NoSlotLeak, SlotsInUse, Reading, Working
<1>. QED
  BY <1>1, <1>2, <1>4 DEF IInv

LEMMA TypeStep == IInv /\ [Next]_vars => TypeOK'
<1>. SUFFICES ASSUME IInv, [Next]_vars
              PROVE  TypeOK'
  OBVIOUS
<1>. USE TransferAssumption, LimitsAssumption
     DEF IInv, TypeOK, gate, dispatch, vars
<1>1. ASSUME NEW l \in Limits, SetLimit(l)
      PROVE  TypeOK'
  BY <1>1 DEF SetLimit
<1>2. ASSUME NEW t \in Transfer, Resume(t)
      PROVE  TypeOK'
  BY <1>2 DEF Resume
<1>3. CASE StartRead
  BY <1>3 DEF StartRead, Caller
<1>4. CASE ReadRefused
  BY <1>4 DEF ReadRefused
<1>5. CASE NoSlot
  BY <1>5 DEF NoSlot
<1>6. CASE AddWakeup
  BY <1>6 DEF AddWakeup, Caller
<1>7. ASSUME NEW t \in Transfer, ReadDone(t)
      PROVE  TypeOK'
  BY <1>7 DEF ReadDone
<1>8. CASE GoOn
  BY <1>8 DEF GoOn, Frames
<1>9. ASSUME NEW t \in Transfer, Cancel(t)
      PROVE  TypeOK'
  BY <1>9 DEF Cancel
<1>10. CASE Release
  BY <1>10 DEF Release, Caller
<1>11. CASE CheckFull
  BY <1>11 DEF CheckFull, Caller
<1>12. CASE CheckEmpty
  BY <1>12 DEF CheckEmpty, Caller
<1>13. CASE Snapshot
  BY <1>13 DEF Snapshot
<1>14. ASSUME NEW t \in Transfer, Notify(t)
       PROVE  TypeOK'
  BY <1>14 DEF Notify
<1>15. CASE EndRound
  BY <1>15 DEF EndRound
<1>16. CASE GoRoundAgain
  BY <1>16 DEF GoRoundAgain, Frames
<1>17. ASSUME NEW j \in Job, JobStep(j)
       PROVE  TypeOK'
  BY <1>17 DEF JobStep, JobAcquires, JobRejected, JobReleases, JobChecksFull,
     JobChecksEmpty
<1>18. ASSUME NEW j \in Job, AfterWork(j)
       PROVE  TypeOK'
  BY <1>18 DEF AfterWork
<1>19. CASE UNCHANGED vars
  BY <1>19
<1>. QED
  BY <1>1, <1>2, <1>3, <1>4, <1>5, <1>6, <1>7, <1>8, <1>9, <1>10, <1>11, <1>12,
     <1>13, <1>14, <1>15, <1>16, <1>17, <1>18, <1>19 DEF Next, LoopStep

LEMMA FramesStep == IInv /\ [Next]_vars => Frames'
<1>. SUFFICES ASSUME IInv, [Next]_vars
              PROVE  Frames'
  OBVIOUS
<1>. USE TransferAssumption DEF IInv, TypeOK, Frames, gate, dispatch, vars
<1>1. ASSUME NEW t \in Transfer, Resume(t) \/ ReadDone(t) \/ Cancel(t)
      PROVE  Frames'
  BY <1>1 DEF Resume, ReadDone, Cancel
<1>2. CASE StartRead
  BY <1>2 DEF StartRead, Caller
<1>3. CASE ReadRefused \/ NoSlot
  BY <1>3 DEF ReadRefused, NoSlot
<1>4. CASE AddWakeup \/ Release \/ CheckFull \/ CheckEmpty
  BY <1>4 DEF AddWakeup, Release, CheckFull, CheckEmpty, Caller
<1>5. CASE GoOn
  BY <1>5 DEF GoOn
<1>6. CASE Snapshot \/ EndRound \/ GoRoundAgain
  BY <1>6 DEF Snapshot, EndRound, GoRoundAgain
<1>7. ASSUME NEW t \in Transfer, Notify(t)
      PROVE  Frames'
  BY <1>7 DEF Notify
<1>8. ASSUME NEW j \in Job, JobStep(j) \/ AfterWork(j)
      PROVE  Frames'
  BY <1>8 DEF JobStep, JobAcquires, JobRejected, JobReleases, JobChecksFull,
     JobChecksEmpty, AfterWork
<1>9. CASE UNCHANGED vars \/ \E l \in Limits : SetLimit(l)
  BY <1>9 DEF SetLimit
<1>. QED
  BY <1>1, <1>2, <1>3, <1>4, <1>5, <1>6, <1>7, <1>8, <1>9 DEF Next, LoopStep

\* Steps that leave the counter and all readers alone.
LEMMA SameSlots ==
  ASSUME NoSlotLeak, inFlight' = inFlight, Reading' = Reading,
         Working' = Working, (loop' = "release") <=> (loop = "release")
  PROVE  NoSlotLeak'
BY DEF NoSlotLeak, SlotsInUse, Reading, Working

LEMMA SlotStep == IInv /\ [Next]_vars => NoSlotLeak'
<1>. SUFFICES ASSUME IInv, [Next]_vars
              PROVE  NoSlotLeak'
  OBVIOUS
<1>a. /\ NoSlotLeak /\ TypeOK /\ Frames
      /\ state \in [Transfer -> {"ready", "paused", "reading", "delivering", "done"}]
      /\ job \in [Job -> {"queued", "reading", "released", "checking", "worked", "done"}]
      /\ inFlight \in Nat
  BY DEF IInv, TypeOK
<1>b. /\ IsFiniteSet(Reading) /\ Cardinality(Reading) \in Nat
      /\ IsFiniteSet(Working) /\ Cardinality(Working) \in Nat
  BY ReadersFinite, CountOne
<1>c. inFlight = Cardinality(Reading) + Cardinality(Working)
                   + (IF loop = "release" THEN 1 ELSE 0)
  BY <1>a DEF NoSlotLeak, SlotsInUse, Reading, Working
<1>d. ASSUME inFlight' = Cardinality(Reading') + Cardinality(Working')
                           + (IF loop' = "release" THEN 1 ELSE 0)
      PROVE  NoSlotLeak'
  BY <1>d DEF NoSlotLeak, SlotsInUse, Reading, Working
<1>1. ASSUME NEW l \in Limits, SetLimit(l)
      PROVE  NoSlotLeak'
  BY <1>1, <1>a, SameSlots DEF SetLimit, Reading, Working
<1>2. ASSUME NEW t \in Transfer, Resume(t) \/ Cancel(t) \/ Notify(t)
      PROVE  NoSlotLeak'
  <2>1. Reading' = Reading /\ Working' = Working
    BY <1>2, <1>a DEF Resume, Cancel, Notify, Reading, Working
  <2>. QED
    BY <1>2, <1>a, <2>1, SameSlots DEF Resume, Cancel, Notify, gate
<1>3. CASE StartRead
  <2>1. cur \in Transfer /\ cur \notin Reading
    BY <1>3, <1>a DEF StartRead, TypeOK, Frames, Reading
  <2>2. Reading' = Reading \cup {cur} /\ Working' = Working
    BY <1>3, <1>a, <2>1 DEF StartRead, Reading, Working
  <2>3. Cardinality(Reading') = Cardinality(Reading) + 1
    BY <2>1, <2>2, <1>b, CountOne
  <2>. QED
    BY <1>3, <1>b, <1>c, <1>d, <2>2, <2>3 DEF StartRead, Caller
<1>4. CASE ReadRefused
  <2>1. cur \in Transfer /\ cur \notin Reading
    BY <1>4, <1>a DEF ReadRefused, TypeOK, Frames, Reading
  <2>2. Reading' = Reading /\ Working' = Working
    BY <1>4, <1>a, <2>1 DEF ReadRefused, Reading, Working
  <2>. QED
    BY <1>4, <1>b, <1>c, <1>d, <2>2 DEF ReadRefused
<1>5. CASE NoSlot
  <2>1. cur \in Transfer /\ cur \notin Reading
    BY <1>5, <1>a DEF NoSlot, TypeOK, Frames, Reading
  <2>2. Reading' = Reading /\ Working' = Working
    BY <1>5, <1>a, <2>1 DEF NoSlot, Reading, Working
  <2>. QED
    BY <1>5, <1>a, <2>2, SameSlots DEF NoSlot, gate
<1>6. ASSUME NEW t \in Transfer, ReadDone(t)
      PROVE  NoSlotLeak'
  <2>1. t \in Reading
    BY <1>6 DEF ReadDone, Reading
  <2>2. Reading' = Reading \ {t} /\ Working' = Working
    BY <1>6, <1>a DEF ReadDone, Reading, Working
  <2>3. Cardinality(Reading') = Cardinality(Reading) - 1
    BY <2>1, <2>2, <1>b, CountOne
  <2>. QED
    BY <1>6, <1>b, <1>c, <1>d, <2>2, <2>3 DEF ReadDone, gate
<1>7. CASE GoOn
  <2>1. outer \in Transfer /\ outer \notin Reading
    BY <1>7, <1>a DEF GoOn, TypeOK, Frames, Reading
  <2>2. Reading' = Reading /\ Working' = Working
    BY <1>7, <1>a, <2>1 DEF GoOn, Reading, Working
  <2>. QED
    BY <1>7, <1>a, <2>2, SameSlots DEF GoOn, gate
<1>8. CASE Release
  <2>1. Reading' = Reading /\ Working' = Working
    BY <1>8 DEF Release, Reading, Working
  <2>2. inFlight # 0
    BY <1>8, <1>b, <1>c DEF Release
  <2>. QED
    BY <1>8, <1>b, <1>c, <1>d, <2>1, <2>2 DEF Release
<1>9. CASE \/ AddWakeup \/ CheckFull \/ CheckEmpty
           \/ Snapshot \/ EndRound \/ GoRoundAgain
  BY <1>9, <1>a, SameSlots DEF AddWakeup, CheckFull, CheckEmpty, Snapshot,
     EndRound, GoRoundAgain, Caller, Reading, Working, gate
<1>10. ASSUME NEW j \in Job, JobAcquires(j)
       PROVE  NoSlotLeak'
  <2>1. j \notin Working
    BY <1>10 DEF JobAcquires, Working
  <2>2. Working' = Working \cup {j} /\ Reading' = Reading
    BY <1>10, <1>a DEF JobAcquires, Reading, Working
  <2>3. Cardinality(Working') = Cardinality(Working) + 1
    BY <2>1, <2>2, <1>b, CountOne
  <2>. QED
    BY <1>10, <1>b, <1>c, <1>d, <2>2, <2>3 DEF JobAcquires
<1>11. ASSUME NEW j \in Job, JobReleases(j)
       PROVE  NoSlotLeak'
  <2>1. j \in Working
    BY <1>11 DEF JobReleases, Working
  <2>2. Working' = Working \ {j} /\ Reading' = Reading
    BY <1>11, <1>a DEF JobReleases, Reading, Working
  <2>3. /\ Cardinality(Working') = Cardinality(Working) - 1
        /\ Cardinality(Working) >= 1
    BY <2>1, <2>2, <1>b, CountOne
  <2>4. inFlight # 0
    BY <1>b, <1>c, <2>3
  <2>. QED
    BY <1>11, <1>b, <1>c, <1>d, <2>2, <2>3, <2>4 DEF JobReleases
<1>12. ASSUME NEW j \in Job,
              JobRejected(j) \/ JobChecksFull(j) \/ JobChecksEmpty(j)
       PROVE  NoSlotLeak'
  <2>1. Reading' = Reading /\ Working' = Working
    BY <1>12, <1>a DEF JobRejected, JobChecksFull, JobChecksEmpty, Reading, Working
  <2>. QED
    BY <1>12, <1>a, <2>1, SameSlots DEF JobRejected, JobChecksFull,
       JobChecksEmpty, gate
<1>13. ASSUME NEW j \in Job, AfterWork(j)
       PROVE  NoSlotLeak'
  <2>1. Reading' = Reading /\ Working' = Working
    BY <1>13, <1>a DEF AfterWork, Reading, Working
  <2>. QED
    BY <1>13, <1>a, <2>1, SameSlots DEF AfterWork, gate
<1>14. CASE UNCHANGED vars
  BY <1>14, <1>a, SameSlots DEF vars, gate, Reading, Working
<1>. QED
  BY <1>1, <1>2, <1>3, <1>4, <1>5, <1>6, <1>7, <1>8, <1>9, <1>10, <1>11, <1>12,
     <1>13, <1>14 DEF Next, LoopStep, JobStep

\* Whoever is about to look is still about to look when only others move.
LEMMA AheadStep == IInv /\ [Next]_vars => Ahead'
<1>. SUFFICES ASSUME IInv, [Next]_vars, behind' # {}, inFlight' = 0
              PROVE  WillSee' \/ WillLook'
  BY DEF Ahead
<1>a. TypeOK /\ Frames /\ NoSlotLeak
  BY DEF IInv
<1>b. behind # {} /\ inFlight = 0 => WillSee \/ WillLook
  BY DEF IInv, Ahead
<1>c. inFlight = 0 => ~Full
  BY <1>a, EmptyIsNotFull
<1>d. inFlight \in Nat /\ behind \subseteq wakeups
  BY <1>a DEF TypeOK
<1>1. ASSUME NEW l \in Limits, SetLimit(l)
      PROVE  WillSee' \/ WillLook'
  BY <1>1, <1>b DEF SetLimit, WillSee, WillLook, dispatch
<1>2. ASSUME NEW t \in Transfer, Resume(t) \/ Cancel(t)
      PROVE  WillSee' \/ WillLook'
  BY <1>2, <1>b DEF Resume, Cancel, WillSee, WillLook, gate, dispatch
<1>3. CASE StartRead \/ ReadRefused
  BY <1>3, <1>d DEF StartRead, ReadRefused
<1>4. CASE NoSlot \/ AddWakeup
  BY <1>4, <1>b DEF NoSlot, AddWakeup, WillSee, WillLook, gate, dispatch
<1>5. ASSUME NEW t \in Transfer, ReadDone(t)
      PROVE  WillSee' \/ WillLook'
  BY <1>5, <1>b DEF ReadDone, WillSee, WillLook, gate, dispatch
<1>6. CASE GoOn
  BY <1>6, <1>b DEF GoOn, WillSee, WillLook, gate, dispatch
<1>7. CASE Release
  <2>1. /\ inFlight = Cardinality(Reading) + Cardinality(Working) + 1
        /\ Cardinality(Reading) \in Nat /\ Cardinality(Working) \in Nat
    BY <1>7, <1>a, ReadersFinite, CountOne
       DEF Release, NoSlotLeak, SlotsInUse, Reading, Working
  <2>2. inFlight # 0
    BY <2>1
  <2>. QED
    BY <1>7, <2>2 DEF Release, WillLook
<1>8. CASE CheckFull
  BY <1>8, <1>c DEF CheckFull, WillLook, gate
<1>9. CASE CheckEmpty
  BY <1>9, <1>d DEF CheckEmpty, WillSee, gate
<1>10. CASE Snapshot
  BY <1>10, <1>a, <1>d DEF Snapshot, WillSee, TypeOK
<1>11. ASSUME NEW t \in Transfer, Notify(t)
       PROVE  WillSee' \/ WillLook'
  BY <1>11, <1>b DEF Notify, WillSee, WillLook, gate
<1>12. CASE EndRound
  BY <1>12, <1>b, <1>c DEF EndRound, WillSee, WillLook, gate
<1>13. CASE GoRoundAgain
  BY <1>13, <1>d, <1>b, <1>a DEF GoRoundAgain, WillSee, WillLook, gate, TypeOK
<1>14. ASSUME NEW j \in Job, JobAcquires(j)
       PROVE  WillSee' \/ WillLook'
  BY <1>14, <1>d DEF JobAcquires
<1>15. ASSUME NEW j \in Job, JobRejected(j)
       PROVE  WillSee' \/ WillLook'
  BY <1>15, <1>b, <1>a DEF JobRejected, WillSee, WillLook, gate, dispatch, TypeOK
<1>16. ASSUME NEW j \in Job, JobReleases(j)
       PROVE  WillSee' \/ WillLook'
  BY <1>16, <1>b, <1>a DEF JobReleases, WillSee, WillLook, dispatch, TypeOK
<1>17. ASSUME NEW j \in Job, JobChecksFull(j)
       PROVE  WillSee' \/ WillLook'
  BY <1>17, <1>a, <1>c DEF JobChecksFull, WillLook, gate, TypeOK
<1>18. ASSUME NEW j \in Job, JobChecksEmpty(j)
       PROVE  WillSee' \/ WillLook'
  BY <1>18, <1>d DEF JobChecksEmpty, WillLook
<1>19. ASSUME NEW j \in Job, AfterWork(j)
       PROVE  WillSee' \/ WillLook'
  BY <1>19, <1>b, <1>a DEF AfterWork, WillSee, WillLook, gate, dispatch, TypeOK
<1>20. CASE UNCHANGED vars
  BY <1>20, <1>b DEF vars, gate, dispatch, WillSee, WillLook
<1>. QED
  BY <1>1, <1>2, <1>3, <1>4, <1>5, <1>6, <1>7, <1>8, <1>9, <1>10, <1>11, <1>12,
     <1>13, <1>14, <1>15, <1>16, <1>17, <1>18, <1>19, <1>20
     DEF Next, LoopStep, JobStep

LEMMA IInvAlways == Spec => []IInv
<1>1. IInv /\ [Next]_vars => IInv'
  BY TypeStep, FramesStep, SlotStep, AheadStep DEF IInv
<1>. QED
  BY InitInv, <1>1, PTL DEF Spec

-----------------------------------------------------------------------------
(* The theorems. *)

\* Types and the discipline of the loop's stack, for any number of transfers,
\* jobs, limits and changes.
THEOREM TypeCorrect == Spec => []TypeOK
<1>1. IInv => TypeOK
  BY DEF IInv
<1>. QED
  BY <1>1, IInvAlways, PTL

\* in_flight_ is the number of slots in use on every path of submit_read,
\* on_read_done and run_job.
THEOREM SlotsCorrect == Spec => []NoSlotLeak
<1>1. IInv => NoSlotLeak
  BY DEF IInv
<1>. QED
  BY <1>1, IInvAlways, PTL

\* dispatch_wakeups and release_deferred forget nobody who waited when a slot
\* came back.
THEOREM ReleaseCorrect == Spec => []ReleaseSeesWaiters
<1>1. IInv => ReleaseSeesWaiters
  BY DEF IInv, Ahead, WillSee, WillLook, ReleaseSeesWaiters, DispatchAhead
<1>. QED
  BY <1>1, IInvAlways, PTL
=============================================================================
