---------------------------- MODULE DbShardsProofs ----------------------------
(***************************************************************************)
(* Proofs about the native asynchronous path of the connection pool, for   *)
(* the callers and the faults each theorem names: its types, that a        *)
(* connection is used by one query of one loop at a time and only when its *)
(* server owes no answer, that the jobs the destructor waits for are       *)
(* counted, and that nobody is left with a pointer to what is gone.        *)
(***************************************************************************)
EXTENDS DbShards, SequenceTheorems, FiniteSetTheorems, TLAPS

Distinct(s) == \A i, j \in 1..Len(s) : s[i] = s[j] => i = j

\* The jobs of l that wait, those on a connection, and all that are not over.
Waiting(l) == ToSet(pending[l])
Carried == {q.job : q \in query}
In == {j \in Job : job[j] = "in"}

\* A job that is not over waits at its loop, is on a connection there, or is
\* being completed there, and only one of these.
Accounted ==
  /\ work = Cardinality(In)
  /\ \A l \in Loop : Distinct(pending[l])
  /\ \A j \in Job : job[j] = "in" <=>
       j \in Waiting(Home[j]) \/ j \in Carried \/ done[Home[j]] = j
  /\ \A l \in Loop : \A j \in Waiting(l) : Home[j] = l /\ j \notin Carried /\ done[l] # j
  /\ \A q \in query : Home[q.job] = q.loop /\ done[q.loop] # q.job
  /\ \A q, r \in query : q.job = r.job => q = r
  /\ \A l \in Loop : done[l] # NoJob => Home[done[l]] = l

\* A server owes an answer to a query that was sent and is not completed: to no
\* other, as long as every query that is sent is polled for.
Owed ==
  "poll" \notin Faults =>
    \A c \in dirty : \E q \in query : q.client = c /\ q.end \in {"wait", "lost"}

\* A loop is in the pool's code, or holds something of it, only while its shard
\* is set up; what the destructor does not wait for it does not meet.
Manned ==
  /\ \A l \in Loop : at[l] # "poll" \/ wake[l] \/ InUse(l) # {} => shard[l] = "ready"
  /\ \A l \in Loop : at[l] = "opening" => pool = "open" /\ pending[l] # << >>
  /\ \A l \in Loop : pending[l] # << >> => shard[l] \notin {"none", "detached"}
  /\ \A l \in Loop : done[l] # NoJob => at[l] # "poll"
  /\ \A j \in Job : caller[j] # NoLoop => shard[caller[j]] \notin {"none", "detached"}
  /\ pool \in {"winding", "gone"} =>
       /\ \A j \in Job : caller[j] = NoLoop
       /\ \A l \in Loop : shard[l] # "booting" /\ (at[l] # "poll" => done[l] # NoJob)
  /\ pool = "gone" => In = {}

IInv == TypeOK /\ OneUse /\ Accounted /\ Owed /\ Manned

-----------------------------------------------------------------------------
(* Queues of jobs.                                                           *)

LEMMA Elements ==
  ASSUME NEW s \in Seq(Job)
  PROVE  /\ Len(s) \in Nat /\ \A i \in 1..Len(s) : s[i] \in Job
         /\ ToSet(s) = {s[i] : i \in 1..Len(s)}
         /\ ToSet(s) \subseteq Job
         /\ s = << >> <=> ToSet(s) = {}
<1>1. Len(s) \in Nat /\ DOMAIN s = 1..Len(s) /\ \A i \in 1..Len(s) : s[i] \in Job
  BY LenProperties, ElementOfSeq
<1>2. ToSet(s) = {s[i] : i \in 1..Len(s)}
  BY <1>1 DEF ToSet
<1>3. s # << >> => s[1] \in ToSet(s)
  <2>1. s # << >> => Len(s) \in Nat \ {0}
    BY EmptySeq
  <2>. QED
    BY <1>2, <2>1
<1>4. s = << >> => ToSet(s) = {}
  BY DEF ToSet
<1>. QED
  BY <1>1, <1>2, <1>3, <1>4

\* A job goes to the end of a queue.
LEMMA Queued ==
  ASSUME NEW s \in Seq(Job), Distinct(s), NEW j \in Job \ ToSet(s)
  PROVE  /\ Append(s, j) \in Seq(Job) /\ Distinct(Append(s, j))
         /\ ToSet(Append(s, j)) = ToSet(s) \cup {j}
         /\ Append(s, j) # << >>
<1>. DEFINE r == Append(s, j)
<1>1. Len(s) \in Nat /\ ToSet(s) = {s[i] : i \in 1..Len(s)}
  BY Elements
<1>2. /\ r \in Seq(Job) /\ Len(r) = Len(s) + 1 /\ r # << >>
      /\ \A i \in 1..Len(s) : r[i] = s[i]
      /\ r[Len(s) + 1] = j
  BY AppendProperties
<1>. HIDE DEF r
<1>3. ToSet(r) = {r[i] : i \in 1..Len(r)}
  BY <1>2, Elements
<1>4. \A i \in 1..Len(r) : i \in 1..Len(s) \/ i = Len(s) + 1
  BY <1>1, <1>2
<1>5. Distinct(r)
  <2>. SUFFICES ASSUME NEW i \in 1..Len(r), NEW k \in 1..Len(r), r[i] = r[k]
                PROVE  i = k
    BY DEF Distinct
  <2>1. CASE i \in 1..Len(s) /\ k \in 1..Len(s)
    BY <1>2, <2>1 DEF Distinct
  <2>2. CASE i = Len(s) + 1 /\ k \in 1..Len(s)
    BY <1>1, <1>2, <2>2
  <2>3. CASE k = Len(s) + 1 /\ i \in 1..Len(s)
    BY <1>1, <1>2, <2>3
  <2>. QED
    BY <1>4, <2>1, <2>2, <2>3
<1>6. ToSet(r) = ToSet(s) \cup {j}
  <2>1. \A i \in 1..Len(r) : r[i] \in ToSet(s) \cup {j}
    BY <1>1, <1>2, <1>4
  <2>2. 1..Len(s) \subseteq 1..Len(r) /\ Len(s) + 1 \in 1..Len(r)
    BY <1>1, <1>2
  <2>. QED
    BY <1>1, <1>2, <1>3, <2>1, <2>2
<1>. QED
  BY <1>2, <1>5, <1>6 DEF r

\* The oldest leaves.
LEMMA Dequeued ==
  ASSUME NEW s \in Seq(Job), Distinct(s), s # << >>
  PROVE  /\ Head(s) \in ToSet(s) /\ Head(s) \in Job
         /\ Tail(s) \in Seq(Job) /\ Distinct(Tail(s))
         /\ ToSet(Tail(s)) = ToSet(s) \ {Head(s)}
<1>. DEFINE r == Tail(s)
<1>1. Len(s) \in Nat /\ ToSet(s) = {s[i] : i \in 1..Len(s)} /\ Len(s) # 0
  BY Elements, EmptySeq
<1>2. /\ r \in Seq(Job) /\ Len(r) = Len(s) - 1 /\ Head(s) \in Job
      /\ \A i \in 1..Len(r) : r[i] = s[i + 1]
  BY HeadTailProperties
<1>3. Head(s) = s[1] /\ 1 \in 1..Len(s)
  BY <1>1
<1>. HIDE DEF r
<1>4. ToSet(r) = {r[i] : i \in 1..Len(r)}
  BY <1>2, Elements
<1>5. \A i \in 1..Len(r) : i + 1 \in 1..Len(s) /\ i + 1 # 1
  BY <1>1, <1>2
<1>6. Distinct(r)
  BY <1>2, <1>5 DEF Distinct
<1>7. ToSet(r) \subseteq ToSet(s) \ {Head(s)}
  <2>1. \A i \in 1..Len(r) : s[i + 1] # s[1]
    BY <1>3, <1>5 DEF Distinct
  <2>. QED
    BY <1>1, <1>2, <1>3, <1>4, <1>5, <2>1
<1>8. ASSUME NEW j \in ToSet(s) \ {Head(s)}
      PROVE  j \in ToSet(r)
  <2>1. PICK i \in 1..Len(s) : j = s[i]
    BY <1>1
  <2>2. i - 1 \in 1..Len(r) /\ (i - 1) + 1 = i
    BY <1>1, <1>2, <1>3, <2>1
  <2>. QED
    BY <1>2, <1>4, <2>1, <2>2
<1>. QED
  BY <1>1, <1>2, <1>3, <1>6, <1>7, <1>8 DEF r

\* A queue is as long as it has jobs.
LEMMA QueueLength ==
  ASSUME NEW s \in Seq(Job), Distinct(s)
  PROVE  Cardinality(ToSet(s)) = Len(s)
<1>1. Len(s) \in Nat /\ s \in [1..Len(s) -> Job] /\ ToSet(s) = {s[i] : i \in 1..Len(s)}
  BY Elements, LenProperties
<1>2. s \in [1..Len(s) -> ToSet(s)]
  BY <1>1
<1>3. s \in Bijection(1..Len(s), ToSet(s))
  <2>1. IsInjective(s)
    BY <1>1 DEF IsInjective, Distinct
  <2>2. \A c \in ToSet(s) : \E i \in 1..Len(s) : s[i] = c
    BY <1>1
  <2>. QED
    BY <1>2, <2>1, <2>2 DEF Bijection, Injection, Surjection
<1>. QED
  BY <1>1, <1>3, FS_CountingElements DEF ExistsBijection

-----------------------------------------------------------------------------
(* Queries, counts and steps.                                                *)

LEMMA QueryFields ==
  ASSUME TypeOK, NEW q \in query
  PROVE  /\ q \in Query /\ q.client \in Client /\ q.loop \in Loop /\ q.job \in Job
         /\ q.end \in {"hand", "wait", "ok", "lost"}
         /\ q.client \in InUse(q.loop) /\ q.job \in Carried
BY DEF TypeOK, Query, InUse, Carried

\* The query that is taken up, and one that has gone on.
Taken(l, c) == [client |-> c, loop |-> l, job |-> Head(pending[l]), end |-> "hand"]
GoneOn(q, how) == [q EXCEPT !.end = how]

LEMMA GoneOnFields ==
  ASSUME NEW q \in Query, NEW how \in {"hand", "wait", "ok", "lost"}
  PROVE  /\ GoneOn(q, how) \in Query /\ GoneOn(q, how).end = how
         /\ GoneOn(q, how).client = q.client /\ GoneOn(q, how).loop = q.loop
         /\ GoneOn(q, how).job = q.job
BY DEF GoneOn, Query

LEMMA JobsFinite ==
  \A S \in SUBSET Job :
    /\ IsFiniteSet(S) /\ Cardinality(S) \in Nat /\ Cardinality(S) <= Cardinality(Job)
    /\ \A T \in SUBSET S : Cardinality(S \ T) = Cardinality(S) - Cardinality(T)
    /\ \A j : j \notin S => Cardinality(S \cup {j}) = Cardinality(S) + 1
    /\ \A j \in S : Cardinality(S \ {j}) = Cardinality(S) - 1
<1>. SUFFICES ASSUME NEW S \in SUBSET Job
              PROVE  /\ IsFiniteSet(S) /\ Cardinality(S) \in Nat
                     /\ Cardinality(S) <= Cardinality(Job)
                     /\ \A T \in SUBSET S :
                          Cardinality(S \ T) = Cardinality(S) - Cardinality(T)
                     /\ \A j : j \notin S => Cardinality(S \cup {j}) = Cardinality(S) + 1
                     /\ \A j \in S : Cardinality(S \ {j}) = Cardinality(S) - 1
  OBVIOUS
<1>1. /\ IsFiniteSet(S) /\ Cardinality(S) \in Nat
      /\ Cardinality(S) <= Cardinality(Job)
  BY FiniteAssumption, FS_Subset, FS_CardinalityType
<1>2. ASSUME NEW T \in SUBSET S
      PROVE  Cardinality(S \ T) = Cardinality(S) - Cardinality(T)
  <2>1. IsFiniteSet(T) /\ Cardinality(T) \in Nat
    BY <1>1, FS_Subset, FS_CardinalityType
  <2>. DEFINE D == S \ T
  <2>2. IsFiniteSet(D) /\ Cardinality(D) \in Nat
    BY <1>1, FS_Subset, FS_CardinalityType
  <2>3. D \cup T = S /\ D \cap T = {}
    OBVIOUS
  <2>. HIDE DEF D
  <2>4. Cardinality(D \cup T) = Cardinality(D) + Cardinality(T) - Cardinality(D \cap T)
    BY <2>1, <2>2, FS_Union
  <2>5. Cardinality(D \cap T) = 0
    BY <2>3, FS_EmptySet
  <2>6. Cardinality(S) = Cardinality(D) + Cardinality(T)
    <3>1. Cardinality(D \cup T) = Cardinality(S)
      BY <2>3, Zenon
    <3>. QED
      BY <2>1, <2>2, <2>4, <2>5, <3>1
  <2>7. Cardinality(D) = Cardinality(S) - Cardinality(T)
    BY <2>1, <2>2, <2>6
  <2>. QED
    BY <2>7 DEF D
<1>3. /\ \A j : j \notin S => Cardinality(S \cup {j}) = Cardinality(S) + 1
      /\ \A j \in S : Cardinality(S \ {j}) = Cardinality(S) - 1
  BY <1>1, FS_AddElement, FS_RemoveElement
<1>. QED
  BY <1>1, <1>2, <1>3

\* The steps there are, one disjunct per action.
Steps ==
  \/ \E j \in Job, l \in Loop, onLoop \in BOOLEAN : Submit(j, l, onLoop)
  \/ \E j \in Job : WakeShard(j) \/ BootRefused(j)
  \/ \E l \in Loop : \/ Bootstrap(l) \/ OnWake(l) \/ DrainOpens(l) \/ OpenFails(l)
                     \/ DrainEnds(l) \/ Leave(l) \/ CloseShard(l) \/ Detach(l)
  \/ \E l \in Loop, c \in Client : DrainFree(l, c) \/ DrainIdle(l, c) \/ OpenDone(l, c)
  \/ \E l \in Loop, q \in query, end \in {"wait", "ok", "lost"} : Sent(l, q, end)
  \/ \E l \in Loop, q \in query : NotSent(l, q)
  \/ \E q \in query : ResultsRead(q) \/ ConnectionLost(q) \/ TimesOut(q) \/ Complete(q)
  \/ Close \/ CloseReturns \/ BeginDestroy \/ Destroy
  \/ UNCHANGED vars

LEMMA NextIsSteps == [Next]_vars => Steps
BY DEF Steps, Next, Inside, LoopStep, QueryStep, CloseStep, Terminated

\* The parts that the proofs below use most.
LEMMA Types ==
  ASSUME TypeOK
  PROVE  /\ pending \in [Loop -> Seq(Job)] /\ job \in [Job -> {"new", "in", "answered"}]
         /\ done \in [Loop -> Job \cup {NoJob}] /\ caller \in [Job -> Loop \cup {NoLoop}]
         /\ at \in [Loop -> {"poll", "drain", "opening", "start", "leave"}]
         /\ conns \in [Loop -> SUBSET Client] /\ free \in [Loop -> SUBSET Client]
         /\ wake \in [Loop -> BOOLEAN]
         /\ shard \in [Loop -> {"none", "cold", "booting", "ready", "detached"}]
         /\ owned \subseteq Client /\ idle \subseteq Client /\ query \subseteq Query
         /\ dirty \subseteq Client /\ work \in Nat
         /\ \A l \in Loop : pending[l] \in Seq(Job) /\ Waiting(l) \subseteq Job
         /\ In \in SUBSET Job
<1>1. Cardinality(Job) \in Nat
  BY FiniteAssumption, FS_CardinalityType
<1>2. \A l \in Loop : pending[l] \in Seq(Job) /\ Waiting(l) \subseteq Job
  BY Elements DEF TypeOK, Waiting
<1>. QED
  BY <1>1, <1>2 DEF TypeOK, In

-----------------------------------------------------------------------------
(* Every job is accounted for.                                               *)

\* A queue that is failed: its jobs are over.
LEMMA FailsQueue ==
  ASSUME TypeOK, Accounted, NEW l \in Loop, FailPending(l)
  PROVE  /\ In' = In \ Waiting(l) /\ work' = Cardinality(In')
         /\ job' \in [Job -> {"new", "in", "answered"}]
         /\ pending' \in [Loop -> Seq(Job)]
         /\ pending'[l] = << >> /\ Waiting(l)' = {}
         /\ \A k \in Loop \ {l} : pending'[k] = pending[k]
<1>1. pending[l] \in Seq(Job) /\ Distinct(pending[l]) /\ Waiting(l) \subseteq Job
  BY Types DEF Accounted
<1>2. /\ job' = [j \in Job |-> IF j \in Waiting(l) THEN "answered" ELSE job[j]]
      /\ work' = work - Len(pending[l])
      /\ pending' = [pending EXCEPT ![l] = << >>]
  BY DEF FailPending, Waiting
<1>3. In' = In \ Waiting(l) /\ job' \in [Job -> {"new", "in", "answered"}]
  BY <1>2, Types DEF In
<1>4. Waiting(l) \subseteq In
  BY <1>1 DEF Accounted, In
<1>5. Cardinality(Waiting(l)) = Len(pending[l])
  BY <1>1, QueueLength DEF Waiting
<1>6. work' = Cardinality(In')
  <2>1. In \in SUBSET Job /\ work = Cardinality(In)
    BY Types DEF Accounted
  <2>2. Cardinality(In \ Waiting(l)) = Cardinality(In) - Cardinality(Waiting(l))
    BY <1>4, <2>1, JobsFinite
  <2>. QED
    BY <1>2, <1>3, <1>5, <2>1, <2>2
<1>7. << >> \in Seq(Job) /\ ToSet(<< >>) = {}
  BY EmptySeq DEF ToSet
<1>. QED
  BY <1>2, <1>3, <1>6, <1>7, Types DEF Waiting

LEMMA AccountStep ==
  ASSUME IInv, Steps
  PROVE  Accounted'
<1>. USE DEF sizes, shards, stacks, jobs, vars
<1>a. TypeOK /\ Accounted
  BY DEF IInv
<1>b. /\ work = Cardinality(In) /\ In \in SUBSET Job
      /\ \A l \in Loop : Distinct(pending[l])
      /\ \A j \in Job : j \in In <=>
           j \in Waiting(Home[j]) \/ j \in Carried \/ done[Home[j]] = j
      /\ \A l \in Loop : \A j \in Waiting(l) : Home[j] = l /\ j \notin Carried /\ done[l] # j
      /\ \A q \in query : Home[q.job] = q.loop /\ done[q.loop] # q.job
      /\ \A q, r \in query : q.job = r.job => q = r
      /\ \A l \in Loop : done[l] # NoJob => Home[done[l]] = l
  BY <1>a, Types DEF Accounted, In
<1>c. /\ \A j \in Job : Home[j] \in Loop
      /\ \A l \in Loop : pending[l] \in Seq(Job) /\ Waiting(l) \subseteq Job
      /\ done \in [Loop -> Job \cup {NoJob}] /\ NoJob \notin Job
      /\ pending \in [Loop -> Seq(Job)] /\ job \in [Job -> {"new", "in", "answered"}]
  BY <1>a, Types, HomeAssumption, NamesAssumption
<1>d. \A q \in query : q.job \in Job /\ q.loop \in Loop /\ q.job \in Carried /\ q \in Query
  BY <1>a, QueryFields
\* What has to be shown, with the jobs that are not over as a set.
<1>e. ASSUME work' = Cardinality(In'),
             \A l \in Loop : Distinct(pending'[l]),
             \A j \in Job : j \in In' <=>
               j \in Waiting(Home[j])' \/ j \in Carried' \/ done'[Home[j]] = j,
             \A l \in Loop : \A j \in Waiting(l)' :
               Home[j] = l /\ j \notin Carried' /\ done'[l] # j,
             \A q \in query' : Home[q.job] = q.loop /\ done'[q.loop] # q.job,
             \A q, r \in query' : q.job = r.job => q = r,
             \A l \in Loop : done'[l] # NoJob => Home[done'[l]] = l
      PROVE  Accounted'
  BY <1>e DEF Accounted, In
\* No job goes anywhere.
<1>f. ASSUME UNCHANGED <<pending, job, work, done, query>>
      PROVE  Accounted'
  BY <1>a, <1>f DEF Accounted, In, Waiting, Carried
\* A query goes on and stays what it is.
<1>g. ASSUME NEW q \in query, NEW how \in {"hand", "wait", "ok", "lost"},
             query' = (query \ {q}) \cup {GoneOn(q, how)},
             UNCHANGED <<pending, job, work, done>>
      PROVE  Accounted'
  <2>1. GoneOn(q, how).job = q.job /\ GoneOn(q, how).loop = q.loop
    BY <1>d, <1>g, GoneOnFields
  <2>2. Carried' = Carried
    BY <1>g, <2>1 DEF Carried
  <2>3. In' = In /\ \A l \in Loop : Waiting(l)' = Waiting(l)
    BY <1>g DEF In, Waiting
  <2>4. \A r, s \in query' : r.job = s.job => r = s
    BY <1>b, <1>g, <2>1
  <2>5. \A r \in query' : Home[r.job] = r.loop /\ done'[r.loop] # r.job
    BY <1>b, <1>g, <2>1
  <2>. QED
    BY <1>b, <1>c, <1>e, <1>g, <2>2, <2>3, <2>4, <2>5
\* The jobs that wait at a loop are over.
<1>h. ASSUME NEW l \in Loop, FailPending(l), UNCHANGED <<done, query>>
      PROVE  Accounted'
  <2>1. /\ In' = In \ Waiting(l) /\ work' = Cardinality(In')
        /\ pending'[l] = << >> /\ Waiting(l)' = {}
        /\ \A k \in Loop \ {l} : pending'[k] = pending[k]
    BY <1>a, <1>h, FailsQueue
  <2>2. \A k \in Loop \ {l} : Waiting(k)' = Waiting(k)
    BY <2>1 DEF Waiting
  <2>3. Carried' = Carried
    BY <1>h DEF Carried
  <2>4. \A k \in Loop : Distinct(pending'[k])
    <3>1. Distinct(<< >>)
      BY DEF Distinct
    <3>. QED
      BY <1>b, <2>1, <3>1
  <2>5. ASSUME NEW j \in Job
        PROVE  j \in In' <=>
                 j \in Waiting(Home[j])' \/ j \in Carried' \/ done'[Home[j]] = j
    <3>1. Home[j] \in Loop /\ done' = done
      BY <1>c, <1>h
    <3>2. CASE Home[j] = l
      BY <1>b, <2>1, <2>2, <2>3, <3>1, <3>2
    <3>3. CASE Home[j] # l
      BY <1>b, <2>1, <2>2, <2>3, <3>1, <3>3
    <3>. QED
      BY <3>2, <3>3
  <2>6. \A k \in Loop : \A j \in Waiting(k)' :
          Home[j] = k /\ j \notin Carried' /\ done'[k] # j
    BY <1>b, <1>h, <2>1, <2>2, <2>3
  <2>. QED
    BY <1>b, <1>e, <1>h, <2>1, <2>4, <2>5, <2>6
\* The job in front is taken up.
<1>i. ASSUME NEW l \in Loop, NEW c \in Client, pending[l] # << >>, TakeUp(l, c),
             UNCHANGED <<done, job, work>>
      PROVE  Accounted'
  <2>. DEFINE j0 == Head(pending[l])
              n == Taken(l, c)
  <2>1. /\ j0 \in Waiting(l) /\ j0 \in Job /\ Distinct(Tail(pending[l]))
        /\ ToSet(Tail(pending[l])) = Waiting(l) \ {j0}
    BY <1>b, <1>c, <1>i, Dequeued DEF Waiting
  <2>2. /\ query' = query \cup {n} /\ n.job = j0 /\ n.loop = l
        /\ pending' = [pending EXCEPT ![l] = Tail(pending[l])]
    BY <1>i DEF TakeUp, Taken
  <2>. HIDE DEF j0, n
  <2>3. Waiting(l)' = Waiting(l) \ {j0} /\ \A k \in Loop \ {l} : Waiting(k)' = Waiting(k)
    BY <1>c, <2>1, <2>2 DEF Waiting
  <2>4. Carried' = Carried \cup {j0} /\ In' = In
    BY <1>i, <2>2 DEF Carried, In
  <2>5. \A k \in Loop : Distinct(pending'[k])
    BY <1>b, <1>c, <2>1, <2>2
  <2>6. Home[j0] = l /\ j0 \notin Carried /\ done[l] # j0 /\ j0 \in In
    BY <1>b, <2>1
  <2>7. \A j \in Job : j \in In' <=>
          j \in Waiting(Home[j])' \/ j \in Carried' \/ done'[Home[j]] = j
    BY <1>b, <1>c, <1>i, <2>1, <2>3, <2>4, <2>6
  <2>8. \A k \in Loop : \A j \in Waiting(k)' :
          Home[j] = k /\ j \notin Carried' /\ done'[k] # j
    BY <1>b, <1>i, <2>3, <2>4, <2>6
  <2>9. \A q, r \in query' : q.job = r.job => q = r
    BY <1>b, <1>d, <2>2, <2>6
  <2>10. \A q \in query' : Home[q.job] = q.loop /\ done'[q.loop] # q.job
    BY <1>b, <1>i, <2>2, <2>6
  <2>11. work' = Cardinality(In')
    BY <1>b, <1>i, <2>4
  <2>. QED
    BY <1>b, <1>e, <1>i, <2>5, <2>7, <2>8, <2>9, <2>10, <2>11
<1>1. ASSUME NEW j \in Job, NEW l \in Loop, NEW onLoop \in BOOLEAN, Submit(j, l, onLoop)
      PROVE  Accounted'
  <2>1. /\ job[j] = "new" /\ l = Home[j] /\ work' = work + 1
        /\ pending' = [pending EXCEPT ![l] = Append(pending[l], j)]
        /\ job' = [job EXCEPT ![j] = "in"] /\ UNCHANGED <<done, query>>
    BY <1>1 DEF Submit
  <2>2. In' = In \cup {j} /\ j \notin In
    BY <1>c, <2>1 DEF In
  <2>3. j \notin Waiting(l) /\ j \notin Carried /\ done[l] # j
    BY <1>b, <2>1, <2>2
  <2>4. /\ Distinct(Append(pending[l], j))
        /\ ToSet(Append(pending[l], j)) = Waiting(l) \cup {j}
    BY <1>b, <1>c, <2>3, Queued DEF Waiting
  <2>5. Waiting(l)' = Waiting(l) \cup {j} /\ \A k \in Loop \ {l} : Waiting(k)' = Waiting(k)
    BY <1>c, <2>1, <2>4 DEF Waiting
  <2>6. \A k \in Loop : Distinct(pending'[k])
    BY <1>b, <1>c, <2>1, <2>4
  <2>7. Carried' = Carried
    BY <2>1 DEF Carried
  <2>8. work' = Cardinality(In')
    BY <1>b, <2>1, <2>2, JobsFinite
  <2>9. \A i \in Job : i \in In' <=>
          i \in Waiting(Home[i])' \/ i \in Carried' \/ done'[Home[i]] = i
    <3>1. \A i \in Job \ {j} :
            (i \in In' <=> i \in In) /\ (i \in Waiting(Home[i])' <=> i \in Waiting(Home[i]))
      BY <1>c, <2>2, <2>5
    <3>2. j \in In' /\ j \in Waiting(Home[j])'
      BY <2>1, <2>2, <2>5
    <3>3. Carried' = Carried /\ done' = done
      BY <2>1, <2>7
    <3>. QED
      BY <1>b, <3>1, <3>2, <3>3
  <2>10. \A k \in Loop : \A i \in Waiting(k)' :
           Home[i] = k /\ i \notin Carried' /\ done'[k] # i
    BY <1>b, <2>1, <2>3, <2>5, <2>7
  <2>. QED
    BY <1>b, <1>e, <2>1, <2>6, <2>8, <2>9, <2>10
<1>2. ASSUME NEW j \in Job, BootRefused(j)
      PROVE  Accounted'
  <2>1. caller[j] \in Loop
    BY <1>a, <1>2, Types DEF BootRefused
  <2>. QED
    BY <1>2, <1>h, <2>1 DEF BootRefused
<1>3. ASSUME NEW l \in Loop, OpenFails(l) \/ CloseShard(l)
      PROVE  Accounted'
  BY <1>3, <1>h DEF OpenFails, CloseShard
<1>4. ASSUME NEW l \in Loop, Bootstrap(l)
      PROVE  Accounted'
  BY <1>4, <1>f, <1>h DEF Bootstrap
<1>5. ASSUME NEW l \in Loop, NEW c \in Client,
             DrainFree(l, c) \/ DrainIdle(l, c) \/ OpenDone(l, c)
      PROVE  Accounted'
  <2>1. UNCHANGED <<done, job, work>>
    BY <1>5 DEF DrainFree, DrainIdle, OpenDone
  <2>2. pending[l] # << >> /\ TakeUp(l, c)
    BY <1>5 DEF DrainFree, DrainIdle, OpenDone, Wants, IInv, Manned
  <2>. QED
    BY <1>i, <2>1, <2>2
<1>6. ASSUME NEW l \in Loop, Leave(l)
      PROVE  Accounted'
  <2>1. /\ done' = [done EXCEPT ![l] = NoJob] /\ UNCHANGED <<pending, query>>
        /\ job' = [j \in Job |-> IF j = done[l] THEN "answered" ELSE job[j]]
        /\ work' = IF done[l] = NoJob THEN work ELSE work - 1
    BY <1>6 DEF Leave
  <2>2. Carried' = Carried /\ \A k \in Loop : Waiting(k)' = Waiting(k)
    BY <2>1 DEF Carried, Waiting
  <2>3. In' = In \ {done[l]}
    BY <2>1 DEF In
  <2>4. done[l] = NoJob \/ (done[l] \in In /\ Home[done[l]] = l)
    BY <1>b, <1>c
  <2>5. work' = Cardinality(In')
    <3>1. CASE done[l] = NoJob
      <4>1. In' = In
        BY <1>b, <1>c, <2>3, <3>1
      <4>. QED
        BY <1>b, <2>1, <3>1, <4>1
    <3>2. CASE done[l] \in In
      BY <1>b, <1>c, <2>1, <2>3, <3>2, JobsFinite
    <3>. QED
      BY <2>4, <3>1, <3>2
  <2>6. \A j \in Job : j \in In' <=>
          j \in Waiting(Home[j])' \/ j \in Carried' \/ done'[Home[j]] = j
    <3>1. done[l] \notin Waiting(l) /\ done[l] \notin Carried
      <4>1. \A q \in query : done[l] # q.job
        BY <1>b, <1>c, <1>d
      <4>. QED
        BY <1>b, <4>1 DEF Carried
    <3>2. ASSUME NEW j \in Job
          PROVE  done'[Home[j]] = j <=> done[Home[j]] = j /\ j # done[l]
      <4>1. CASE Home[j] = l
        BY <1>c, <2>1, <4>1
      <4>2. CASE Home[j] # l
        BY <1>c, <2>1, <2>4, <4>2
      <4>. QED
        BY <4>1, <4>2
    <3>3. ASSUME NEW j \in Job, j \in Waiting(Home[j]) \/ j \in Carried
          PROVE  j # done[l]
      BY <1>c, <2>4, <3>1, <3>3
    <3>4. ASSUME NEW j \in Job
          PROVE  j \in In' <=>
                   j \in Waiting(Home[j])' \/ j \in Carried' \/ done'[Home[j]] = j
      <4>1. Waiting(Home[j])' = Waiting(Home[j])
        BY <1>c, <2>2
      <4>2. j \in In' <=> j \in In /\ j # done[l]
        BY <2>3
      <4>. QED
        BY <1>b, <2>2, <3>2, <3>3, <4>1, <4>2
    <3>. QED
      BY <3>4
  <2>7. \A k \in Loop : done'[k] \in {done[k], NoJob}
    BY <1>c, <2>1
  <2>8. \A q \in query' : Home[q.job] = q.loop /\ done'[q.loop] # q.job
    BY <1>b, <1>c, <1>d, <2>1, <2>7
  <2>9. \A k \in Loop : \A j \in Waiting(k)' :
          Home[j] = k /\ j \notin Carried' /\ done'[k] # j
    BY <1>b, <1>c, <2>2, <2>7
  <2>10. \A k \in Loop : done'[k] # NoJob => Home[done'[k]] = k
    BY <1>b, <2>7
  <2>. QED
    BY <1>b, <1>e, <2>1, <2>5, <2>6, <2>8, <2>9, <2>10
<1>7. ASSUME NEW l \in Loop, NEW q \in query, NEW end \in {"wait", "ok", "lost"}, Sent(l, q, end)
      PROVE  Accounted'
  BY <1>7, <1>g DEF Sent, GoneOn
<1>8. ASSUME NEW q \in query, ResultsRead(q) \/ ConnectionLost(q) \/ TimesOut(q)
      PROVE  Accounted'
  BY <1>8, <1>g DEF ResultsRead, ConnectionLost, TimesOut, Ends, GoneOn
<1>j. ASSUME NEW q \in query
      PROVE  /\ {r.job : r \in query \ {q}} = Carried \ {q.job}
             /\ q.job \in In /\ q.job \notin Waiting(q.loop)
  BY <1>b, <1>d DEF Carried
<1>9. ASSUME NEW l \in Loop, NEW q \in query, NotSent(l, q)
      PROVE  Accounted'
  <2>1. /\ query' = query \ {q} /\ job' = [job EXCEPT ![q.job] = "answered"]
        /\ work' = work - 1 /\ UNCHANGED <<pending, done>>
    BY <1>9 DEF NotSent
  <2>2. In' = In \ {q.job}
    BY <1>c, <1>d, <2>1 DEF In
  <2>3. Carried' = Carried \ {q.job} /\ \A k \in Loop : Waiting(k)' = Waiting(k)
    BY <1>j, <2>1 DEF Carried, Waiting
  <2>4. work' = Cardinality(In')
    BY <1>b, <1>j, <2>1, <2>2, JobsFinite
  <2>5. ASSUME NEW j \in Job
        PROVE  j \in In' <=>
                 j \in Waiting(Home[j])' \/ j \in Carried' \/ done'[Home[j]] = j
    <3>1. Waiting(Home[j])' = Waiting(Home[j]) /\ done' = done
      BY <1>c, <2>1, <2>3
    <3>2. CASE j = q.job
      <4>1. Home[j] = q.loop /\ done[Home[j]] # j
        BY <1>b, <3>2
      <4>. QED
        BY <1>j, <2>2, <2>3, <3>1, <3>2, <4>1
    <3>3. CASE j # q.job
      BY <1>b, <2>2, <2>3, <3>1, <3>3
    <3>. QED
      BY <3>2, <3>3
  <2>. QED
    BY <1>b, <1>c, <1>e, <2>1, <2>3, <2>4, <2>5
<1>10. ASSUME NEW q \in query, Complete(q)
       PROVE  Accounted'
  <2>. DEFINE l == q.loop
  <2>1. /\ query' = query \ {q} /\ done' = [done EXCEPT ![l] = q.job] /\ at[l] = "poll"
        /\ UNCHANGED <<pending, job, work>>
    BY <1>10 DEF Complete
  <2>2. l \in Loop /\ done[l] = NoJob /\ Home[q.job] = l
    BY <1>b, <1>d, <2>1 DEF IInv, Manned
  <2>. HIDE DEF l
  <2>3. /\ Carried' = Carried \ {q.job} /\ In' = In
        /\ \A k \in Loop : Waiting(k)' = Waiting(k)
    BY <1>j, <2>1 DEF Carried, Waiting, In
  <2>4. ASSUME NEW j \in Job
        PROVE  j \in In' <=>
                 j \in Waiting(Home[j])' \/ j \in Carried' \/ done'[Home[j]] = j
    <3>1. Home[j] \in Loop /\ Waiting(Home[j])' = Waiting(Home[j])
      BY <1>c, <2>3
    <3>2. CASE j = q.job
      <4>1. done'[Home[j]] = j
        BY <1>c, <2>1, <2>2, <3>2
      <4>. QED
        BY <1>j, <2>3, <3>2, <4>1
    <3>3. CASE j # q.job
      <4>1. done'[Home[j]] = j <=> done[Home[j]] = j
        BY <1>c, <1>d, <2>1, <2>2, <3>1, <3>3
      <4>. QED
        BY <1>b, <2>3, <3>1, <3>3, <4>1
    <3>. QED
      BY <3>2, <3>3
  <2>5. \A k \in Loop : \A j \in Waiting(k)' :
          Home[j] = k /\ j \notin Carried' /\ done'[k] # j
    BY <1>b, <1>c, <1>j, <2>1, <2>2, <2>3 DEF l
  <2>6. \A r \in query' : Home[r.job] = r.loop /\ done'[r.loop] # r.job
    BY <1>b, <1>c, <1>d, <2>1, <2>2
  <2>7. \A k \in Loop : done'[k] # NoJob => Home[done'[k]] = k
    BY <1>b, <1>c, <2>1, <2>2
  <2>. QED
    BY <1>b, <1>e, <2>1, <2>3, <2>4, <2>5, <2>6, <2>7
<1>11. ASSUME \/ \E j \in Job : WakeShard(j)
              \/ \E l \in Loop : OnWake(l) \/ DrainOpens(l) \/ DrainEnds(l) \/ Detach(l)
              \/ Close \/ CloseReturns \/ BeginDestroy \/ Destroy \/ UNCHANGED vars
       PROVE  Accounted'
  <2>1. UNCHANGED <<pending, job, work, done, query>>
    BY <1>11 DEF WakeShard, OnWake, DrainOpens, DrainEnds, Detach, Close, CloseReturns,
       BeginDestroy, Destroy
  <2>. QED
    BY <1>f, <2>1
<1>. QED
  BY <1>1, <1>2, <1>3, <1>4, <1>5, <1>6, <1>7, <1>8, <1>9, <1>10, <1>11 DEF Steps

-----------------------------------------------------------------------------
(* Types.                                                                    *)

LEMMA TypeStep ==
  ASSUME IInv, Steps
  PROVE  TypeOK'
<1>. USE DEF sizes, shards, stacks, jobs, vars
<1>a. TypeOK
  BY DEF IInv
<1>b. work' \in 0..Cardinality(Job)
  <2>1. work' = Cardinality(In')
    BY AccountStep DEF Accounted
  <2>2. In' \in SUBSET Job
    BY DEF In
  <2>3. Cardinality(In') \in Nat /\ Cardinality(In') <= Cardinality(Job)
    BY <2>2, JobsFinite
  <2>4. Cardinality(Job) \in Nat
    BY FiniteAssumption, FS_CardinalityType
  <2>. QED
    BY <2>1, <2>3, <2>4
<1>1. ASSUME NEW j \in Job, NEW l \in Loop, NEW onLoop \in BOOLEAN, Submit(j, l, onLoop)
      PROVE  TypeOK'
  <2>1. pending' \in [Loop -> Seq(Job)]
    <3>1. Append(pending[l], j) \in Seq(Job)
      BY <1>a, AppendProperties DEF TypeOK
    <3>. QED
      BY <1>a, <1>1, <3>1 DEF Submit, TypeOK
  <2>2. /\ at' \in [Loop -> {"poll", "drain", "opening", "start", "leave"}]
        /\ caller' \in [Job -> Loop \cup {NoLoop}]
    BY <1>a, <1>1 DEF Submit, TypeOK, Goto
  <2>3. shard' \in [Loop -> {"none", "cold", "booting", "ready", "detached"}]
    BY <1>a, <1>1 DEF Submit, TypeOK
  <2>. QED
    BY <1>a, <1>b, <1>1, <2>1, <2>2, <2>3 DEF Submit, TypeOK
<1>2. ASSUME NEW j \in Job, WakeShard(j)
      PROVE  TypeOK'
  <2>1. /\ wake' \in [Loop -> BOOLEAN]
        /\ shard' \in [Loop -> {"none", "cold", "booting", "ready", "detached"}]
        /\ caller' \in [Job -> Loop \cup {NoLoop}]
    BY <1>a, <1>2 DEF WakeShard, TypeOK
  <2>. QED
    BY <1>a, <1>b, <1>2, <2>1 DEF WakeShard, TypeOK
\* A queue is failed, and a thread may move.
<1>c. ASSUME NEW l \in Loop, FailPending(l),
             UNCHANGED <<pool, owned, idle, conns, free, wake, done, query, dirty>>,
             toFail' \subseteq Loop,
             shard' \in [Loop -> {"none", "cold", "booting", "ready", "detached"}],
             at' \in [Loop -> {"poll", "drain", "opening", "start", "leave"}],
             caller' \in [Job -> Loop \cup {NoLoop}]
      PROVE  TypeOK'
  <2>1. /\ job' \in [Job -> {"new", "in", "answered"}]
        /\ pending' \in [Loop -> Seq(Job)]
    BY <1>a, <1>c, FailsQueue DEF IInv
  <2>. QED
    BY <1>a, <1>b, <1>c, <2>1 DEF TypeOK
<1>3. ASSUME NEW j \in Job, BootRefused(j)
      PROVE  TypeOK'
  <2>1. caller[j] \in Loop /\ caller' \in [Job -> Loop \cup {NoLoop}]
    BY <1>a, <1>3, Types DEF BootRefused
  <2>. QED
    BY <1>a, <1>c, <1>3, <2>1 DEF BootRefused, TypeOK
<1>4. ASSUME NEW l \in Loop, OpenFails(l) \/ CloseShard(l)
      PROVE  TypeOK'
  <2>1. at' \in [Loop -> {"poll", "drain", "opening", "start", "leave"}]
    <3>1. at' = at \/ at' = Goto(l, "leave")
      BY <1>4 DEF OpenFails, CloseShard
    <3>. QED
      BY <1>a, <3>1 DEF TypeOK, Goto
  <2>2. /\ FailPending(l) /\ toFail' \subseteq toFail
        /\ UNCHANGED <<pool, owned, idle, conns, free, shard, wake, done, query, dirty, caller>>
    BY <1>4 DEF OpenFails, CloseShard
  <2>. QED
    BY <1>a, <1>c, <2>1, <2>2 DEF TypeOK
<1>5. ASSUME NEW l \in Loop, Bootstrap(l)
      PROVE  TypeOK'
  <2>1. /\ at' \in [Loop -> {"poll", "drain", "opening", "start", "leave"}]
        /\ shard' \in [Loop -> {"none", "cold", "booting", "ready", "detached"}]
    <3>1. /\ at' = at \/ at' = Goto(l, "drain")
          /\ \E new \in {"cold", "ready"} : shard' = [shard EXCEPT ![l] = new]
      BY <1>5 DEF Bootstrap
    <3>2. at' \in [Loop -> {"poll", "drain", "opening", "start", "leave"}]
      BY <1>a, <3>1 DEF TypeOK, Goto
    <3>3. shard' \in [Loop -> {"none", "cold", "booting", "ready", "detached"}]
      BY <1>a, <3>1 DEF TypeOK
    <3>. QED
      BY <3>2, <3>3
  <2>2. CASE FailPending(l)
    BY <1>a, <1>c, <1>5, <2>1, <2>2 DEF Bootstrap, TypeOK
  <2>3. CASE UNCHANGED <<pending, job, work>>
    BY <1>a, <1>b, <1>5, <2>1, <2>3 DEF Bootstrap, TypeOK
  <2>. QED
    BY <1>5, <2>2, <2>3 DEF Bootstrap
\* A thread moves, or completes, and touches no queue.
<1>6. ASSUME NEW l \in Loop, OnWake(l) \/ DrainOpens(l) \/ DrainEnds(l) \/ Leave(l)
      PROVE  TypeOK'
  <2>1. /\ \E there \in {"poll", "drain", "opening", "leave"} : at' = Goto(l, there)
        /\ wake' \in {wake, [wake EXCEPT ![l] = FALSE]}
        /\ done' \in {done, [done EXCEPT ![l] = NoJob]}
        /\ \/ job' = job
           \/ job' = [j \in Job |-> IF j = done[l] THEN "answered" ELSE job[j]]
        /\ UNCHANGED <<pool, toFail, owned, idle, conns, free, pending, shard, query, dirty,
                       caller>>
    BY <1>6 DEF OnWake, DrainOpens, DrainEnds, Leave
  <2>2. at' \in [Loop -> {"poll", "drain", "opening", "start", "leave"}]
    BY <1>a, <2>1 DEF TypeOK, Goto
  <2>3. wake' \in [Loop -> BOOLEAN] /\ done' \in [Loop -> Job \cup {NoJob}]
    BY <1>a, <2>1 DEF TypeOK
  <2>4. job' \in [Job -> {"new", "in", "answered"}]
    BY <1>a, <2>1 DEF TypeOK
  <2>. QED
    BY <1>a, <1>b, <2>1, <2>2, <2>3, <2>4 DEF TypeOK
<1>7. ASSUME NEW l \in Loop, NEW c \in Client,
             DrainFree(l, c) \/ DrainIdle(l, c) \/ OpenDone(l, c)
      PROVE  TypeOK'
  <2>1. pending[l] # << >> /\ TakeUp(l, c)
    BY <1>7 DEF DrainFree, DrainIdle, OpenDone, Wants, IInv, Manned
  <2>2. Head(pending[l]) \in Job /\ Tail(pending[l]) \in Seq(Job)
    BY <1>a, <2>1, Types, HeadTailProperties
  <2>3. /\ pending' \in [Loop -> Seq(Job)] /\ query' \subseteq Query
        /\ at' \in [Loop -> {"poll", "drain", "opening", "start", "leave"}]
    BY <1>a, <2>1, <2>2 DEF TakeUp, TypeOK, Query, Goto
  <2>4. /\ owned' \subseteq Client /\ idle' \subseteq Client
        /\ conns' \in [Loop -> SUBSET Client] /\ free' \in [Loop -> SUBSET Client]
    <3>1. /\ owned' \in {owned, owned \cup {c}} /\ idle' \subseteq idle
          /\ conns' \in {conns, [conns EXCEPT ![l] = @ \cup {c}]}
          /\ free' \in {free, [free EXCEPT ![l] = @ \ {c}]}
      BY <1>7 DEF DrainFree, DrainIdle, OpenDone
    <3>2. conns \in [Loop -> SUBSET Client] /\ free \in [Loop -> SUBSET Client]
      BY <1>a DEF TypeOK
    <3>3. owned' \subseteq Client /\ idle' \subseteq Client
      BY <1>a, <3>1 DEF TypeOK
    <3>4. conns' \in [Loop -> SUBSET Client]
      BY <3>1, <3>2
    <3>5. free' \in [Loop -> SUBSET Client]
      BY <3>1, <3>2
    <3>. QED
      BY <3>3, <3>4, <3>5
  <2>5. /\ UNCHANGED <<pool, toFail, shard, wake, done, job, caller>>
        /\ dirty' \subseteq dirty
    BY <1>7 DEF DrainFree, DrainIdle, OpenDone
  <2>6. dirty' \subseteq Client
    BY <1>a, <2>5 DEF TypeOK
  <2>. QED
    BY <1>a, <1>b, <2>3, <2>4, <2>5, <2>6 DEF TypeOK
<1>8. ASSUME NEW l \in Loop, NEW q \in query, NEW end \in {"wait", "ok", "lost"},
             Sent(l, q, end) \/ NotSent(l, q)
      PROVE  TypeOK'
  <2>1. q \in Query /\ q.client \in Client /\ q.job \in Job
    BY <1>a, QueryFields
  <2>2. query' \subseteq Query /\ dirty' \subseteq Client
    <3>1. GoneOn(q, end) \in Query
      BY <2>1, GoneOnFields
    <3>2. query' \subseteq query \cup {GoneOn(q, end)}
      BY <1>8 DEF Sent, NotSent, GoneOn
    <3>3. dirty' \subseteq dirty \cup {q.client}
      BY <1>8 DEF Sent, SendEnds, NotSent
    <3>. QED
      BY <1>a, <2>1, <3>1, <3>2, <3>3 DEF TypeOK
  <2>3. /\ at' \in [Loop -> {"poll", "drain", "opening", "start", "leave"}]
        /\ owned' \subseteq Client /\ conns' \in [Loop -> SUBSET Client]
        /\ job' \in [Job -> {"new", "in", "answered"}]
    <3>1. /\ at' = Goto(l, "drain") /\ owned' \subseteq owned
          /\ conns' \in {conns, [conns EXCEPT ![l] = @ \ {q.client}]}
          /\ job' \in {job, [job EXCEPT ![q.job] = "answered"]}
      BY <1>8 DEF Sent, NotSent
    <3>2. owned' \subseteq Client
      BY <1>a, <3>1 DEF TypeOK
    <3>3. conns' \in [Loop -> SUBSET Client]
      <4>1. conns \in [Loop -> SUBSET Client]
        BY <1>a DEF TypeOK
      <4>. QED
        BY <3>1, <4>1
    <3>4. job' \in [Job -> {"new", "in", "answered"}]
      BY <1>a, <3>1 DEF TypeOK
    <3>5. at' \in [Loop -> {"poll", "drain", "opening", "start", "leave"}]
      BY <1>a, <3>1 DEF TypeOK, Goto
    <3>. QED
      BY <3>2, <3>3, <3>4, <3>5
  <2>4. UNCHANGED <<pool, toFail, idle, free, pending, shard, wake, done, caller>>
    BY <1>8 DEF Sent, NotSent
  <2>. QED
    BY <1>a, <1>b, <2>2, <2>3, <2>4 DEF TypeOK
<1>9. ASSUME NEW q \in query, ResultsRead(q) \/ ConnectionLost(q) \/ TimesOut(q)
      PROVE  TypeOK'
  <2>1. GoneOn(q, "ok") \in Query /\ GoneOn(q, "lost") \in Query
    BY <1>a, QueryFields, GoneOnFields
  <2>2. query' \subseteq Query /\ dirty' \subseteq Client
    BY <1>a, <1>9, <2>1 DEF ResultsRead, ConnectionLost, TimesOut, Ends, GoneOn, TypeOK
  <2>3. UNCHANGED <<pool, toFail, owned, idle, conns, free, pending, shard, wake, at,
                    done, job, caller>>
    BY <1>9 DEF ResultsRead, ConnectionLost, TimesOut
  <2>. QED
    BY <1>a, <1>b, <2>2, <2>3 DEF TypeOK
\* Connections are given back.
<1>d. ASSUME NEW S \in SUBSET Client, PutBack(S)
      PROVE  owned' \subseteq Client /\ idle' \subseteq Client
  BY <1>a, <1>d DEF PutBack, TypeOK
<1>10. ASSUME NEW q \in query, Complete(q)
       PROVE  TypeOK'
  <2>1. q.client \in Client /\ q.loop \in Loop /\ q.job \in Job
    BY <1>a, QueryFields
  <2>2. owned' \subseteq Client /\ idle' \subseteq Client
    <3>1. \/ UNCHANGED <<owned, idle>> \/ PutBack({q.client})
          \/ owned' \subseteq owned /\ UNCHANGED idle
      BY <1>10 DEF Complete
    <3>. QED
      BY <1>a, <1>d, <2>1, <3>1 DEF TypeOK
  <2>3. conns' \in [Loop -> SUBSET Client] /\ free' \in [Loop -> SUBSET Client]
    BY <1>a, <1>10, <2>1 DEF Complete, TypeOK
  <2>4. wake' \in [Loop -> BOOLEAN]
    BY <1>a, <1>10 DEF Complete, TypeOK
  <2>5. /\ at' \in [Loop -> {"poll", "drain", "opening", "start", "leave"}]
        /\ done' \in [Loop -> Job \cup {NoJob}]
    BY <1>a, <1>10, <2>1 DEF Complete, TypeOK, Goto
  <2>6. /\ query' \subseteq Query /\ dirty' \subseteq Client
        /\ UNCHANGED <<pool, toFail, pending, shard, job, caller>>
    BY <1>a, <1>10 DEF Complete, TypeOK
  <2>. QED
    BY <1>a, <1>b, <2>2, <2>3, <2>4, <2>5, <2>6 DEF TypeOK
<1>11. ASSUME NEW l \in Loop, Detach(l)
       PROVE  TypeOK'
  <2>1. owned' \subseteq Client /\ idle' \subseteq Client
    BY <1>a, <1>d, <1>11 DEF Detach, TypeOK
  <2>2. /\ conns' \in [Loop -> SUBSET Client] /\ free' \in [Loop -> SUBSET Client]
        /\ wake' \in [Loop -> BOOLEAN]
        /\ shard' \in [Loop -> {"none", "cold", "booting", "ready", "detached"}]
    BY <1>a, <1>11 DEF Detach, TypeOK
  <2>3. UNCHANGED <<pool, toFail, pending, at, done, query, dirty, job, caller>>
    BY <1>11 DEF Detach
  <2>. QED
    BY <1>a, <1>b, <2>1, <2>2, <2>3 DEF TypeOK
<1>12. ASSUME Close \/ CloseReturns \/ BeginDestroy \/ Destroy
       PROVE  TypeOK'
  <2>1. /\ owned' \subseteq Client /\ idle' \subseteq Client /\ toFail' \subseteq Loop
        /\ pool' \in {"closing", "closed", "winding", "gone"}
    BY <1>a, <1>12 DEF Close, CloseReturns, BeginDestroy, Destroy, TypeOK
  <2>2. UNCHANGED <<conns, free, pending, shard, wake, at, done, query, dirty, job, caller>>
    BY <1>12 DEF Close, CloseReturns, BeginDestroy, Destroy
  <2>. QED
    BY <1>a, <1>b, <2>1, <2>2 DEF TypeOK
<1>13. CASE UNCHANGED vars
  BY <1>a, <1>13 DEF TypeOK
<1>. QED
  BY <1>1, <1>2, <1>3, <1>4, <1>5, <1>6, <1>7, <1>8, <1>9, <1>10, <1>11, <1>12, <1>13
     DEF Steps

-----------------------------------------------------------------------------
(* A connection is used by one query of one loop.                            *)

\* OneUse without the limit, a connection at a time.
Claims ==
  /\ \A q, r \in query : q.client = r.client => q = r
  /\ \A l \in Loop : \A c : /\ c \in free[l] => c \notin InUse(l)
                            /\ c \in conns[l] <=> c \in free[l] \/ c \in InUse(l)
                            /\ c \in conns[l] => c \notin idle
  /\ \A k, l \in Loop : \A c : c \in conns[k] /\ c \in conns[l] => k = l
  /\ pool # "gone" =>
       \A c : c \in owned <=> c \in idle \/ \E l \in Loop : c \in conns[l]

Within == Cardinality(owned) + Cardinality(Opening) <= MaxSize

LEMMA ClaimsAreOneUse == OneUse <=> Claims /\ Within
<1>1. (\A l \in Loop : /\ free[l] \cap InUse(l) = {}
                       /\ conns[l] = free[l] \cup InUse(l)
                       /\ conns[l] \cap idle = {})
      <=> (\A l \in Loop : \A c : /\ c \in free[l] => c \notin InUse(l)
                                  /\ c \in conns[l] <=> c \in free[l] \/ c \in InUse(l)
                                  /\ c \in conns[l] => c \notin idle)
  OBVIOUS
<1>2. (\A k, l \in Loop : k # l => conns[k] \cap conns[l] = {})
      <=> (\A k, l \in Loop : \A c : c \in conns[k] /\ c \in conns[l] => k = l)
  OBVIOUS
<1>3. (owned = idle \cup UNION {conns[l] : l \in Loop})
      <=> (\A c : c \in owned <=> c \in idle \/ \E l \in Loop : c \in conns[l])
  OBVIOUS
<1>. QED
  BY <1>1, <1>2, <1>3 DEF OneUse, Claims, Within

LEMMA Finite ==
  /\ \A S \in SUBSET Client : IsFiniteSet(S) /\ Cardinality(S) \in Nat
  /\ \A S \in SUBSET Client : \A T \in SUBSET S : Cardinality(T) <= Cardinality(S)
  /\ \A S \in SUBSET Loop : IsFiniteSet(S) /\ Cardinality(S) \in Nat
  /\ \A S \in SUBSET Loop : \A T \in SUBSET S : Cardinality(T) <= Cardinality(S)
<1>1. \A S \in SUBSET Client : IsFiniteSet(S) /\ Cardinality(S) \in Nat
  BY FiniteAssumption, FS_Subset, FS_CardinalityType
<1>2. \A S \in SUBSET Loop : IsFiniteSet(S) /\ Cardinality(S) \in Nat
  BY FiniteAssumption, FS_Subset, FS_CardinalityType
<1>. QED
  BY <1>1, <1>2, FS_Subset

LEMMA WithinStep ==
  ASSUME IInv, Steps
  PROVE  Within'
<1>. USE DEF sizes, shards, stacks, jobs, vars
<1>a. /\ owned \in SUBSET Client /\ idle \subseteq Client /\ Opening \in SUBSET Loop
      /\ Within /\ MaxSize \in Nat
      /\ Cardinality(owned) \in Nat /\ Cardinality(Opening) \in Nat
      /\ at \in [Loop -> {"poll", "drain", "opening", "start", "leave"}]
  BY Types, Finite, ClaimsAreOneUse, SizeAssumption DEF IInv, Opening
<1>b. ASSUME owned' \subseteq owned, Opening' \subseteq Opening
      PROVE  Within'
  <2>1. /\ Cardinality(owned') \in Nat /\ Cardinality(owned') <= Cardinality(owned)
        /\ Cardinality(Opening') \in Nat /\ Cardinality(Opening') <= Cardinality(Opening)
    BY <1>a, <1>b, Finite
  <2>. QED
    BY <1>a, <2>1 DEF Within
<1>c. ASSUME NEW l \in Loop, NEW there,
             there # "opening", at' \in {at, Goto(l, there)}
      PROVE  Opening' \subseteq Opening
  BY <1>a, <1>c DEF Opening, Goto
<1>d. ASSUME UNCHANGED at
      PROVE  Opening' \subseteq Opening
  BY <1>d DEF Opening
<1>1. ASSUME NEW j \in Job, NEW l \in Loop, NEW onLoop \in BOOLEAN, Submit(j, l, onLoop)
      PROVE  Within'
  <2>1. owned' = owned /\ at' \in {at, Goto(l, "drain")}
    BY <1>1 DEF Submit
  <2>. QED
    BY <1>b, <1>c, <2>1
<1>2. ASSUME \/ \E j \in Job : WakeShard(j) \/ BootRefused(j)
             \/ \E l \in Loop : CloseShard(l)
             \/ \E q \in query : ResultsRead(q) \/ ConnectionLost(q) \/ TimesOut(q)
             \/ Close \/ CloseReturns \/ BeginDestroy \/ Destroy \/ UNCHANGED vars
      PROVE  Within'
  <2>1. owned' \subseteq owned /\ at' = at
    BY <1>2 DEF WakeShard, BootRefused, CloseShard, ResultsRead, ConnectionLost, TimesOut,
       Close, CloseReturns, BeginDestroy, Destroy
  <2>. QED
    BY <1>b, <1>d, <2>1
<1>3. ASSUME NEW l \in Loop,
             Bootstrap(l) \/ OnWake(l) \/ OpenFails(l) \/ DrainEnds(l) \/ Leave(l)
      PROVE  Within'
  <2>1. /\ owned' = owned
        /\ \E there \in {"drain", "poll", "leave"} : at' \in {at, Goto(l, there)}
    BY <1>3 DEF Bootstrap, OnWake, OpenFails, DrainEnds, Leave
  <2>. QED
    BY <1>b, <1>c, <2>1
<1>4. ASSUME NEW l \in Loop, DrainOpens(l)
      PROVE  Within'
  <2>1. /\ Cardinality(owned) + Cardinality(Opening) < MaxSize /\ owned' = owned
        /\ at[l] = "drain" /\ at' = Goto(l, "opening")
    BY <1>4 DEF DrainOpens, Room, Wants
  <2>2. Opening' = Opening \cup {l} /\ l \notin Opening
    BY <1>a, <2>1 DEF Opening, Goto
  <2>3. Cardinality(Opening') = Cardinality(Opening) + 1
    BY <1>a, <2>2, Finite, FS_AddElement
  <2>. QED
    BY <1>a, <2>1, <2>3 DEF Within
<1>5. ASSUME NEW l \in Loop, NEW c \in Client, DrainFree(l, c) \/ DrainIdle(l, c)
      PROVE  Within'
  <2>1. owned' = owned /\ at' = Goto(l, "start")
    BY <1>5 DEF DrainFree, DrainIdle, TakeUp
  <2>. QED
    BY <1>b, <1>c, <2>1
<1>6. ASSUME NEW l \in Loop, NEW c \in Client, OpenDone(l, c)
      PROVE  Within'
  <2>1. /\ at[l] = "opening" /\ owned' = owned \cup {c} /\ c \notin owned
        /\ \E there \in {"start", "undefined"} : at' = Goto(l, there)
    BY <1>6 DEF OpenDone, TakeUp
  <2>2. Opening' = Opening \ {l} /\ l \in Opening
    BY <1>a, <2>1 DEF Opening, Goto
  <2>3. Cardinality(Opening') = Cardinality(Opening) - 1
    BY <1>a, <2>2, Finite, FS_RemoveElement
  <2>4. Cardinality(owned') = Cardinality(owned) + 1
    BY <1>a, <2>1, Finite, FS_AddElement
  <2>. QED
    BY <1>a, <2>3, <2>4 DEF Within
<1>7. ASSUME NEW l \in Loop, NEW q \in query, NEW end \in {"wait", "ok", "lost"},
             Sent(l, q, end) \/ NotSent(l, q)
      PROVE  Within'
  <2>1. owned' \subseteq owned /\ at' = Goto(l, "drain")
    BY <1>7 DEF Sent, NotSent
  <2>. QED
    BY <1>b, <1>c, <2>1
<1>e. ASSUME NEW S, PutBack(S)
      PROVE  owned' \subseteq owned
  BY <1>e DEF PutBack
<1>8. ASSUME NEW q \in query, Complete(q)
      PROVE  Within'
  <2>1. owned' \subseteq owned
    BY <1>8, <1>e DEF Complete
  <2>2. q.loop \in Loop /\ at' = Goto(q.loop, "drain")
    BY <1>8, QueryFields DEF Complete, IInv
  <2>. QED
    BY <1>b, <1>c, <2>1, <2>2
<1>9. ASSUME NEW l \in Loop, Detach(l)
      PROVE  Within'
  <2>1. owned' \subseteq owned /\ at' = at
    BY <1>9, <1>e DEF Detach
  <2>. QED
    BY <1>b, <1>d, <2>1
<1>. QED
  BY <1>1, <1>2, <1>3, <1>4, <1>5, <1>6, <1>7, <1>8, <1>9 DEF Steps

\* What queries say of the connections in use when one is taken up, goes on, or
\* is over.
OneQueryEach == \A q, r \in query : q.client = r.client => q = r

LEMMA QueryTaken ==
  ASSUME OneQueryEach, NEW q, \A r \in query : r.client # q.client,
         query' = query \cup {q}
  PROVE  /\ OneQueryEach'
         /\ \A k, c : c \in InUse(k)' <=> c \in InUse(k) \/ (k = q.loop /\ c = q.client)
BY DEF OneQueryEach, InUse

LEMMA QueryOver ==
  ASSUME OneQueryEach, NEW q \in query, query' = query \ {q}
  PROVE  /\ OneQueryEach'
         /\ \A k, c : c \in InUse(k)' <=>
              c \in InUse(k) /\ ~(k = q.loop /\ c = q.client)
<1>1. OneQueryEach'
  BY DEF OneQueryEach
<1>2. ASSUME NEW k, NEW c
      PROVE  c \in InUse(k)' <=> c \in InUse(k) /\ ~(k = q.loop /\ c = q.client)
  <2>1. c \in InUse(k)' <=> \E r \in query : r # q /\ r.loop = k /\ r.client = c
    BY DEF InUse
  <2>2. c \in InUse(k) <=> \E r \in query : r.loop = k /\ r.client = c
    BY DEF InUse
  <2>. QED
    BY <2>1, <2>2 DEF OneQueryEach
<1>. QED
  BY <1>1, <1>2

LEMMA QueryGoesOn ==
  ASSUME OneQueryEach, query \subseteq Query, NEW q \in query,
         NEW how \in {"hand", "wait", "ok", "lost"},
         query' = (query \ {q}) \cup {GoneOn(q, how)}
  PROVE  OneQueryEach' /\ \A k, c : c \in InUse(k)' <=> c \in InUse(k)
<1>. DEFINE n == GoneOn(q, how)
<1>1. n.client = q.client /\ n.loop = q.loop
  BY GoneOnFields
<1>. HIDE DEF n
<1>2. query' = (query \ {q}) \cup {n}
  BY DEF n
<1>3. OneQueryEach'
  BY <1>1, <1>2 DEF OneQueryEach
<1>4. ASSUME NEW k, NEW c
      PROVE  c \in InUse(k)' <=> c \in InUse(k)
  <2>1. c \in InUse(k)' <=> \E r \in query' : r.loop = k /\ r.client = c
    BY DEF InUse
  <2>2. c \in InUse(k) <=> \E r \in query : r.loop = k /\ r.client = c
    BY DEF InUse
  <2>. QED
    BY <1>1, <1>2, <2>1, <2>2
<1>. QED
  BY <1>3, <1>4

LEMMA ClaimsStep ==
  ASSUME IInv, Steps
  PROVE  Claims'
<1>. USE DEF sizes, shards, stacks, jobs, vars
<1>a. TypeOK /\ Claims /\ Manned /\ OneQueryEach
  BY ClaimsAreOneUse DEF IInv, Claims, OneQueryEach
<1>b. /\ \A l \in Loop : \A c : c \in free[l] => c \notin InUse(l)
      /\ \A l \in Loop : \A c : c \in conns[l] <=> c \in free[l] \/ c \in InUse(l)
      /\ \A l \in Loop : \A c : c \in conns[l] => c \notin idle
      /\ \A k, l \in Loop : \A c : c \in conns[k] /\ c \in conns[l] => k = l
      /\ pool # "gone" =>
           \A c : c \in owned <=> c \in idle \/ \E l \in Loop : c \in conns[l]
  BY <1>a DEF Claims
<1>c. /\ conns \in [Loop -> SUBSET Client] /\ free \in [Loop -> SUBSET Client]
      /\ query \subseteq Query
      /\ \A q \in query : q.loop \in Loop /\ q.client \in InUse(q.loop)
  BY <1>a, Types, QueryFields
\* What has to be shown of the new state, a part at a time.
<1>d. ASSUME OneQueryEach',
             \A l \in Loop : \A c : c \in free'[l] => c \notin InUse(l)',
             \A l \in Loop : \A c : c \in conns'[l] <=> c \in free'[l] \/ c \in InUse(l)',
             \A l \in Loop : \A c : c \in conns'[l] => c \notin idle',
             \A k, l \in Loop : \A c : c \in conns'[k] /\ c \in conns'[l] => k = l,
             pool' # "gone" =>
               \A c : c \in owned' <=> c \in idle' \/ \E l \in Loop : c \in conns'[l]
      PROVE  Claims'
  BY <1>d DEF Claims, OneQueryEach
<1>e. ASSUME OneQueryEach', \A k, c : c \in InUse(k)' <=> c \in InUse(k),
             UNCHANGED sizes, pool' # "gone" => pool # "gone"
      PROVE  Claims'
  BY <1>b, <1>d, <1>e
<1>f. ASSUME UNCHANGED query
      PROVE  OneQueryEach' /\ \A k, c : c \in InUse(k)' <=> c \in InUse(k)
  BY <1>a, <1>f DEF OneQueryEach, InUse
<1>1. ASSUME \/ \E j \in Job, l \in Loop, onLoop \in BOOLEAN : Submit(j, l, onLoop)
             \/ \E j \in Job : WakeShard(j) \/ BootRefused(j)
             \/ \E l \in Loop : \/ Bootstrap(l) \/ OnWake(l) \/ DrainOpens(l)
                                \/ OpenFails(l) \/ DrainEnds(l) \/ Leave(l) \/ CloseShard(l)
             \/ CloseReturns \/ BeginDestroy \/ UNCHANGED vars
      PROVE  Claims'
  <2>1. UNCHANGED <<query, owned, idle, conns, free>> /\ (pool' # "gone" => pool # "gone")
    BY <1>1 DEF Submit, WakeShard, BootRefused, Bootstrap, OnWake, DrainOpens, OpenFails,
       DrainEnds, Leave, CloseShard, CloseReturns, BeginDestroy
  <2>. QED
    BY <1>e, <1>f, <2>1
\* A query goes on.
<1>g. ASSUME NEW q \in query, NEW how \in {"hand", "wait", "ok", "lost"},
             query' = (query \ {q}) \cup {GoneOn(q, how)}, UNCHANGED <<sizes, pool>>
      PROVE  Claims'
  <2>1. OneQueryEach' /\ \A k, c : c \in InUse(k)' <=> c \in InUse(k)
    BY <1>a, <1>c, <1>g, QueryGoesOn
  <2>. QED
    BY <1>e, <1>g, <2>1
<1>2. ASSUME NEW l \in Loop, NEW q \in query, NEW end \in {"wait", "ok", "lost"}, Sent(l, q, end)
      PROVE  Claims'
  BY <1>2, <1>g DEF Sent, GoneOn
<1>3. ASSUME NEW q \in query, ResultsRead(q) \/ ConnectionLost(q) \/ TimesOut(q)
      PROVE  Claims'
  <2>1. \/ query' = (query \ {q}) \cup {GoneOn(q, "ok")}
        \/ query' = (query \ {q}) \cup {GoneOn(q, "lost")}
    BY <1>3 DEF ResultsRead, ConnectionLost, TimesOut, Ends, GoneOn
  <2>2. UNCHANGED <<owned, idle, conns, free, pool>>
    BY <1>3 DEF ResultsRead, ConnectionLost, TimesOut
  <2>. QED
    BY <1>g, <2>1, <2>2
\* A query is taken up on a connection that carries none.
<1>h. ASSUME NEW l \in Loop, NEW c \in Client, TakeUp(l, c),
             \A k \in Loop : c \notin InUse(k)
      PROVE  /\ OneQueryEach'
             /\ \A k, d : d \in InUse(k)' <=> d \in InUse(k) \/ (k = l /\ d = c)
  <2>. DEFINE n == Taken(l, c)
  <2>1. n.client = c /\ n.loop = l /\ query' = query \cup {n}
    BY <1>h DEF TakeUp, Taken
  <2>. HIDE DEF n
  <2>2. \A r \in query : r.client # n.client
    BY <1>c, <1>h, <2>1
  <2>. QED
    BY <1>a, <2>1, <2>2, QueryTaken
<1>4. ASSUME NEW l \in Loop, NEW c \in Client, DrainFree(l, c)
      PROVE  Claims'
  <2>1. c \in free[l] /\ free' = [free EXCEPT ![l] = @ \ {c}] /\ TakeUp(l, c)
        /\ UNCHANGED <<pool, owned, idle, conns>>
    BY <1>4 DEF DrainFree
  <2>2. \A k \in Loop : c \notin InUse(k)
    BY <1>b, <2>1
  <2>3. OneQueryEach' /\ \A k, d : d \in InUse(k)' <=> d \in InUse(k) \/ (k = l /\ d = c)
    BY <1>h, <2>1, <2>2
  <2>4. \A k \in Loop : \A d : d \in free'[k] <=> d \in free[k] /\ ~(k = l /\ d = c)
    BY <1>c, <2>1
  <2>5. /\ \A k \in Loop : \A d : d \in free'[k] => d \notin InUse(k)'
        /\ \A k \in Loop : \A d : d \in conns'[k] <=> d \in free'[k] \/ d \in InUse(k)'
    BY <1>b, <2>1, <2>3, <2>4
  <2>. QED
    BY <1>b, <1>d, <2>1, <2>3, <2>5
\* ... which the loop is given for it.
<1>i. ASSUME NEW l \in Loop, NEW c \in Client, \A k \in Loop : c \notin conns[k],
             pool # "gone", UNCHANGED <<pool, free>>,
             conns' = [conns EXCEPT ![l] = @ \cup {c}], idle' = idle \ {c},
             owned' = owned \cup {c},
             TakeUp(l, c)
      PROVE  Claims'
  <2>1. \A k \in Loop : c \notin InUse(k) /\ c \notin free[k]
    BY <1>b, <1>i
  <2>2. OneQueryEach' /\ \A k, d : d \in InUse(k)' <=> d \in InUse(k) \/ (k = l /\ d = c)
    BY <1>h, <1>i, <2>1
  <2>3. \A k \in Loop : \A d : d \in conns'[k] <=> d \in conns[k] \/ (k = l /\ d = c)
    BY <1>c, <1>i
  <2>4. /\ \A k \in Loop : \A d : d \in free'[k] => d \notin InUse(k)'
        /\ \A k \in Loop : \A d : d \in conns'[k] <=> d \in free'[k] \/ d \in InUse(k)'
    BY <1>b, <1>i, <2>1, <2>2, <2>3
  <2>5. /\ \A k \in Loop : \A d : d \in conns'[k] => d \notin idle'
        /\ \A k, m \in Loop : \A d : d \in conns'[k] /\ d \in conns'[m] => k = m
    BY <1>b, <1>i, <2>3
  <2>6. \A d : d \in owned' <=> d \in idle' \/ \E k \in Loop : d \in conns'[k]
    BY <1>b, <1>i, <2>3
  <2>. QED
    BY <1>d, <2>2, <2>4, <2>5, <2>6
<1>5. ASSUME NEW l \in Loop, NEW c \in Client, DrainIdle(l, c)
      PROVE  Claims'
  <2>1. /\ c \in idle /\ pool = "open" /\ idle' = idle \ {c} /\ owned' = owned
        /\ conns' = [conns EXCEPT ![l] = @ \cup {c}] /\ TakeUp(l, c)
        /\ UNCHANGED <<pool, free>>
    BY <1>5 DEF DrainIdle, Wants, closed
  <2>2. c \in owned /\ \A k \in Loop : c \notin conns[k]
    BY <1>b, <2>1
  <2>3. owned' = owned \cup {c}
    BY <2>1, <2>2
  <2>. QED
    BY <1>i, <2>1, <2>2, <2>3
<1>6. ASSUME NEW l \in Loop, NEW c \in Client, OpenDone(l, c)
      PROVE  Claims'
  <2>1. /\ c \notin owned /\ at[l] = "opening" /\ owned' = owned \cup {c} /\ idle' = idle
        /\ conns' = [conns EXCEPT ![l] = @ \cup {c}] /\ UNCHANGED <<pool, free>>
    BY <1>6 DEF OpenDone
  <2>2. pool = "open" /\ pending[l] # << >>
    BY <1>a, <2>1 DEF Manned
  <2>3. TakeUp(l, c)
    BY <1>6, <2>2 DEF OpenDone
  <2>4. c \notin idle /\ \A k \in Loop : c \notin conns[k]
    BY <1>b, <2>1, <2>2
  <2>5. idle' = idle \ {c}
    BY <2>1, <2>4
  <2>. QED
    BY <1>i, <2>1, <2>2, <2>3, <2>4, <2>5
\* A query is over, and its connection is retired.
<1>j. ASSUME NEW q \in query, query' = query \ {q},
             owned' = owned \ {q.client}, UNCHANGED <<pool, idle, free>>,
             conns' = [conns EXCEPT ![q.loop] = @ \ {q.client}]
      PROVE  Claims'
  <2>. DEFINE l == q.loop
              c == q.client
  <2>1. l \in Loop /\ c \in InUse(l) /\ c \in conns[l] /\ c \notin free[l] /\ c \notin idle
        /\ \A k \in Loop : c \in conns[k] => k = l
    BY <1>b, <1>c
  <2>2. OneQueryEach' /\ \A k, d : d \in InUse(k)' <=> d \in InUse(k) /\ ~(k = l /\ d = c)
    BY <1>a, <1>j, QueryOver
  <2>. HIDE DEF l, c
  <2>3. \A k \in Loop : \A d : d \in conns'[k] <=> d \in conns[k] /\ ~(k = l /\ d = c)
    BY <1>c, <1>j, <2>1 DEF l, c
  <2>4. owned' = owned \ {c} /\ idle' = idle /\ free' = free /\ pool' = pool
    BY <1>j DEF c
  <2>5. /\ \A k \in Loop : \A d : d \in free'[k] => d \notin InUse(k)'
        /\ \A k \in Loop : \A d : d \in conns'[k] <=> d \in free'[k] \/ d \in InUse(k)'
    BY <1>b, <2>1, <2>2, <2>3, <2>4
  <2>6. /\ \A k \in Loop : \A d : d \in conns'[k] => d \notin idle'
        /\ \A k, m \in Loop : \A d : d \in conns'[k] /\ d \in conns'[m] => k = m
    BY <1>b, <2>3, <2>4
  <2>7. pool' # "gone" =>
          \A d : d \in owned' <=> d \in idle' \/ \E k \in Loop : d \in conns'[k]
    BY <1>b, <2>1, <2>3, <2>4
  <2>. QED
    BY <1>d, <2>2, <2>5, <2>6, <2>7
<1>7. ASSUME NEW l \in Loop, NEW q \in query, NotSent(l, q)
      PROVE  Claims'
  <2>1. /\ q.loop = l /\ query' = query \ {q} /\ owned' = owned \ {q.client}
        /\ conns' = [conns EXCEPT ![q.loop] = @ \ {q.client}]
        /\ UNCHANGED <<pool, idle, free>>
    BY <1>7 DEF NotSent
  <2>. QED
    BY <1>j, <2>1
\* Connections that nobody uses are given up or given to all.
<1>k. ASSUME NEW S \in SUBSET Client, NEW l \in Loop, PutBack(S), pool # "gone",
             S \subseteq conns[l], pool' = pool,
             \A k \in Loop : \A d : d \in conns'[k] <=> d \in conns[k] /\ ~(k = l /\ d \in S)
      PROVE  /\ \A k \in Loop : \A d : d \in conns'[k] => d \notin idle'
             /\ \A k, m \in Loop : \A d : d \in conns'[k] /\ d \in conns'[m] => k = m
             /\ \A d : d \in owned' <=> d \in idle' \/ \E k \in Loop : d \in conns'[k]
  <2>1. \A d \in S : d \notin idle /\ d \in owned /\ \A k \in Loop : d \in conns[k] => k = l
    BY <1>b, <1>k
  <2>2. \A k, m \in Loop : \A d : d \in conns'[k] /\ d \in conns'[m] => k = m
    BY <1>b, <1>k
  <2>3. CASE closed
    <3>1. owned' = owned \ S /\ idle' = idle
      BY <1>k, <2>3 DEF PutBack
    <3>2. \A k \in Loop : \A d : d \in conns'[k] => d \notin idle'
      BY <1>b, <1>k, <3>1
    <3>3. \A d : d \in owned' <=> d \in idle' \/ \E k \in Loop : d \in conns'[k]
      BY <1>b, <1>k, <2>1, <3>1
    <3>. QED
      BY <2>2, <3>2, <3>3
  <2>4. CASE ~closed
    <3>1. PICK old \in SUBSET idle : owned' = owned \ old /\ idle' = (idle \ old) \cup S
      BY <1>k, <2>4 DEF PutBack
    <3>2. \A k \in Loop : \A d : d \in conns'[k] => d \notin idle'
      BY <1>b, <1>k, <2>1, <3>1
    <3>3. \A d : d \in owned' <=> d \in idle' \/ \E k \in Loop : d \in conns'[k]
      BY <1>b, <1>k, <2>1, <3>1
    <3>. QED
      BY <2>2, <3>2, <3>3
  <2>. QED
    BY <2>3, <2>4
<1>8. ASSUME NEW q \in query, Complete(q)
      PROVE  Claims'
  <2>. DEFINE l == q.loop
              c == q.client
  <2>1. /\ l \in Loop /\ c \in InUse(l) /\ c \in conns[l] /\ c \notin free[l] /\ c \notin idle
        /\ c \in Client
    BY <1>a, <1>b, <1>c, QueryFields
  <2>2. query' = query \ {q} /\ pool' = pool
    BY <1>8 DEF Complete
  <2>3. OneQueryEach' /\ \A k, d : d \in InUse(k)' <=> d \in InUse(k) /\ ~(k = l /\ d = c)
    BY <1>a, <2>2, QueryOver
  <2>4. \/ /\ owned' = owned \ {c} /\ UNCHANGED <<idle, free>>
           /\ conns' = [conns EXCEPT ![l] = @ \ {c}]
        \/ /\ free' = [free EXCEPT ![l] = @ \cup {c}]
           /\ UNCHANGED <<owned, idle, conns>>
        \/ /\ ~closed /\ PutBack({c}) /\ free' = free
           /\ conns' = [conns EXCEPT ![l] = @ \ {c}]
    BY <1>8 DEF Complete
  <2>5. CASE /\ owned' = owned \ {c} /\ UNCHANGED <<idle, free>>
             /\ conns' = [conns EXCEPT ![l] = @ \ {c}]
    BY <1>j, <2>2, <2>5
  <2>. HIDE DEF l, c
  <2>6. CASE /\ free' = [free EXCEPT ![l] = @ \cup {c}]
             /\ UNCHANGED <<owned, idle, conns>>
    <3>1. \A k \in Loop : \A d : d \in free'[k] <=> d \in free[k] \/ (k = l /\ d = c)
      BY <1>c, <2>1, <2>6
    <3>2. /\ \A k \in Loop : \A d : d \in free'[k] => d \notin InUse(k)'
          /\ \A k \in Loop : \A d : d \in conns'[k] <=> d \in free'[k] \/ d \in InUse(k)'
      BY <1>b, <2>1, <2>3, <2>6, <3>1
    <3>. QED
      BY <1>b, <1>d, <2>2, <2>3, <2>6, <3>2
  <2>7. CASE /\ ~closed /\ PutBack({c}) /\ free' = free
             /\ conns' = [conns EXCEPT ![l] = @ \ {c}]
    <3>1. \A k \in Loop : \A d : d \in conns'[k] <=> d \in conns[k] /\ ~(k = l /\ d = c)
      BY <1>c, <2>1, <2>7
    <3>2. /\ \A k \in Loop : \A d : d \in free'[k] => d \notin InUse(k)'
          /\ \A k \in Loop : \A d : d \in conns'[k] <=> d \in free'[k] \/ d \in InUse(k)'
      BY <1>b, <2>1, <2>3, <2>7, <3>1
    <3>3. /\ {c} \in SUBSET Client /\ {c} \subseteq conns[l] /\ pool # "gone"
          /\ \A k \in Loop : \A d : d \in conns'[k] <=> d \in conns[k] /\ ~(k = l /\ d \in {c})
      BY <2>1, <2>7, <3>1 DEF closed
    <3>4. /\ \A k \in Loop : \A d : d \in conns'[k] => d \notin idle'
          /\ \A k, m \in Loop : \A d : d \in conns'[k] /\ d \in conns'[m] => k = m
          /\ \A d : d \in owned' <=> d \in idle' \/ \E k \in Loop : d \in conns'[k]
      BY <1>k, <2>1, <2>2, <2>7, <3>3
    <3>. QED
      BY <1>d, <2>3, <3>2, <3>4
  <2>. QED
    BY <2>4, <2>5, <2>6, <2>7
<1>9. ASSUME NEW l \in Loop, Detach(l)
      PROVE  Claims'
  <2>1. /\ \A q \in query : q.loop # l
        /\ conns' = [conns EXCEPT ![l] = {}] /\ free' = [free EXCEPT ![l] = {}]
        /\ PutBack(conns[l]) /\ pool # "gone" /\ UNCHANGED <<pool, query>>
    BY <1>9 DEF Detach
  <2>2. OneQueryEach' /\ \A k, c : c \in InUse(k)' <=> c \in InUse(k)
    BY <1>f, <2>1
  <2>3. \A c : c \notin InUse(l)
    BY <2>1 DEF InUse
  <2>4. /\ \A k \in Loop : \A d : d \in conns'[k] <=> d \in conns[k] /\ ~(k = l /\ d \in conns[l])
        /\ \A k \in Loop : \A d : d \in free'[k] <=> d \in free[k] /\ k # l
    BY <1>c, <2>1
  <2>5. /\ \A k \in Loop : \A d : d \in free'[k] => d \notin InUse(k)'
        /\ \A k \in Loop : \A d : d \in conns'[k] <=> d \in free'[k] \/ d \in InUse(k)'
    BY <1>b, <2>2, <2>3, <2>4
  <2>6. /\ \A k \in Loop : \A d : d \in conns'[k] => d \notin idle'
        /\ \A k, m \in Loop : \A d : d \in conns'[k] /\ d \in conns'[m] => k = m
        /\ \A d : d \in owned' <=> d \in idle' \/ \E k \in Loop : d \in conns'[k]
    <3>1. conns[l] \in SUBSET Client
      BY <1>c
    <3>. QED
      BY <1>k, <2>1, <2>4, <3>1
  <2>. QED
    BY <1>d, <2>2, <2>5, <2>6
<1>10. ASSUME Close
       PROVE  Claims'
  <2>1. /\ pool = "open" /\ owned' = owned \ idle /\ idle' = {}
        /\ UNCHANGED <<conns, free, query>>
    BY <1>10 DEF Close
  <2>2. OneQueryEach' /\ \A k, c : c \in InUse(k)' <=> c \in InUse(k)
    BY <1>f, <2>1
  <2>. QED
    BY <1>b, <1>d, <2>1, <2>2
<1>11. ASSUME Destroy
       PROVE  Claims'
  <2>1. pool' = "gone" /\ idle' = {} /\ UNCHANGED <<conns, free, query>>
    BY <1>11 DEF Destroy
  <2>2. OneQueryEach' /\ \A k, c : c \in InUse(k)' <=> c \in InUse(k)
    BY <1>f, <2>1
  <2>. QED
    BY <1>b, <1>d, <2>1, <2>2
<1>. QED
  BY <1>1, <1>2, <1>3, <1>4, <1>5, <1>6, <1>7, <1>8, <1>9, <1>10, <1>11 DEF Steps

-----------------------------------------------------------------------------
(* What servers owe.                                                         *)

LEMMA OwedStep ==
  ASSUME IInv, Steps
  PROVE  Owed'
<1>. SUFFICES ASSUME "poll" \notin Faults
              PROVE  \A c \in dirty' :
                       \E q \in query' : q.client = c /\ q.end \in {"wait", "lost"}
  BY DEF Owed
<1>. DEFINE AllOwed == \A c \in dirty : \E q \in query :
                         q.client = c /\ q.end \in {"wait", "lost"}
<1>. USE DEF sizes, shards, stacks, jobs, vars
<1>a. /\ \A c \in dirty : \E q \in query : q.client = c /\ q.end \in {"wait", "lost"}
      /\ query \subseteq Query
  BY Types DEF IInv, Owed
\* The query that answers for a connection is still there.
<1>b. ASSUME \A c \in dirty' : c \in dirty,
             \A q \in query : q.client \in dirty' /\ q.end \in {"wait", "lost"} => q \in query'
      PROVE  AllOwed'
  <2>. SUFFICES ASSUME NEW c \in dirty'
                PROVE  \E q \in query' : q.client = c /\ q.end \in {"wait", "lost"}
    OBVIOUS
  <2>1. PICK q \in query : q.client = c /\ q.end \in {"wait", "lost"}
    BY <1>a, <1>b
  <2>. QED
    BY <1>b, <2>1
<1>1. ASSUME \/ \E j \in Job, l \in Loop, onLoop \in BOOLEAN : Submit(j, l, onLoop)
             \/ \E j \in Job : WakeShard(j) \/ BootRefused(j)
             \/ \E l \in Loop : \/ Bootstrap(l) \/ OnWake(l) \/ DrainOpens(l) \/ OpenFails(l)
                                \/ DrainEnds(l) \/ Leave(l) \/ CloseShard(l) \/ Detach(l)
             \/ \E l \in Loop, c \in Client : DrainFree(l, c) \/ DrainIdle(l, c) \/ OpenDone(l, c)
             \/ Close \/ CloseReturns \/ BeginDestroy \/ Destroy \/ UNCHANGED vars
      PROVE  AllOwed'
  <2>1. query \subseteq query' /\ dirty' \subseteq dirty
    BY <1>1 DEF Submit, WakeShard, BootRefused, Bootstrap, OnWake, DrainOpens, OpenFails,
       DrainEnds, Leave, CloseShard, Detach, DrainFree, DrainIdle, OpenDone, TakeUp, Close,
       CloseReturns, BeginDestroy, Destroy
  <2>. QED
    BY <1>b, <2>1
<1>2. ASSUME NEW l \in Loop, NEW q \in query, NEW end \in {"wait", "ok", "lost"}, Sent(l, q, end)
      PROVE  AllOwed'
  <2>. DEFINE n == GoneOn(q, end)
  <2>1. /\ q.end = "hand" /\ query' = (query \ {q}) \cup {n}
        /\ n.client = q.client /\ n.end = end /\ SendEnds(q.client, end)
    BY <1>2, <1>a, GoneOnFields DEF Sent, GoneOn
  <2>. HIDE DEF n
  <2>2. \A r \in query : r.end \in {"wait", "lost"} => r \in query'
    BY <2>1
  <2>3. CASE dirty' = dirty
    BY <1>a, <2>2, <2>3
  <2>4. CASE end = "wait" /\ dirty' = dirty \cup {q.client}
    <3>1. n \in query' /\ n.client = q.client /\ n.end = "wait"
      BY <2>1, <2>4
    <3>. QED
      BY <1>a, <2>2, <2>4, <3>1
  <2>. QED
    BY <2>1, <2>3, <2>4 DEF SendEnds
<1>3. ASSUME NEW l \in Loop, NEW q \in query, NotSent(l, q)
      PROVE  AllOwed'
  <2>1. q.end = "hand" /\ query' = query \ {q} /\ dirty' = dirty \ {q.client}
    BY <1>3 DEF NotSent
  <2>. QED
    BY <1>b, <2>1
<1>4. ASSUME NEW q \in query, ResultsRead(q) \/ ConnectionLost(q)
      PROVE  AllOwed'
  <2>1. query \ {q} \subseteq query' /\ dirty' = dirty \ {q.client}
    BY <1>4 DEF ResultsRead, ConnectionLost, Ends
  <2>. QED
    BY <1>b, <2>1
\* The query that was given up answers on.
<1>5. ASSUME NEW q \in query, TimesOut(q)
      PROVE  AllOwed'
  <2>. DEFINE n == GoneOn(q, "lost")
  <2>1. /\ query' = (query \ {q}) \cup {n} /\ dirty' = dirty
        /\ n.client = q.client /\ n.end = "lost"
    BY <1>5, <1>a, GoneOnFields DEF TimesOut, Ends, GoneOn
  <2>. HIDE DEF n
  <2>. SUFFICES ASSUME NEW c \in dirty
                PROVE  \E r \in query' : r.client = c /\ r.end \in {"wait", "lost"}
    BY <2>1
  <2>2. PICK r \in query : r.client = c /\ r.end \in {"wait", "lost"}
    BY <1>a
  <2>3. CASE r = q
    BY <2>1, <2>2, <2>3
  <2>4. CASE r # q
    BY <2>1, <2>2, <2>4
  <2>. QED
    BY <2>3, <2>4
<1>6. ASSUME NEW q \in query, Complete(q)
      PROVE  AllOwed'
  <2>1. /\ query' = query \ {q} /\ q.end \in {"ok", "lost"}
        /\ dirty' = IF q.end = "lost" \/ closed THEN dirty \ {q.client} ELSE dirty
    BY <1>6 DEF Complete
  <2>2. CASE q.end = "lost" \/ closed
    BY <1>b, <2>1, <2>2
  <2>3. CASE q.end = "ok" /\ ~closed
    BY <1>b, <2>1, <2>3
  <2>. QED
    BY <2>1, <2>2, <2>3
<1>. QED
  BY <1>1, <1>2, <1>3, <1>4, <1>5, <1>6 DEF Steps

-----------------------------------------------------------------------------
(* Where the threads are.                                                    *)

LEMMA MannedStep ==
  ASSUME IInv, Steps, May = {}
  PROVE  Manned'
<1>. USE DEF sizes, shards, stacks, jobs, vars
<1>a. TypeOK /\ Accounted /\ Manned
  BY DEF IInv
<1>b. /\ \A l \in Loop : at[l] # "poll" => shard[l] = "ready"
      /\ \A l \in Loop : wake[l] => shard[l] = "ready"
      /\ \A q \in query : shard[q.loop] = "ready"
      /\ \A l \in Loop : at[l] = "opening" => pool = "open" /\ pending[l] # << >>
      /\ \A l \in Loop : pending[l] # << >> => shard[l] \notin {"none", "detached"}
      /\ \A l \in Loop : done[l] # NoJob => at[l] # "poll"
      /\ \A j \in Job : caller[j] # NoLoop => shard[caller[j]] \notin {"none", "detached"}
      /\ pool \in {"winding", "gone"} =>
           /\ \A j \in Job : caller[j] = NoLoop
           /\ \A l \in Loop : shard[l] # "booting" /\ (at[l] # "poll" => done[l] # NoJob)
      /\ pool = "gone" => In = {}
  <2>1. \A q \in query : q.loop \in Loop /\ InUse(q.loop) # {}
    BY <1>a, QueryFields
  <2>. QED
    BY <1>a, <2>1 DEF Manned
<1>c. /\ pending \in [Loop -> Seq(Job)] /\ done \in [Loop -> Job \cup {NoJob}]
      /\ caller \in [Job -> Loop \cup {NoLoop}] /\ wake \in [Loop -> BOOLEAN]
      /\ at \in [Loop -> {"poll", "drain", "opening", "start", "leave"}]
      /\ shard \in [Loop -> {"none", "cold", "booting", "ready", "detached"}]
      /\ \A q \in query : q.loop \in Loop /\ q.job \in Job
      /\ NoJob \notin Job /\ NoLoop \notin Loop
  BY <1>a, Types, QueryFields, NamesAssumption
\* What has to be shown of the new state, a part at a time.
<1>d. ASSUME \A l \in Loop : at'[l] # "poll" => shard'[l] = "ready",
             \A l \in Loop : wake'[l] => shard'[l] = "ready",
             \A q \in query' : shard'[q.loop] = "ready",
             \A l \in Loop : at'[l] = "opening" => pool' = "open" /\ pending'[l] # << >>,
             \A l \in Loop : pending'[l] # << >> => shard'[l] \notin {"none", "detached"},
             \A l \in Loop : done'[l] # NoJob => at'[l] # "poll",
             \A j \in Job : caller'[j] # NoLoop => shard'[caller'[j]] \notin {"none", "detached"},
             pool' \in {"winding", "gone"} =>
               /\ \A j \in Job : caller'[j] = NoLoop
               /\ \A l \in Loop : shard'[l] # "booting" /\ (at'[l] # "poll" => done'[l] # NoJob),
             pool' = "gone" => In' = {}
      PROVE  Manned'
  <2>1. \A l \in Loop : InUse(l)' # {} => shard'[l] = "ready"
    BY <1>d DEF InUse
  <2>. QED
    BY <1>d, <2>1 DEF Manned
<1>1. ASSUME NEW j \in Job, NEW l \in Loop, NEW onLoop \in BOOLEAN, Submit(j, l, onLoop)
      PROVE  Manned'
  <2>1. /\ pool = "open" /\ shard[l] # "detached"
        /\ pending' = [pending EXCEPT ![l] = Append(@, j)]
        /\ shard' = [shard EXCEPT ![l] = IF @ = "none" THEN "cold" ELSE @]
        /\ \/ shard[l] = "ready" /\ at' = Goto(l, "drain") /\ caller' = caller
           \/ caller' = [caller EXCEPT ![j] = l] /\ at' = at
        /\ UNCHANGED <<pool, wake, done, query>>
    BY <1>1 DEF Submit, closed
  <2>2. /\ shard'[l] = (IF shard[l] = "none" THEN "cold" ELSE shard[l])
        /\ \A k \in Loop \ {l} : shard'[k] = shard[k] /\ pending'[k] = pending[k]
        /\ pending'[l] = Append(pending[l], j)
    BY <1>c, <2>1
  <2>3. pending'[l] # << >>
    BY <1>c, <2>2, AppendProperties
  <2>4. \A k \in Loop : \/ at'[k] = at[k]
                        \/ k = l /\ at'[k] = "drain" /\ shard[k] = "ready"
    BY <1>c, <2>1 DEF Goto
  <2>5. \A i \in Job : caller'[i] = caller[i] \/ caller'[i] = l
    BY <1>c, <2>1
  <2>6. \A k \in Loop : /\ shard[k] = "ready" => shard'[k] = "ready"
                        /\ shard'[k] \in {"none", "detached"} => shard'[k] = shard[k] /\ k # l
    BY <2>1, <2>2
  <2>7. /\ \A k \in Loop : at'[k] # "poll" => shard'[k] = "ready"
        /\ \A k \in Loop : wake'[k] => shard'[k] = "ready"
        /\ \A q \in query' : shard'[q.loop] = "ready"
    BY <1>b, <1>c, <2>1, <2>4, <2>6
  <2>8. /\ \A k \in Loop : at'[k] = "opening" => pool' = "open" /\ pending'[k] # << >>
        /\ \A k \in Loop : pending'[k] # << >> => shard'[k] \notin {"none", "detached"}
        /\ \A k \in Loop : done'[k] # NoJob => at'[k] # "poll"
    BY <1>b, <2>1, <2>2, <2>3, <2>4, <2>6
  <2>9. \A i \in Job : caller'[i] # NoLoop => shard'[caller'[i]] \notin {"none", "detached"}
    BY <1>b, <1>c, <2>5, <2>6
  <2>. QED
    BY <1>d, <2>1, <2>7, <2>8, <2>9
<1>2. ASSUME NEW j \in Job, WakeShard(j)
      PROVE  Manned'
  <2>. DEFINE l == caller[j]
  <2>1. /\ l \in Loop /\ caller' = [caller EXCEPT ![j] = NoLoop]
        /\ wake' = [wake EXCEPT ![l] = @ \/ shard[l] = "ready"]
        /\ shard' = [shard EXCEPT ![l] = IF @ = "cold" THEN "booting" ELSE @]
        /\ UNCHANGED <<pool, at, done, pending, query, job>>
    BY <1>2, <1>c DEF WakeShard
  <2>2. pool \notin {"winding", "gone"}
    BY <1>b, <1>c, <2>1
  <2>. HIDE DEF l
  <2>3. \A k \in Loop : \/ shard'[k] = shard[k]
                        \/ shard[k] = "cold" /\ shard'[k] = "booting"
    BY <1>c, <2>1
  <2>4. \A i \in Job : caller'[i] = caller[i] \/ caller'[i] = NoLoop
    BY <1>c, <2>1
  <2>5. \A k \in Loop : wake'[k] => wake[k] \/ shard[k] = "ready"
    BY <1>c, <2>1
  <2>6. /\ \A k \in Loop : at'[k] # "poll" => shard'[k] = "ready"
        /\ \A k \in Loop : wake'[k] => shard'[k] = "ready"
        /\ \A q \in query' : shard'[q.loop] = "ready"
        /\ \A k \in Loop : pending'[k] # << >> => shard'[k] \notin {"none", "detached"}
    BY <1>b, <1>c, <2>1, <2>3, <2>5
  <2>7. \A i \in Job : caller'[i] # NoLoop => shard'[caller'[i]] \notin {"none", "detached"}
    <3>1. \A i \in Job : caller[i] # NoLoop => caller[i] \in Loop
      BY <1>c
    <3>. QED
      BY <1>b, <2>3, <2>4, <3>1
  <2>. QED
    BY <1>b, <1>d, <2>1, <2>2, <2>6, <2>7
\* A queue that is failed on a loop that opens nothing.
<1>e. ASSUME NEW l \in Loop, FailPending(l)
      PROVE  /\ In' \subseteq In /\ \A k \in Loop \ {l} : pending'[k] = pending[k]
             /\ pending'[l] = << >>
  BY <1>a, <1>e, FailsQueue
<1>3. ASSUME NEW j \in Job, BootRefused(j)
      PROVE  Manned'
  <2>1. /\ caller[j] \in Loop /\ shard[caller[j]] = "cold" /\ FailPending(caller[j])
        /\ caller' = [caller EXCEPT ![j] = NoLoop]
        /\ UNCHANGED <<pool, shard, wake, at, done, query>>
    BY <1>3, <1>c DEF BootRefused
  <2>2. PICK l \in Loop : l = caller[j]
    BY <2>1
  <2>3. at[l] = "poll" /\ In' \subseteq In /\ \A k \in Loop \ {l} : pending'[k] = pending[k]
        /\ pending'[l] = << >>
    BY <1>b, <1>e, <2>1, <2>2
  <2>4. \A i \in Job : caller'[i] = caller[i] \/ caller'[i] = NoLoop
    BY <1>c, <2>1
  <2>5. /\ \A k \in Loop : at'[k] = "opening" => pool' = "open" /\ pending'[k] # << >>
        /\ \A k \in Loop : pending'[k] # << >> => shard'[k] \notin {"none", "detached"}
    BY <1>b, <2>1, <2>3
  <2>6. \A i \in Job : caller'[i] # NoLoop => shard'[caller'[i]] \notin {"none", "detached"}
    BY <1>b, <2>1, <2>4
  <2>. QED
    BY <1>b, <1>d, <2>1, <2>3, <2>4, <2>5, <2>6
<1>4. ASSUME NEW l \in Loop, CloseShard(l)
      PROVE  Manned'
  <2>1. /\ pool = "closing" /\ FailPending(l)
        /\ UNCHANGED <<pool, shard, wake, at, done, query, caller>>
    BY <1>4 DEF CloseShard
  <2>2. /\ \A k \in Loop \ {l} : pending'[k] = pending[k]
        /\ pending'[l] = << >>
    BY <1>e, <2>1
  <2>. QED
    BY <1>b, <1>d, <2>1, <2>2
<1>5. ASSUME NEW l \in Loop, OpenFails(l)
      PROVE  Manned'
  <2>1. /\ at[l] = "opening" /\ at' = Goto(l, "leave") /\ FailPending(l)
        /\ UNCHANGED <<pool, shard, wake, done, query, caller>>
    BY <1>5 DEF OpenFails
  <2>2. /\ at'[l] = "leave" /\ \A k \in Loop \ {l} : at'[k] = at[k] /\ pending'[k] = pending[k]
        /\ pending'[l] = << >> /\ pool = "open"
    BY <1>b, <1>c, <1>e, <2>1 DEF Goto
  <2>. QED
    BY <1>b, <1>d, <2>1, <2>2
<1>6. ASSUME NEW l \in Loop, Bootstrap(l)
      PROVE  Manned'
  <2>1. /\ shard[l] = "booting" /\ at[l] = "poll"
        /\ UNCHANGED <<pool, wake, done, query, caller>>
    BY <1>6 DEF Bootstrap
  <2>2. /\ pool \notin {"winding", "gone"} /\ ~wake[l] /\ \A q \in query : q.loop # l
    BY <1>b, <2>1
  <2>3. ASSUME shard' = [shard EXCEPT ![l] = "cold"], FailPending(l), UNCHANGED at
        PROVE  Manned'
    <3>1. /\ shard'[l] = "cold" /\ \A k \in Loop \ {l} : shard'[k] = shard[k]
          /\ pending'[l] = << >> /\ \A k \in Loop \ {l} : pending'[k] = pending[k]
      BY <1>c, <1>e, <2>3
    <3>2. \A i \in Job : caller[i] # NoLoop => caller[i] \in Loop
      BY <1>c
    <3>3. \A i \in Job : caller'[i] # NoLoop => shard'[caller'[i]] \notin {"none", "detached"}
      BY <1>b, <2>1, <3>1, <3>2
    <3>4. \A q \in query' : shard'[q.loop] = "ready"
      BY <1>b, <1>c, <2>1, <2>2, <3>1
    <3>. QED
      BY <1>b, <1>d, <2>1, <2>2, <2>3, <3>1, <3>3, <3>4
  <2>4. ASSUME shard' = [shard EXCEPT ![l] = "ready"], at' = Goto(l, "drain"),
               UNCHANGED <<pending, job, work>>
        PROVE  Manned'
    <3>1. /\ shard'[l] = "ready" /\ \A k \in Loop \ {l} : shard'[k] = shard[k]
          /\ at'[l] = "drain" /\ \A k \in Loop \ {l} : at'[k] = at[k]
      BY <1>c, <2>4 DEF Goto
    <3>2. \A i \in Job : caller[i] # NoLoop => caller[i] \in Loop
      BY <1>c
    <3>3. \A i \in Job : caller'[i] # NoLoop => shard'[caller'[i]] \notin {"none", "detached"}
      BY <1>b, <2>1, <3>1, <3>2
    <3>4. \A q \in query' : shard'[q.loop] = "ready"
      BY <1>b, <1>c, <2>1, <2>2, <3>1
    <3>. QED
      BY <1>b, <1>d, <2>1, <2>2, <2>4, <3>1, <3>3, <3>4
  <2>. QED
    BY <1>6, <2>3, <2>4 DEF Bootstrap
<1>7. ASSUME NEW l \in Loop, OnWake(l)
      PROVE  Manned'
  <2>1. /\ wake[l] /\ at[l] = "poll" /\ wake' = [wake EXCEPT ![l] = FALSE]
        /\ \/ at' = Goto(l, "drain") /\ pool \in {"open", "closing", "closed"}
           \/ at' = Goto(l, "poll")
        /\ UNCHANGED <<pool, pending, shard, done, query, job, caller>>
    BY <1>7 DEF OnWake
  <2>2. /\ \A k \in Loop : wake'[k] => wake[k]
        /\ \A k \in Loop : \/ at'[k] = at[k]
                           \/ k = l /\ at'[k] = "drain" /\ pool \notin {"winding", "gone"}
    BY <1>c, <2>1 DEF Goto
  <2>3. shard[l] = "ready" /\ In' = In
    BY <1>b, <2>1 DEF In
  <2>. QED
    BY <1>b, <1>d, <2>1, <2>2, <2>3
<1>8. ASSUME NEW l \in Loop, DrainOpens(l) \/ DrainEnds(l)
      PROVE  Manned'
  <2>1. /\ at[l] = "drain" /\ UNCHANGED <<pool, pending, shard, wake, done, query, job, caller>>
        /\ \/ at' = Goto(l, "leave")
           \/ at' = Goto(l, "opening") /\ pool = "open" /\ pending[l] # << >>
    BY <1>8 DEF DrainOpens, DrainEnds, Wants, closed
  <2>2. \A k \in Loop : \/ at'[k] = at[k]
                        \/ k = l /\ at'[k] = "leave"
                        \/ k = l /\ at'[k] = "opening" /\ pool = "open" /\ pending[l] # << >>
    BY <1>c, <2>1 DEF Goto
  <2>3. shard[l] = "ready" /\ In' = In
    BY <1>b, <2>1 DEF In
  <2>. QED
    BY <1>b, <1>d, <2>1, <2>2, <2>3
<1>9. ASSUME NEW l \in Loop, Leave(l)
      PROVE  Manned'
  <2>1. /\ at' = Goto(l, "poll") /\ done' = [done EXCEPT ![l] = NoJob]
        /\ job' = [j \in Job |-> IF j = done[l] THEN "answered" ELSE job[j]]
        /\ UNCHANGED <<pool, pending, shard, wake, query, caller>>
    BY <1>9 DEF Leave
  <2>2. /\ at'[l] = "poll" /\ done'[l] = NoJob
        /\ \A k \in Loop \ {l} : at'[k] = at[k] /\ done'[k] = done[k]
        /\ In' \subseteq In
    BY <1>c, <2>1 DEF Goto, In
  <2>. QED
    BY <1>b, <1>d, <2>1, <2>2
<1>10. ASSUME NEW l \in Loop, NEW c \in Client,
              DrainFree(l, c) \/ DrainIdle(l, c) \/ OpenDone(l, c)
       PROVE  Manned'
  <2>1. /\ at[l] \in {"drain", "opening"} /\ pending[l] # << >>
        /\ UNCHANGED <<pool, shard, wake, done, job, caller>>
    BY <1>10, <1>b DEF DrainFree, DrainIdle, OpenDone, Wants
  <2>2. /\ query' = query \cup {Taken(l, c)}
        /\ pending' = [pending EXCEPT ![l] = Tail(@)] /\ at' = Goto(l, "start")
    BY <1>10, <2>1 DEF DrainFree, DrainIdle, OpenDone, TakeUp, Taken
  <2>3. /\ at'[l] = "start" /\ shard[l] = "ready"
        /\ \A k \in Loop \ {l} : at'[k] = at[k] /\ pending'[k] = pending[k]
    BY <1>b, <1>c, <2>1, <2>2 DEF Goto
  <2>4. \A q \in query' : shard'[q.loop] = "ready"
    <3>1. Taken(l, c).loop = l
      BY DEF Taken
    <3>. QED
      BY <1>b, <2>1, <2>2, <2>3, <3>1
  <2>5. In' = In
    BY <2>1 DEF In
  <2>. QED
    BY <1>b, <1>d, <2>1, <2>3, <2>4, <2>5
\* A query goes on, or is over, on the loop's thread.
<1>11. ASSUME NEW l \in Loop, NEW q \in query, NEW end \in {"wait", "ok", "lost"},
              Sent(l, q, end) \/ NotSent(l, q)
       PROVE  Manned'
  <2>1. /\ at[l] = "start" /\ at' = Goto(l, "drain") /\ q.loop = l
        /\ query' \subseteq query \cup {GoneOn(q, end)}
        /\ job' \in {job, [job EXCEPT ![q.job] = "answered"]}
        /\ UNCHANGED <<pool, pending, shard, wake, done, caller>>
    BY <1>11 DEF Sent, NotSent, GoneOn
  <2>2. /\ at'[l] = "drain" /\ \A k \in Loop \ {l} : at'[k] = at[k]
        /\ shard[l] = "ready"
    BY <1>b, <1>c, <2>1 DEF Goto
  <2>3. \A r \in query' : shard'[r.loop] = "ready"
    <3>1. GoneOn(q, end).loop = l
      BY <1>a, <2>1, QueryFields, GoneOnFields
    <3>. QED
      BY <1>b, <2>1, <2>2, <3>1
  <2>4. In' \subseteq In
    <3>1. \A j \in Job : job'[j] = job[j] \/ job'[j] = "answered"
      BY <1>a, <2>1, Types
    <3>. QED
      BY <3>1 DEF In
  <2>. QED
    BY <1>b, <1>d, <2>1, <2>2, <2>3, <2>4
<1>12. ASSUME NEW q \in query, ResultsRead(q) \/ ConnectionLost(q) \/ TimesOut(q)
       PROVE  Manned'
  <2>1. /\ query' \subseteq query \cup {GoneOn(q, "ok"), GoneOn(q, "lost")}
        /\ UNCHANGED <<pool, pending, shard, wake, at, done, job, caller>>
    BY <1>12 DEF ResultsRead, ConnectionLost, TimesOut, Ends, GoneOn
  <2>2. \A r \in query' : shard'[r.loop] = "ready"
    <3>1. GoneOn(q, "ok").loop = q.loop /\ GoneOn(q, "lost").loop = q.loop
      BY <1>a, QueryFields, GoneOnFields
    <3>. QED
      BY <1>b, <2>1, <3>1
  <2>3. In' = In
    BY <2>1 DEF In
  <2>. QED
    BY <1>b, <1>d, <2>1, <2>2, <2>3
<1>13. ASSUME NEW q \in query, Complete(q)
       PROVE  Manned'
  <2>. DEFINE l == q.loop
  <2>1. /\ l \in Loop /\ q.job \in Job /\ q.job # NoJob /\ query' = query \ {q}
        /\ at' = Goto(l, "drain") /\ done' = [done EXCEPT ![l] = q.job]
        /\ \/ wake' = wake
           \/ \E k \in Loop : shard[k] = "ready" /\ wake' = [wake EXCEPT ![k] = TRUE]
        /\ UNCHANGED <<pool, pending, shard, job, caller>>
    BY <1>13, <1>c DEF Complete
  <2>2. shard[l] = "ready" /\ In' = In
    BY <1>b, <2>1 DEF In
  <2>. HIDE DEF l
  <2>3. /\ at'[l] = "drain" /\ done'[l] = q.job
        /\ \A k \in Loop \ {l} : at'[k] = at[k] /\ done'[k] = done[k]
    BY <1>c, <2>1 DEF Goto
  <2>4. \A k \in Loop : wake'[k] => wake[k] \/ shard[k] = "ready"
    BY <1>c, <2>1
  <2>. QED
    BY <1>b, <1>d, <2>1, <2>2, <2>3, <2>4
<1>14. ASSUME Close
       PROVE  Manned'
  <2>1. /\ pool = "open" /\ pool' = "closing" /\ Opening = {}
        /\ UNCHANGED <<pending, shard, wake, at, done, query, caller>>
    BY <1>14 DEF Close
  <2>2. \A l \in Loop : at[l] # "opening"
    BY <2>1 DEF Opening
  <2>. QED
    BY <1>b, <1>d, <2>1, <2>2
<1>15. ASSUME CloseReturns
       PROVE  Manned'
  <2>1. /\ pool = "closing" /\ pool' = "closed"
        /\ UNCHANGED <<pending, shard, wake, at, done, query, caller>>
    BY <1>15 DEF CloseReturns
  <2>. QED
    BY <1>b, <1>d, <2>1
<1>16. ASSUME NEW l \in Loop, Detach(l)
       PROVE  Manned'
  <2>1. /\ at[l] = "poll" /\ pool \in {"open", "closed"} /\ \A j \in Job : caller[j] # l
        /\ pending[l] = << >> /\ \A q \in query : q.loop # l
        /\ shard' = [shard EXCEPT ![l] = "detached"] /\ wake' = [wake EXCEPT ![l] = FALSE]
        /\ UNCHANGED <<pool, pending, at, done, query, caller>>
    BY <1>16 DEF Detach
  <2>2. /\ shard'[l] = "detached" /\ ~wake'[l]
        /\ \A k \in Loop \ {l} : shard'[k] = shard[k] /\ wake'[k] = wake[k]
    BY <1>c, <2>1
  <2>3. \A q \in query' : shard'[q.loop] = "ready"
    BY <1>b, <1>c, <2>1, <2>2
  <2>4. \A j \in Job : caller'[j] # NoLoop => shard'[caller'[j]] \notin {"none", "detached"}
    <3>1. \A j \in Job : caller[j] # NoLoop => caller[j] \in Loop \ {l}
      BY <1>c, <2>1
    <3>. QED
      BY <1>b, <2>1, <2>2, <3>1
  <2>. QED
    BY <1>b, <1>d, <2>1, <2>2, <2>3, <2>4
\* Who destroys the pool sees to it that nobody is in its code without a job.
<1>17. ASSUME BeginDestroy
       PROVE  Manned'
  <2>1. /\ pool = "closed" /\ pool' = "winding" /\ \A j \in Job : caller[j] = NoLoop
        /\ \A l \in Loop : ~Uncounted(l)
        /\ UNCHANGED <<pending, shard, wake, at, done, query, caller>>
    BY <1>17 DEF BeginDestroy
  <2>2. \A l \in Loop : shard[l] # "booting" /\ (at[l] # "poll" => done[l] # NoJob)
    BY <2>1 DEF Uncounted
  <2>. QED
    BY <1>b, <1>d, <2>1, <2>2
<1>18. ASSUME Destroy
       PROVE  Manned'
  <2>1. /\ pool = "winding" /\ pool' = "gone" /\ work = 0
        /\ UNCHANGED <<pending, shard, wake, at, done, query, job, caller>>
    BY <1>18 DEF Destroy
  <2>2. In' = {}
    <3>1. In \in SUBSET Job /\ work = Cardinality(In)
      BY <1>a, Types DEF Accounted
    <3>2. IsFiniteSet(In)
      BY <3>1, JobsFinite
    <3>3. In = {}
      BY <2>1, <3>1, <3>2, FS_EmptySet
    <3>. QED
      BY <2>1, <3>3 DEF In
  <2>. QED
    BY <1>b, <1>d, <2>1, <2>2
<1>19. CASE UNCHANGED vars
  <2>1. UNCHANGED <<pool, pending, shard, wake, at, done, query, job, caller>>
    BY <1>19
  <2>2. In' = In
    BY <2>1 DEF In
  <2>. QED
    BY <1>b, <1>d, <2>1, <2>2
<1>. QED
  BY <1>1, <1>2, <1>3, <1>4, <1>5, <1>6, <1>7, <1>8, <1>9, <1>10, <1>11, <1>12, <1>13,
     <1>14, <1>15, <1>16, <1>17, <1>18, <1>19 DEF Steps

-----------------------------------------------------------------------------
(* The invariant and what follows from it.                                   *)

LEMMA InitInv == Init => IInv
<1>. SUFFICES ASSUME Init PROVE IInv
  OBVIOUS
<1>. USE NamesAssumption, HomeAssumption, SizeAssumption
<1>1. PICK S \in SUBSET Client : Cardinality(S) = MinSize /\ owned = S /\ idle = S
  BY DEF Init
<1>2. In = {} /\ Opening = {} /\ Carried = {}
  BY DEF Init, In, Opening, Carried
<1>3. \A l \in Loop : Waiting(l) = {} /\ InUse(l) = {} /\ pending[l] = << >>
  BY DEF Init, Waiting, ToSet, InUse
<1>4. Cardinality({}) = 0
  BY FS_EmptySet
<1>5. TypeOK
  <2>1. << >> \in Seq(Job)
    BY EmptySeq
  <2>2. 0 \in 0..Cardinality(Job)
    BY FiniteAssumption, FS_CardinalityType
  <2>. QED
    BY <1>1, <2>1, <2>2 DEF Init, TypeOK
<1>6. OneUse
  <2>1. Cardinality(owned) + Cardinality(Opening) <= MaxSize
    BY <1>1, <1>2, <1>4
  <2>2. UNION {conns[l] : l \in Loop} = {}
    BY DEF Init
  <2>. QED
    BY <1>1, <1>3, <2>1, <2>2 DEF Init, OneUse
<1>7. Accounted
  <2>1. work = Cardinality(In)
    BY <1>2, <1>4 DEF Init
  <2>2. \A l \in Loop : Distinct(pending[l])
    BY <1>3 DEF Distinct
  <2>. QED
    BY <1>2, <1>3, <2>1, <2>2 DEF Init, Accounted
<1>8. Owed /\ Manned
  BY <1>2, <1>3 DEF Init, Owed, Manned
<1>. QED
  BY <1>5, <1>6, <1>7, <1>8 DEF IInv

LEMMA Invariance ==
  ASSUME May = {}
  PROVE  Spec => []IInv
<1>1. IInv /\ [Next]_vars => IInv'
  <2>. SUFFICES ASSUME IInv, Steps PROVE IInv'
    BY NextIsSteps
  <2>1. TypeOK' /\ Accounted' /\ Owed' /\ Manned'
    BY TypeStep, AccountStep, OwedStep, MannedStep
  <2>2. OneUse'
    <3>1. Claims' /\ Within'
      BY ClaimsStep, WithinStep
    <3>2. (OneUse <=> Claims /\ Within)'
      BY ClaimsAreOneUse, PTL
    <3>. QED
      BY <3>1, <3>2
  <2>. QED
    BY <2>1, <2>2 DEF IInv
<1>. QED
  BY InitInv, <1>1, PTL DEF Spec

\* The state of the pool's native path is of the declared types in every
\* behaviour, and work_in_flight never exceeds the queries there are, as long as
\* nobody closes or destroys the pool in the ways May lists.
THEOREM TypeCorrect ==
  ASSUME May = {}
  PROVE  Spec => []TypeOK
<1>1. IInv => TypeOK
  BY DEF IInv
<1>. QED
  BY <1>1, Invariance, PTL

\* However loops take connections up, keep them, give them back, retire them and
\* detach, and whenever the pool is closed: a connection carries one query, is
\* claimed by one loop or lies in idle_, and owned_ stays within max.
THEOREM OneUseCorrect ==
  ASSUME May = {}
  PROVE  Spec => []OneUse
<1>1. IInv => OneUse
  BY DEF IInv
<1>. QED
  BY <1>1, Invariance, PTL

\* A connection whose server still owes an answer, after a timeout too, is
\* neither idle nor free on any loop, and no new query is sent on it, as long as
\* uv_poll_start() does not fail once a query is out: send() then reports
\* EXEC_FAILED, and on_async_done() keeps the connection.
THEOREM ReuseCorrect ==
  ASSUME May = {}, "poll" \notin Faults
  PROVE  Spec => []CleanReuse
<1>1. IInv => CleanReuse
  <2>. SUFFICES ASSUME IInv PROVE CleanReuse
    OBVIOUS
  <2>1. \A c \in dirty : \E q \in query : q.client = c /\ q.end \in {"wait", "lost"}
    BY DEF IInv, Owed
  <2>2. Claims /\ \A q \in query : q.loop \in Loop /\ q.client \in InUse(q.loop)
    BY ClaimsAreOneUse, QueryFields DEF IInv
  <2>3. ASSUME NEW c \in dirty
        PROVE  c \notin idle /\ \A l \in Loop : c \notin free[l]
    BY <2>1, <2>2 DEF Claims
  <2>4. ASSUME NEW q \in query, q.end = "hand", q.client \in dirty
        PROVE  FALSE
    BY <2>1, <2>2, <2>4 DEF Claims
  <2>. QED
    BY <2>3, <2>4 DEF CleanReuse
<1>. QED
  BY <1>1, Invariance, PTL

\* Where a job is: its places in queues, its queries, and the loops inside its
\* completion.
Slots(j) == {p \in Loop \X (1..Cardinality(Job)) :
               p[2] <= Len(pending[p[1]]) /\ pending[p[1]][p[2]] = j}
Carriers(j) == {q \in query : q.job = j}
Completing(j) == {l \in Loop : done[l] = j}

\* It is never at two of them.
LEMMA OnePlaceEach ==
  ASSUME TypeOK, Accounted, NEW j \in Job
  PROVE  /\ Cardinality(Slots(j)) = IF j \in Waiting(Home[j]) THEN 1 ELSE 0
         /\ Cardinality(Carriers(j)) = IF j \in Carried THEN 1 ELSE 0
         /\ Cardinality(Completing(j)) = IF done[Home[j]] = j THEN 1 ELSE 0
<1>. DEFINE h == Home[j]
<1>1. h \in Loop /\ Cardinality({}) = 0 /\ \A x : Cardinality({x}) = 1
  BY HomeAssumption, FS_EmptySet, FS_Singleton
<1>2. /\ \A l \in Loop : pending[l] \in Seq(Job) /\ Distinct(pending[l])
      /\ \A l \in Loop : j \in Waiting(l) => l = h
      /\ \A l \in Loop : done[l] = j => l = h
      /\ \A q, r \in query : q.job = r.job => q = r
  BY Types, NamesAssumption DEF Accounted
<1>. HIDE DEF h
<1>3. \A l \in Loop : /\ Len(pending[l]) \in Nat
                      /\ Waiting(l) = {pending[l][i] : i \in 1..Len(pending[l])}
  BY <1>2, Elements DEF Waiting
<1>4. ASSUME NEW p \in Slots(j)
      PROVE  /\ p = <<p[1], p[2]>> /\ p[1] = h /\ j \in Waiting(h)
             /\ p[2] \in 1..Len(pending[h]) /\ pending[h][p[2]] = j
  <2>1. /\ p = <<p[1], p[2]>> /\ p[1] \in Loop /\ p[2] \in 1..Cardinality(Job)
        /\ p[2] <= Len(pending[p[1]]) /\ pending[p[1]][p[2]] = j
    BY DEF Slots
  <2>2. Cardinality(Job) \in Nat
    BY FiniteAssumption, FS_CardinalityType
  <2>3. p[2] \in 1..Len(pending[p[1]])
    BY <1>3, <2>1, <2>2
  <2>4. j \in Waiting(p[1])
    BY <1>3, <2>1, <2>3
  <2>. QED
    BY <1>2, <2>1, <2>3, <2>4
<1>5. Cardinality(Slots(j)) = IF j \in Waiting(h) THEN 1 ELSE 0
  <2>1. CASE j \notin Waiting(h)
    <3>1. Slots(j) = {}
      BY <1>4, <2>1
    <3>. QED
      BY <1>1, <2>1, <3>1
  <2>2. CASE j \in Waiting(h)
    <3>1. PICK i \in 1..Len(pending[h]) : pending[h][i] = j
      BY <1>1, <1>3, <2>2
    <3>2. i \in 1..Cardinality(Job) /\ i <= Len(pending[h])
      <4>1. Waiting(h) \in SUBSET Job /\ Cardinality(Waiting(h)) = Len(pending[h])
        BY <1>1, <1>2, QueueLength, Elements DEF Waiting
      <4>2. /\ Len(pending[h]) \in Nat /\ Cardinality(Job) \in Nat
            /\ Len(pending[h]) <= Cardinality(Job)
        BY <1>1, <1>3, <4>1, JobsFinite, FiniteAssumption, FS_CardinalityType
      <4>. QED
        BY <4>2
    <3>3. <<h, i>> \in Slots(j)
      BY <1>1, <3>1, <3>2 DEF Slots
    <3>4. ASSUME NEW p \in Slots(j)
          PROVE  p = <<h, i>>
      <4>1. p[2] = i
        BY <1>1, <1>2, <1>4, <3>1 DEF Distinct
      <4>. QED
        BY <1>4, <4>1
    <3>5. Slots(j) = {<<h, i>>}
      BY <3>3, <3>4
    <3>. QED
      BY <1>1, <2>2, <3>5
  <2>. QED
    BY <2>1, <2>2
<1>6. Cardinality(Carriers(j)) = IF j \in Carried THEN 1 ELSE 0
  <2>1. CASE j \notin Carried
    <3>1. Carriers(j) = {}
      BY <2>1 DEF Carriers, Carried
    <3>. QED
      BY <1>1, <2>1, <3>1
  <2>2. CASE j \in Carried
    <3>1. PICK q \in query : q.job = j
      BY <2>2 DEF Carried
    <3>2. Carriers(j) = {q}
      BY <1>2, <3>1 DEF Carriers
    <3>. QED
      BY <1>1, <2>2, <3>2
  <2>. QED
    BY <2>1, <2>2
<1>7. Cardinality(Completing(j)) = IF done[h] = j THEN 1 ELSE 0
  <2>1. Completing(j) = IF done[h] = j THEN {h} ELSE {}
    BY <1>1, <1>2 DEF Completing
  <2>. QED
    BY <1>1, <2>1
<1>. QED
  BY <1>5, <1>6, <1>7 DEF h

\* work_in_flight, which the destructor waits for, counts exactly the queries
\* that were accepted and not answered, through failed sends, failed opens,
\* timeouts and a close in between; and no query is in two places or in none.
THEOREM WorkCorrect ==
  ASSUME May = {}
  PROVE  Spec => []WorkCounted
<1>1. IInv => WorkCounted
  <2>. SUFFICES ASSUME IInv PROVE WorkCounted
    OBVIOUS
  <2>1. TypeOK /\ Accounted
    BY DEF IInv
  <2>2. work = Cardinality(In)
    BY <2>1 DEF Accounted
  <2>3. ASSUME NEW j \in Job
        PROVE  Cardinality(Slots(j)) + Cardinality(Carriers(j)) + Cardinality(Completing(j))
                 = IF j \in In THEN 1 ELSE 0
    <3>1. Home[j] \in Loop
      BY HomeAssumption
    <3>2. /\ j \in In <=> j \in Waiting(Home[j]) \/ j \in Carried \/ done[Home[j]] = j
          /\ j \in Waiting(Home[j]) => j \notin Carried /\ done[Home[j]] # j
          /\ j \in Carried => done[Home[j]] # j
      BY <2>1, <3>1 DEF Accounted, In, Carried
    <3>3. /\ Cardinality(Slots(j)) = IF j \in Waiting(Home[j]) THEN 1 ELSE 0
          /\ Cardinality(Carriers(j)) = IF j \in Carried THEN 1 ELSE 0
          /\ Cardinality(Completing(j)) = IF done[Home[j]] = j THEN 1 ELSE 0
      BY <2>1, OnePlaceEach
    <3>4. CASE j \in Waiting(Home[j])
      BY <3>2, <3>3, <3>4
    <3>5. CASE j \notin Waiting(Home[j]) /\ j \in Carried
      BY <3>2, <3>3, <3>5
    <3>6. CASE j \notin Waiting(Home[j]) /\ j \notin Carried
      BY <3>2, <3>3, <3>6
    <3>. QED
      BY <3>4, <3>5, <3>6
  <2>. QED
    BY <2>2, <2>3, Zenon DEF WorkCounted, In, Slots, Carriers, Completing
<1>. QED
  BY <1>1, Invariance, PTL

\* When the pool is gone, or a shard was detached, no query, bootstrap, caller
\* or thread inside drain_shard() still has a pointer to it: the guards of
\* detach_loop() and the wait for work_in_flight see to it, given that whoever
\* destroys the pool lets a drain that no query accounts for end first.
THEOREM PointersCorrect ==
  ASSUME May = {}
  PROVE  Spec => []PointersHold
<1>1. IInv => PointersHold
  <2>. SUFFICES ASSUME IInv, NEW l \in Loop, pool = "gone" \/ shard[l] = "detached"
                PROVE  /\ at[l] = "poll" /\ shard[l] # "booting"
                       /\ pending[l] = << >> /\ InUse(l) = {}
                       /\ \A j \in Job : caller[j] # l
    BY DEF PointersHold
  <2>1. /\ done[l] \in Job \cup {NoJob} /\ pending[l] \in Seq(Job) /\ Waiting(l) \subseteq Job
        /\ l # NoLoop
    BY Types, NamesAssumption DEF IInv
  <2>2. CASE shard[l] = "detached"
    <3>1. at[l] = "poll" /\ pending[l] = << >> /\ InUse(l) = {}
      BY <2>2 DEF IInv, Manned
    <3>2. \A j \in Job : caller[j] # l
      BY <2>1, <2>2 DEF IInv, Manned
    <3>. QED
      BY <2>2, <3>1, <3>2
  <2>3. CASE pool = "gone"
    <3>1. /\ In = {} /\ \A j \in Job : caller[j] = NoLoop
          /\ shard[l] # "booting" /\ (at[l] # "poll" => done[l] # NoJob)
      BY <2>3 DEF IInv, Manned
    <3>2. \A j \in Job : j \notin Waiting(Home[j]) /\ j \notin Carried /\ done[Home[j]] # j
      BY <3>1 DEF IInv, Accounted, In
    <3>3. at[l] = "poll"
      <4>1. done[l] # NoJob => Home[done[l]] = l
        BY DEF IInv, Accounted
      <4>. QED
        BY <2>1, <3>1, <3>2, <4>1
    <3>4. pending[l] = << >>
      <4>1. \A j \in Waiting(l) : Home[j] = l
        BY DEF IInv, Accounted
      <4>2. Waiting(l) = {}
        BY <2>1, <3>2, <4>1
      <4>. QED
        BY <2>1, <4>2, Elements DEF Waiting
    <3>5. InUse(l) = {}
      <4>1. query = {}
        BY <3>2, QueryFields DEF IInv
      <4>. QED
        BY <4>1 DEF InUse
    <3>. QED
      BY <2>1, <3>1, <3>3, <3>4, <3>5
  <2>. QED
    BY <2>2, <2>3
<1>. QED
  BY <1>1, Invariance, PTL


-----------------------------------------------------------------------------
(* Queries implement the leases.                                             *)

\* The leases the queries Q stand for.
Leased(Q) == {L!Lease(q.job, q.client) : q \in Q}

\* A query's connection is alive, and no other query has its job or connection.
Backed ==
  /\ owned \subseteq Client
  /\ \A q \in query : q.job \in Job /\ q.client \in owned
  /\ \A q, r \in query : q.job = r.job \/ q.client = r.client => q = r

LEMMA AllBacked == IInv => Backed
<1>. SUFFICES ASSUME IInv PROVE Backed
  OBVIOUS
<1>1. Claims /\ owned \subseteq Client
  BY ClaimsAreOneUse DEF IInv, TypeOK
<1>2. \A q \in query : /\ q.loop \in Loop /\ q.client \in InUse(q.loop)
                       /\ q.job \in Job /\ q.job \in Carried
  BY QueryFields DEF IInv
<1>3. \A q, r \in query : q.job = r.job => q = r
  BY DEF IInv, Accounted
<1>4. ASSUME NEW q \in query
      PROVE  q.client \in owned
  <2>1. q.job \in In
    BY <1>2 DEF IInv, Accounted, In
  <2>2. pool # "gone"
    BY <2>1 DEF IInv, Manned
  <2>. QED
    BY <1>1, <1>2, <2>2 DEF Claims
<1>. QED
  BY <1>1, <1>2, <1>3, <1>4 DEF Backed, Claims

LEMMA LeasedStep ==
  ASSUME Backed, Backed',
         \/ Leased(query') = Leased(query)
         \/ \E q \in Query : query' = query \cup {q}
         \/ \E q \in query : query' = query \ {q}
  PROVE  L!Next
<1>. DEFINE now == {[holder |-> q.job, conn |-> q.client] : q \in query}
<1>1. now = Leased(query) /\ now' = Leased(query')
  BY DEF Leased, L!Lease
<1>2. L!Stock
  BY DEF Backed, L!Stock
<1>3. CASE now' = now
  BY <1>2, <1>3 DEF L!Next, L!Restock
<1>4. ASSUME NEW q \in Query \ query, query' = query \cup {q}
      PROVE  L!Next
  <2>1. q.job \in Job /\ q.client \in Client
    BY DEF Query
  <2>2. \A r \in query : r.job # q.job /\ r.client # q.client
    BY <1>4 DEF Backed
  <2>3. \A x \in now : x.holder # q.job /\ x.conn # q.client
    BY <2>2
  <2>4. now' = now \cup {L!Lease(q.job, q.client)}
    BY <1>4 DEF L!Lease
  <2>5. L!Lend(q.job, q.client)
    BY <1>2, <2>3, <2>4 DEF L!Lend
  <2>. QED
    BY <2>1, <2>5 DEF L!Next
<1>5. ASSUME NEW q \in query, query' = query \ {q}
      PROVE  L!Next
  <2>1. q.job \in Job /\ q.client \in Client
    BY DEF Backed
  <2>2. \A r \in query' : L!Lease(r.job, r.client) # L!Lease(q.job, q.client)
    BY <1>5 DEF Backed, L!Lease
  <2>3. /\ L!Lease(q.job, q.client) \in now
        /\ now' = now \ {L!Lease(q.job, q.client)}
    BY <1>1, <1>5, <2>2 DEF Leased
  <2>4. L!GiveBack(q.job, q.client)
    BY <1>2, <2>3 DEF L!GiveBack
  <2>. QED
    BY <2>1, <2>4 DEF L!Next
<1>. HIDE DEF now
<1>6. ASSUME NEW q \in Query, query' = query \cup {q}
      PROVE  L!Next
  <2>1. CASE q \in query
    <3>1. query' = query
      BY <1>6, <2>1
    <3>. QED
      BY <1>1, <1>3, <3>1
  <2>. QED
    BY <1>4, <1>6, <2>1
<1>. QED
  BY <1>1, <1>3, <1>5, <1>6

LEMMA StepRefines ==
  ASSUME TypeOK, Backed, Backed', Steps
  PROVE  L!Next
<1>. USE DEF sizes, shards, stacks, jobs, vars
<1>k. ASSUME UNCHANGED query
      PROVE  L!Next
  <2>1. Leased(query') = Leased(query)
    BY <1>k DEF Leased
  <2>. QED
    BY <2>1, LeasedStep
\* A query goes on: its job and its connection stay.
<1>g. ASSUME NEW q \in query, NEW how \in {"hand", "wait", "ok", "lost"},
             query' = (query \ {q}) \cup {GoneOn(q, how)}
      PROVE  L!Next
  <2>. DEFINE n == GoneOn(q, how)
  <2>1. n.job = q.job /\ n.client = q.client
    BY QueryFields, GoneOnFields
  <2>2. query' = (query \ {q}) \cup {n}
    BY <1>g
  <2>. HIDE DEF n
  <2>3. Leased(query') = Leased(query)
    BY <2>1, <2>2 DEF Leased
  <2>. QED
    BY <2>3, LeasedStep
<1>1. ASSUME \/ \E j \in Job, l \in Loop, onLoop \in BOOLEAN : Submit(j, l, onLoop)
             \/ \E j \in Job : WakeShard(j) \/ BootRefused(j)
             \/ \E l \in Loop : \/ Bootstrap(l) \/ OnWake(l) \/ DrainOpens(l)
                                \/ OpenFails(l) \/ DrainEnds(l) \/ Leave(l)
                                \/ CloseShard(l) \/ Detach(l)
             \/ Close \/ CloseReturns \/ BeginDestroy \/ Destroy
             \/ UNCHANGED vars
      PROVE  L!Next
  <2>1. UNCHANGED query
    BY <1>1 DEF Submit, WakeShard, BootRefused, Bootstrap, OnWake, DrainOpens, OpenFails,
       DrainEnds, Leave, CloseShard, Detach, Close, CloseReturns, BeginDestroy, Destroy
  <2>. QED
    BY <1>k, <2>1
<1>2. ASSUME NEW l \in Loop, NEW c \in Client,
             DrainFree(l, c) \/ DrainIdle(l, c) \/ OpenDone(l, c)
      PROVE  L!Next
  <2>1. \/ UNCHANGED query
        \/ pending[l] # << >> /\ query' = query \cup {Taken(l, c)}
    BY <1>2 DEF DrainFree, DrainIdle, OpenDone, Wants, TakeUp, Taken
  <2>2. ASSUME pending[l] # << >>
        PROVE  Taken(l, c) \in Query
    <3>1. Head(pending[l]) \in Job
      BY <2>2, Types, HeadTailProperties
    <3>. QED
      BY <3>1 DEF Taken, Query
  <2>. QED
    BY <1>k, <2>1, <2>2, LeasedStep
<1>3. ASSUME NEW l \in Loop, NEW q \in query, NEW end \in {"wait", "ok", "lost"}, Sent(l, q, end)
      PROVE  L!Next
  BY <1>3, <1>g DEF Sent, GoneOn
<1>4. ASSUME NEW q \in query, ResultsRead(q) \/ ConnectionLost(q) \/ TimesOut(q)
      PROVE  L!Next
  <2>1. \/ query' = (query \ {q}) \cup {GoneOn(q, "ok")}
        \/ query' = (query \ {q}) \cup {GoneOn(q, "lost")}
    BY <1>4 DEF ResultsRead, ConnectionLost, TimesOut, Ends, GoneOn
  <2>. QED
    BY <1>g, <2>1
<1>5. ASSUME NEW q \in query, (\E l \in Loop : NotSent(l, q)) \/ Complete(q)
      PROVE  L!Next
  <2>1. query' = query \ {q}
    BY <1>5 DEF NotSent, Complete
  <2>. QED
    BY <2>1, LeasedStep
<1>. QED
  BY <1>1, <1>2, <1>3, <1>4, <1>5 DEF Steps

\* The native path implements the leases, for any loops, jobs, sizes and
\* faults: a query that was taken up has its connection, alone and alive, until
\* it is completed or could not be sent.
THEOREM ImplementsCorrect ==
  ASSUME May = {}
  PROVE  Spec => Implements
<1>1. Init => L!Init
  <2>. SUFFICES ASSUME Init PROVE L!Init
    OBVIOUS
  <2>1. owned \subseteq Client /\ query = {}
    BY DEF Init
  <2>. QED
    BY <2>1 DEF L!Init
<1>2. IInv /\ IInv' /\ [Next]_vars => [L!Next]_(L!vars)
  <2>. SUFFICES ASSUME IInv, IInv', Steps PROVE L!Next
    BY NextIsSteps
  <2>1. (IInv => Backed)'
    BY AllBacked, PTL
  <2>. QED
    BY <2>1, AllBacked, StepRefines DEF IInv
<1>. QED
  BY <1>1, <1>2, Invariance, PTL DEF Spec, Implements, L!Spec
=============================================================================
