----------------------------- MODULE DbPoolProofs -----------------------------
(***************************************************************************)
(* Proofs about borrowing from the connection pool: its types, that every  *)
(* connection is in one place, that reservations and jobs are counted, the *)
(* limit, the url of what is lent, what is left of a closed pool, and that *)
(* no wakeup is lost.                                                      *)
(***************************************************************************)
EXTENDS DbPool, SequenceTheorems, FiniteSetTheorems, TLAPS

Distinct(s) == \A i, j \in 1..Len(s) : s[i] = s[j] => i = j

\* The threads that have a connection or are opening one, and the jobs that
\* the pool waits for, when threads are where p says.
Borrowers(p) == {t \in Thread : p[t] \in {"check", "held"}}
Openers(p) == {t \in Thread : p[t] = "opening"}
InPool(p) == {j \in Job : p[j] \notin {"none", "ran"}}

Quiet(p) == \A t \in Thread : p[t] \in {"out", "none", "ran"}

\* Users and jobs have positions of their own, and the counters are right.
Positions ==
  /\ \A t \in User : pc[t] \notin {"none", "queued", "leaving", "ran"}
  /\ \A t \in Job : pc[t] # "out"
  /\ inFlight = Cardinality(InPool(pc))

\* What the administrating thread knows at its positions.
Administrator ==
  /\ admin \in {"filling", "opening"} => toOpen >= 1
  /\ admin \in {"winding", "gone"} => closed /\ \A t \in User : pc[t] = "out"
  /\ admin = "gone" => Quiet(pc) /\ owned = {}

IInv == TypeOK /\ OnePlace /\ Reservations /\ Positions /\ Administrator

-----------------------------------------------------------------------------
(* What holds besides when init() has the pool to itself.                    *)

\* init() meets nobody, and starts from nothing.
Alone ==
  /\ admin \in {"closing", "filling", "opening"} => Quiet(pc) /\ inits >= 1
  /\ admin = "closing" => owned = {}
  /\ admin \in {"filling", "opening"} =>
       Cardinality(owned) + toOpen <= MinSize

\* Of an open pool everything goes to the current url.
Current ==
  /\ closed \/ url # 0
  /\ admin \in {"filling", "opening"} => ~closed
  /\ admin = "opening" => initUrl = url
  /\ ~closed => \A t \in Thread : /\ HasClient(t) => client[t][2] = url
                                  /\ pc[t] = "opening" => from[t] = url

AInv == Alone /\ Current /\ Cap /\ OnlyCurrentUrl

\* A closed pool has no idle connections, if open() does not fail init().
Swept ==
  /\ closed /\ admin \notin {"winding"} => idle = << >>
  /\ admin \in {"filling", "opening"} => url # 0 /\ ~closed
  /\ admin = "closing" => inits >= 1
  /\ admin = "opening" => initUrl # 0

\* While somebody sleeps every place of the pool is with a thread that will
\* give it up, or is about to look for one.
Busy(p) == {t \in Thread : p[t] \in {"check", "held", "opening", "woken", "head"}}
Watched == ~closed /\ Asleep(pc) # {} => Cardinality(Busy(pc)) >= MaxSize

-----------------------------------------------------------------------------
(* idle_ as a sequence: pruning, taking from the back, pushing.              *)

LEMMA Pruned ==
  ASSUME NEW s \in Seq(Conn), Distinct(s), NEW k \in 0..Len(s)
  PROVE  /\ Rest(s, k) \in Seq(Conn) /\ Distinct(Rest(s, k))
         /\ Range(Rest(s, k)) = Range(s) \ Cut(s, k)
         /\ Cut(s, k) \subseteq Range(s)
         /\ Len(Rest(s, k)) = Len(s) - k
<1>. DEFINE r == Rest(s, k)
<1>1. Len(s) \in Nat /\ \A i \in 1..Len(s) : s[i] \in Conn
  BY LenProperties, ElementOfSeq
<1>2. /\ r \in Seq(Conn)
      /\ Len(r) = Len(s) - k
      /\ \A i \in 1..Len(r) : r[i] = s[k + i]
  <2>1. \A i \in (k + 1)..Len(s) : s[i] \in Conn
    BY <1>1
  <2>2. k + 1 \in Int /\ Len(s) \in Int
    BY <1>1
  <2>3. /\ SubSeq(s, k + 1, Len(s)) \in Seq(Conn)
        /\ Len(SubSeq(s, k + 1, Len(s))) =
             IF k + 1 <= Len(s) THEN Len(s) - (k + 1) + 1 ELSE 0
        /\ \A i \in 1..(Len(s) - (k + 1) + 1) :
             SubSeq(s, k + 1, Len(s))[i] = s[k + 1 + i - 1]
    BY <2>1, <2>2, SubSeqProperties
  <2>. QED
    BY <1>1, <2>3 DEF Rest
<1>. HIDE DEF r
<1>3. Range(s) = {s[i] : i \in 1..Len(s)} /\ Range(r) = {r[i] : i \in 1..Len(r)}
  BY <1>2, RangeEquality
<1>4. Distinct(r)
  BY <1>1, <1>2 DEF Distinct
<1>5. Cut(s, k) \subseteq Range(s)
  BY <1>1, <1>3 DEF Cut
<1>6. ASSUME NEW c \in Range(r)
      PROVE  c \in Range(s) \ Cut(s, k)
  <2>1. PICK i \in 1..Len(r) : c = s[k + i]
    BY <1>2, <1>3
  <2>2. k + i \in 1..Len(s) /\ k + i \notin 1..k
    BY <1>1, <1>2, <2>1
  <2>. QED
    BY <1>1, <1>3, <2>1, <2>2 DEF Cut, Distinct
<1>7. ASSUME NEW c \in Range(s) \ Cut(s, k)
      PROVE  c \in Range(r)
  <2>1. PICK i \in 1..Len(s) : c = s[i]
    BY <1>3
  <2>2. i - k \in 1..Len(r) /\ k + (i - k) = i
    BY <1>1, <1>2, <2>1 DEF Cut
  <2>3. r[i - k] = c
    BY <1>2, <2>1, <2>2
  <2>. QED
    BY <1>3, <2>2, <2>3
<1>. QED
  BY <1>2, <1>4, <1>5, <1>6, <1>7 DEF r

LEMMA TakenFromBack ==
  ASSUME NEW s \in Seq(Conn), Distinct(s), NEW k \in 0..Len(s), Rest(s, k) # << >>
  PROVE  LET r == SubSeq(s, k + 1, Len(s) - 1)
             c == s[Len(s)]
         IN  /\ r \in Seq(Conn) /\ Distinct(r)
             /\ c \in Range(s) \ Cut(s, k)
             /\ Range(r) = (Range(s) \ Cut(s, k)) \ {c}
<1>. DEFINE r == SubSeq(s, k + 1, Len(s) - 1)
            c == s[Len(s)]
<1>1. Len(s) \in Nat /\ \A i \in 1..Len(s) : s[i] \in Conn
  BY LenProperties, ElementOfSeq
<1>2. k < Len(s)
  <2>1. Len(Rest(s, k)) \in Nat \ {0}
    BY Pruned, EmptySeq
  <2>. QED
    BY <1>1, <2>1, Pruned
<1>3. /\ r \in Seq(Conn)
      /\ Len(r) = Len(s) - 1 - k
      /\ \A i \in 1..Len(r) : r[i] = s[k + i]
  <2>1. \A i \in (k + 1)..(Len(s) - 1) : s[i] \in Conn
    BY <1>1
  <2>2. k + 1 \in Int /\ Len(s) - 1 \in Int
    BY <1>1
  <2>3. /\ SubSeq(s, k + 1, Len(s) - 1) \in Seq(Conn)
        /\ Len(SubSeq(s, k + 1, Len(s) - 1)) =
             IF k + 1 <= Len(s) - 1 THEN Len(s) - 1 - (k + 1) + 1 ELSE 0
        /\ \A i \in 1..(Len(s) - 1 - (k + 1) + 1) :
             SubSeq(s, k + 1, Len(s) - 1)[i] = s[k + 1 + i - 1]
    BY <2>1, <2>2, SubSeqProperties
  <2>. QED
    BY <1>1, <1>2, <2>3
<1>. HIDE DEF r
<1>4. Range(s) = {s[i] : i \in 1..Len(s)} /\ Range(r) = {r[i] : i \in 1..Len(r)}
  BY <1>3, RangeEquality
<1>5. Distinct(r)
  <2>1. \A i \in 1..Len(r) : k + i \in 1..Len(s)
    BY <1>1, <1>3
  <2>. QED
    BY <1>3, <2>1 DEF Distinct
<1>6. c \in Range(s) \ Cut(s, k)
  BY <1>1, <1>2, <1>4 DEF Cut, Distinct
<1>7. ASSUME NEW d \in Range(r)
      PROVE  d \in (Range(s) \ Cut(s, k)) \ {c}
  <2>1. PICK i \in 1..Len(r) : d = s[k + i]
    BY <1>3, <1>4
  <2>2. k + i \in 1..Len(s) /\ k + i \notin 1..k /\ k + i # Len(s) /\ Len(s) \in 1..Len(s)
    BY <1>1, <1>2, <1>3, <2>1
  <2>3. d # s[Len(s)] /\ d \in Range(s)
    BY <1>4, <2>1, <2>2 DEF Distinct
  <2>4. d \notin Cut(s, k)
    BY <1>1, <2>1, <2>2 DEF Distinct, Cut
  <2>. QED
    BY <2>3, <2>4
<1>8. ASSUME NEW d \in (Range(s) \ Cut(s, k)) \ {c}
      PROVE  d \in Range(r)
  <2>1. PICK i \in 1..Len(s) : d = s[i]
    BY <1>4
  <2>2. i - k \in 1..Len(r) /\ k + (i - k) = i
    BY <1>1, <1>3, <2>1 DEF Cut
  <2>3. r[i - k] = d
    BY <1>3, <2>1, <2>2
  <2>. QED
    BY <1>4, <2>2, <2>3
<1>. QED
  BY <1>3, <1>5, <1>6, <1>7, <1>8 DEF r

LEMMA Pushed ==
  ASSUME NEW s \in Seq(Conn), Distinct(s), NEW c \in Conn, c \notin Range(s)
  PROVE  LET r == Append(s, c)
         IN  /\ r \in Seq(Conn) /\ Distinct(r) /\ Len(r) = Len(s) + 1
             /\ Range(r) = Range(s) \cup {c}
             /\ \A k \in 0..Len(s) : Cut(r, k) = Cut(s, k)
<1>. DEFINE r == Append(s, c)
<1>1. Len(s) \in Nat
  BY LenProperties
<1>2. /\ r \in Seq(Conn) /\ Len(r) = Len(s) + 1
      /\ \A i \in 1..Len(s) : r[i] = s[i]
      /\ r[Len(s) + 1] = c
  BY AppendProperties
<1>. HIDE DEF r
<1>3. Range(s) = {s[i] : i \in 1..Len(s)} /\ Range(r) = {r[i] : i \in 1..Len(r)}
  BY <1>2, RangeEquality
<1>4. \A i \in 1..Len(r) : i \in 1..Len(s) \/ i = Len(s) + 1
  BY <1>1, <1>2
<1>5. Distinct(r)
  <2>. SUFFICES ASSUME NEW i \in 1..Len(r), NEW j \in 1..Len(r), r[i] = r[j]
                PROVE  i = j
    BY DEF Distinct
  <2>1. CASE i \in 1..Len(s) /\ j \in 1..Len(s)
    BY <1>2, <2>1 DEF Distinct
  <2>2. CASE i = Len(s) + 1 /\ j \in 1..Len(s)
    BY <1>2, <1>3, <2>2
  <2>3. CASE j = Len(s) + 1 /\ i \in 1..Len(s)
    BY <1>2, <1>3, <2>3
  <2>. QED
    BY <1>4, <2>1, <2>2, <2>3
<1>6. Range(r) = Range(s) \cup {c}
  <2>1. \A i \in 1..Len(r) : r[i] \in Range(s) \cup {c}
    BY <1>2, <1>3, <1>4
  <2>2. 1..Len(s) \subseteq 1..Len(r) /\ Len(s) + 1 \in 1..Len(r)
    BY <1>1, <1>2
  <2>. QED
    BY <1>2, <1>3, <2>1, <2>2
<1>7. ASSUME NEW k \in 0..Len(s)
      PROVE  Cut(r, k) = Cut(s, k)
  <2>1. \A i \in 1..k : r[i] = s[i]
    BY <1>1, <1>2
  <2>. QED
    BY <2>1 DEF Cut
<1>. QED
  BY <1>2, <1>5, <1>6, <1>7 DEF r

-----------------------------------------------------------------------------
(* Who has what.                                                             *)

\* q is p, except that sleepers may have been woken.
Wakes(p, q) ==
  /\ q \in [Thread -> At]
  /\ \A t \in Thread : q[t] = p[t] \/ (p[t] = "asleep" /\ q[t] = "woken")

\* A notification wakes and does nothing else to a position.
LEMMA NotifyWakes ==
  ASSUME NEW p \in [Thread -> At]
  PROVE  Wakes(p, p) /\ Wakes(p, WakeAll(p)) /\ \A q \in WakeOne(p) : Wakes(p, q)
<1>1. Wakes(p, p) /\ Wakes(p, WakeAll(p))
  BY DEF Wakes, WakeAll, At
<1>2. ASSUME NEW q \in WakeOne(p)
      PROVE  Wakes(p, q)
  <2>1. CASE q = p
    BY <1>1, <2>1
  <2>2. CASE \E t \in Asleep(p) : q = [p EXCEPT ![t] = "woken"]
    BY <2>2 DEF Wakes, Asleep, At
  <2>. QED
    BY <1>2, <2>1, <2>2 DEF WakeOne
<1>. QED
  BY <1>1, <1>2

\* Whoever is awake is where they were.
LEMMA WakesKeep ==
  ASSUME NEW p \in [Thread -> At], NEW q, Wakes(p, q)
  PROVE  /\ Borrowers(q) = Borrowers(p) /\ Openers(q) = Openers(p)
         /\ InPool(q) = InPool(p) /\ (Quiet(p) => Quiet(q))
         /\ \A t \in Thread : q[t] = "head" <=> p[t] = "head"
BY DEF Wakes, Borrowers, Openers, InPool, Quiet, Thread

\* OnePlace, with the borrowed connections as what is owned and not idle.
Lent(p, cl) == {cl[t] : t \in Borrowers(p)}

Placed ==
  /\ Distinct(idle) /\ Range(idle) \subseteq owned
  /\ \A t, u \in Borrowers(pc) : client[t] = client[u] => t = u
  /\ Lent(pc, client) = owned \ Range(idle)

LEMMA PlacedIsOnePlace == OnePlace <=> Placed
BY DEF OnePlace, Placed, Distinct, Lent, Borrowers, HasClient

\* Idle connections come and go, the borrowed ones stay.
LEMMA SameLent ==
  ASSUME Placed, Distinct(idle'), Range(idle') \subseteq owned',
         owned' \ Range(idle') = owned \ Range(idle),
         Borrowers(pc') = Borrowers(pc),
         \A t \in Borrowers(pc) : client'[t] = client[t]
  PROVE  Placed'
BY DEF Placed, Lent

\* A thread gets a connection nobody has.
LEMMA Lends ==
  ASSUME Placed, TypeOK, NEW t \in Thread, NEW c,
         t \notin Borrowers(pc), Borrowers(pc') = Borrowers(pc) \cup {t},
         client' = [client EXCEPT ![t] = c], c \notin owned \ Range(idle),
         Distinct(idle'), Range(idle') \subseteq owned',
         owned' \ Range(idle') = (owned \ Range(idle)) \cup {c}
  PROVE  Placed'
<1>1. client'[t] = c /\ \A u \in Borrowers(pc) : client'[u] = client[u]
  BY DEF TypeOK, Borrowers
<1>2. Lent(pc', client') = Lent(pc, client) \cup {c}
  BY <1>1 DEF Lent
<1>3. \A u \in Borrowers(pc) : client[u] # c
  BY DEF Placed, Lent
<1>. QED
  BY <1>1, <1>2, <1>3 DEF Placed

\* A thread gives its connection up.
LEMMA TakesBack ==
  ASSUME Placed, TypeOK, NEW t \in Borrowers(pc),
         Borrowers(pc') = Borrowers(pc) \ {t},
         client' = [client EXCEPT ![t] = NoClient],
         Distinct(idle'), Range(idle') \subseteq owned',
         owned' \ Range(idle') = (owned \ Range(idle)) \ {client[t]}
  PROVE  Placed'
<1>1. \A u \in Borrowers(pc) \ {t} : client'[u] = client[u] /\ client[u] # client[t]
  BY DEF TypeOK, Borrowers, Placed
<1>2. Lent(pc', client') = Lent(pc, client) \ {client[t]}
  BY <1>1 DEF Lent
<1>. QED
  BY <1>1, <1>2 DEF Placed

-----------------------------------------------------------------------------
(* put_back_locked(), and pruning on its own.                                *)

LEMMA PutBackEffect ==
  ASSUME NEW own \in SUBSET Conn, idle \in Seq(Conn), Distinct(idle),
         Range(idle) \subseteq own, NEW c \in own \ Range(idle), NEW bad,
         NEW p \in [Thread -> At], PutBack(own, c, bad, p)
  PROVE  /\ idle' \in Seq(Conn) /\ Distinct(idle') /\ Range(idle') \subseteq owned'
         /\ owned' \subseteq own
         /\ owned' \ Range(idle') = (own \ Range(idle)) \ {c}
         /\ Range(idle') \subseteq Range(idle) \cup {c}
         /\ Wakes(p, pc')
         /\ bad \/ closed => idle' = idle /\ pc' = WakeAll(p)
         /\ pc' \in WakeOne(p) \cup {WakeAll(p)}
<1>1. CASE /\ bad \/ closed
           /\ owned' = own \ {c} /\ idle' = idle /\ pc' = WakeAll(p)
  BY <1>1, NotifyWakes
<1>2. CASE /\ ~bad /\ ~closed
           /\ LET free == Append(idle, c)
              IN  \E k \in Prunable(own, free) \ {Len(free)} :
                    idle' = Rest(free, k) /\ owned' = own \ Cut(free, k)
           /\ pc' \in WakeOne(p)
  <2>. DEFINE free == Append(idle, c)
  <2>1. PICK k \in Prunable(own, free) \ {Len(free)} :
          idle' = Rest(free, k) /\ owned' = own \ Cut(free, k)
    BY <1>2
  <2>2. /\ free \in Seq(Conn) /\ Distinct(free) /\ Len(free) = Len(idle) + 1
        /\ Range(free) = Range(idle) \cup {c}
        /\ \A i \in 0..Len(idle) : Cut(free, i) = Cut(idle, i)
    BY Pushed
  <2>3. k \in 0..Len(idle) /\ k \in 0..Len(free)
    <3>1. Len(idle) \in Nat
      BY LenProperties
    <3>2. k \in 0..Len(free) /\ k # Len(free)
      BY DEF Prunable
    <3>. QED
      BY <2>2, <3>1, <3>2
  <2>. HIDE DEF free
  <2>4. /\ idle' \in Seq(Conn) /\ Distinct(idle')
        /\ Range(idle') = Range(free) \ Cut(free, k)
    BY <2>1, <2>2, <2>3, Pruned
  <2>5. Cut(free, k) \subseteq Range(idle)
    BY <2>2, <2>3, Pruned
  <2>. QED
    BY <1>2, <2>1, <2>2, <2>4, <2>5, NotifyWakes
<1>. QED
  BY <1>1, <1>2 DEF PutBack

LEMMA PruneEffect ==
  ASSUME TypeOK, Placed, NEW k \in Prunable(owned, idle)
  PROVE  /\ k \in 0..Len(idle)
         /\ Rest(idle, k) \in Seq(Conn) /\ Distinct(Rest(idle, k))
         /\ Range(Rest(idle, k)) = Range(idle) \ Cut(idle, k)
         /\ Cut(idle, k) \subseteq Range(idle)
BY Pruned DEF TypeOK, Placed, Prunable

\* release() and discard(), and the health check that failed.
LEMMA GivenBack ==
  ASSUME IInv, NEW t \in Borrowers(pc), NEW to \in At, NEW bad,
         PutBack(owned, client[t], bad, Move(t, to))
  PROVE  /\ idle' \in Seq(Conn) /\ Distinct(idle') /\ Range(idle') \subseteq owned'
         /\ owned' \subseteq owned
         /\ owned' \ Range(idle') = (owned \ Range(idle)) \ {client[t]}
         /\ Range(idle') \subseteq Range(idle) \cup {client[t]}
         /\ Move(t, to) \in [Thread -> At] /\ Wakes(Move(t, to), pc')
         /\ bad \/ closed => idle' = idle /\ pc' = WakeAll(Move(t, to))
         /\ pc' \in WakeOne(Move(t, to)) \cup {WakeAll(Move(t, to))}
<1>1. /\ owned \in SUBSET Conn /\ idle \in Seq(Conn) /\ Distinct(idle)
      /\ Range(idle) \subseteq owned /\ client[t] \in owned \ Range(idle)
  BY PlacedIsOnePlace DEF IInv, TypeOK, Placed, Lent
<1>2. Move(t, to) \in [Thread -> At]
  BY DEF IInv, TypeOK, Move, Borrowers
<1>. QED
  BY <1>1, <1>2, PutBackEffect

\* The connection init() has opened.
LEMMA InitPuts ==
  ASSUME IInv, initUrl # 0, NEW c \in Fresh,
         PutBack(owned \cup {<<c, initUrl>>}, <<c, initUrl>>, FALSE, pc)
  PROVE  /\ idle' \in Seq(Conn) /\ Distinct(idle') /\ Range(idle') \subseteq owned'
         /\ owned' \subseteq owned \cup {<<c, initUrl>>} /\ owned' \subseteq Conn
         /\ owned' \ Range(idle') = owned \ Range(idle)
         /\ Range(idle') \subseteq Range(idle) \cup {<<c, initUrl>>}
         /\ Wakes(pc, pc') /\ <<c, initUrl>> \notin owned
<1>. DEFINE d == <<c, initUrl>>
            own == owned \cup {d}
<1>1. initUrl \in 1..MaxInits /\ c \in Client
  BY InitsAssumption DEF IInv, TypeOK, Fresh
<1>2. d \in Conn /\ d \notin owned
  BY <1>1 DEF Conn, Fresh
<1>3. /\ owned \in SUBSET Conn /\ idle \in Seq(Conn) /\ Distinct(idle)
      /\ Range(idle) \subseteq owned /\ pc \in [Thread -> At]
  BY PlacedIsOnePlace DEF IInv, TypeOK, Placed
<1>4. PutBack(own, d, FALSE, pc)
  OBVIOUS
<1>5. own \in SUBSET Conn /\ Range(idle) \subseteq own /\ d \in own \ Range(idle)
  BY <1>2, <1>3
<1>. HIDE DEF own, d
<1>6. /\ idle' \in Seq(Conn) /\ Distinct(idle') /\ Range(idle') \subseteq owned'
      /\ owned' \subseteq own
      /\ owned' \ Range(idle') = (own \ Range(idle)) \ {d}
      /\ Range(idle') \subseteq Range(idle) \cup {d}
      /\ Wakes(pc, pc')
  BY <1>3, <1>4, <1>5, PutBackEffect
<1>7. (own \ Range(idle)) \ {d} = owned \ Range(idle)
  BY <1>2 DEF own
<1>. QED
  BY <1>2, <1>5, <1>6, <1>7 DEF own, d

\* A fresh address makes a connection the pool does not have.
LEMMA FreshConn ==
  ASSUME TypeOK, NEW c \in Fresh, NEW u \in 0..MaxInits, u # 0
  PROVE  <<c, u>> \in Conn /\ <<c, u>> \notin owned
<1>1. u \in 1..MaxInits /\ c \in Client
  BY InitsAssumption DEF Fresh
<1>. QED
  BY <1>1 DEF Fresh, Conn

-----------------------------------------------------------------------------
(* Counting threads.                                                         *)

LEMMA SetsFinite ==
  /\ IsFiniteSet(Thread) /\ IsFiniteSet(Job)
  /\ \A S \in SUBSET Thread : IsFiniteSet(S) /\ Cardinality(S) \in Nat
<1>1. IsFiniteSet(Thread)
  BY FiniteAssumption, FS_Union DEF Thread
<1>. QED
  BY <1>1, FiniteAssumption, FS_Subset, FS_CardinalityType

LEMMA CountOne ==
  ASSUME NEW S \in SUBSET Thread, NEW t
  PROVE  /\ Cardinality(S) \in Nat
         /\ t \notin S => Cardinality(S \cup {t}) = Cardinality(S) + 1
         /\ t \in S => /\ Cardinality(S \ {t}) = Cardinality(S) - 1
                       /\ Cardinality(S) >= 1
<1>1. IsFiniteSet(S) /\ Cardinality(S) \in Nat
  BY SetsFinite
<1>2. t \notin S => Cardinality(S \cup {t}) = Cardinality(S) + 1
  BY <1>1, FS_AddElement
<1>3. ASSUME t \in S
      PROVE  Cardinality(S \ {t}) = Cardinality(S) - 1 /\ Cardinality(S) >= 1
  <2>1. Cardinality(S \ {t}) = Cardinality(S) - 1
    BY <1>1, <1>3, FS_RemoveElement
  <2>2. Cardinality(S \ {t}) \in Nat
    BY SetsFinite
  <2>. QED
    BY <1>1, <2>1, <2>2
<1>. QED
  BY <1>1, <1>2, <1>3

\* Reservations, as a count of a named set.
LEMMA ReservationsCount ==
  Reservations <=>
    opening = Cardinality(Openers(pc)) + (IF admin = "opening" THEN 1 ELSE 0)
BY DEF Reservations, Openers

\* A thread that opens, and an administrator that does, have reserved a place.
LEMMA ReservedPlace ==
  ASSUME TypeOK, Reservations,
         admin = "opening" \/ \E t \in Thread : pc[t] = "opening"
  PROVE  opening - 1 \in Nat
<1>1. Openers(pc) \in SUBSET Thread
  BY DEF Openers
<1>2. Cardinality(Openers(pc)) \in Nat
  BY <1>1, SetsFinite
<1>3. CASE admin = "opening"
  BY <1>2, <1>3, ReservationsCount
<1>4. CASE admin # "opening" /\ \E t \in Thread : pc[t] = "opening"
  <2>1. PICK t \in Thread : t \in Openers(pc)
    BY <1>4 DEF Openers
  <2>2. Cardinality(Openers(pc)) >= 1
    BY <1>1, <2>1, CountOne
  <2>. QED
    BY <1>2, <1>4, <2>2, ReservationsCount
<1>. QED
  BY <1>3, <1>4

\* A job in the pool is counted in.
LEMMA CountedIn ==
  ASSUME IInv, NEW j \in Job, pc[j] \notin {"none", "ran"}
  PROVE  inFlight - 1 \in Nat /\ Cardinality(InPool(pc) \ {j}) = inFlight - 1
<1>1. InPool(pc) \in SUBSET Thread /\ j \in InPool(pc)
  BY DEF InPool, Thread
<1>2. inFlight = Cardinality(InPool(pc))
  BY DEF IInv, Positions
<1>. QED
  BY <1>1, <1>2, CountOne

-----------------------------------------------------------------------------
(* The invariant is inductive: one lemma per conjunct, one step per action.  *)

LEMMA InitInv == Init => IInv
<1>. SUFFICES ASSUME Init
              PROVE  IInv
  OBVIOUS
<1>1. TypeOK
  <2>1. << >> \in Seq(Conn)
    BY EmptySeq
  <2>. QED
    BY <2>1, ThreadAssumption, SizeAssumption, InitsAssumption DEF Init, TypeOK, At
<1>2. \A t \in Thread : pc[t] \in {"out", "none"}
  BY DEF Init
<1>3. OnePlace
  <2>1. Range(<< >>) = {} /\ Len(<< >>) = 0
    BY EmptySeq DEF Range
  <2>. QED
    BY <1>2, <2>1 DEF Init, OnePlace, HasClient
<1>4. Reservations
  <2>1. Openers(pc) = {}
    BY <1>2 DEF Openers
  <2>. QED
    BY <2>1, FS_EmptySet, ReservationsCount DEF Init
<1>5. Positions
  <2>1. InPool(pc) = {}
    BY ThreadAssumption DEF Init, InPool, Thread
  <2>. QED
    BY <2>1, FS_EmptySet, ThreadAssumption DEF Init, Positions, Thread
<1>6. Administrator
  BY DEF Init, Administrator
<1>. QED
  BY <1>1, <1>3, <1>4, <1>5, <1>6 DEF IInv

\* The steps there are, with the bounds of what they are about.
Steps ==
  \/ \E t \in Thread, how \in Patience : Acquire(t, how)
  \/ \E j \in Job : Submit(j) \/ LaunchFails(j) \/ Leave(j)
  \/ \E t \in Thread, k \in Prunable(owned, idle) :
       TakeIdle(t, k) \/ ReserveOpen(t, k) \/ Full(t, k)
  \/ \E t \in Thread : CheckPasses(t) \/ CheckFails(t) \/ OpenFails(t)
  \/ \E t \in Thread, c \in Client : OpenSucceeds(t, c)
  \/ \E t \in Thread : Relock(t) \/ TimesOut(t) \/ Expire(t) \/ WakeSpuriously(t)
  \/ \E t \in Thread, bad \in BOOLEAN : GiveBack(t, bad)
  \/ Close \/ InitCloses \/ InitSets \/ InitReserves \/ InitFails
  \/ \E c \in Client : InitOpens(c)
  \/ CloseIdle \/ Destroy \/ Destroyed
  \/ UNCHANGED vars

LEMMA NextIsSteps == [Next]_vars => Steps
BY DEF Steps, Next, RunJob, Proceed, Round, InitProceeds, Release, Discard, Gone,
       Thread

LEMMA TypeStep == IInv /\ Steps => TypeOK'
<1>. SUFFICES ASSUME IInv, Steps
              PROVE  TypeOK'
  OBVIOUS
<1>. USE ThreadAssumption, SizeAssumption, InitsAssumption
     DEF conns, calls, admins, vars
<1>a. TypeOK /\ Placed
  BY PlacedIsOnePlace DEF IInv
<1>b. /\ pc \in [Thread -> At] /\ mu \in Thread \cup {Nobody} /\ Nobody \notin Thread
      /\ \A t \in Thread : pc[t] = "head" <=> mu = t
  BY <1>a DEF TypeOK
<1>1. ASSUME NEW t \in Thread, NEW how \in Patience, Acquire(t, how)
      PROVE  TypeOK'
  <2>1. /\ pc' \in [Thread -> At] /\ mu' \in Thread \cup {Nobody}
        /\ \A u \in Thread : pc'[u] = "head" <=> mu' = u
    <3>1. CASE closed
      BY <1>b, <1>1, <3>1 DEF Acquire, Free, Away, Move, At
    <3>2. CASE ~closed
      BY <1>b, <1>1, <3>2 DEF Acquire, Free, Move, At
    <3>. QED
      BY <3>1, <3>2
  <2>2. wait' \in [Thread -> {"try", "timed", "forever"}]
    BY <1>a, <1>1, PatienceAssumption DEF TypeOK, Acquire
  <2>. QED
    BY <1>a, <1>1, <2>1, <2>2 DEF TypeOK, Acquire
<1>2. ASSUME NEW j \in Job, Submit(j) \/ LaunchFails(j) \/ Leave(j)
      PROVE  TypeOK'
  <2>1. LaunchFails(j) \/ Leave(j) => inFlight - 1 \in Nat
    BY CountedIn DEF LaunchFails, Leave
  <2>2. /\ pc' = Move(j, "queued") \/ pc' = Move(j, "ran")
        /\ pc[j] # "head" /\ j \in Thread
        /\ inFlight' = inFlight + 1 \/ (inFlight' = inFlight - 1 /\ inFlight - 1 \in Nat)
        /\ UNCHANGED <<closed, url, owned, idle, opening, mu, wait, from, client, admin, inits,
                       initUrl, toOpen>>
    BY <1>2, <2>1 DEF Submit, LaunchFails, Leave, Thread
  <2>3. pc' \in [Thread -> At] /\ \A u \in Thread : pc'[u] = "head" <=> mu' = u
    BY <1>b, <2>2 DEF Move, At
  <2>. QED
    BY <1>a, <2>2, <2>3 DEF TypeOK
<1>3. ASSUME NEW t \in Thread, NEW k \in Prunable(owned, idle), TakeIdle(t, k)
      PROVE  TypeOK'
  <2>1. k \in 0..Len(idle) /\ Distinct(idle) /\ idle \in Seq(Conn)
    BY <1>a, PruneEffect DEF TypeOK, Placed
  <2>2. idle' \in Seq(Conn) /\ idle[Len(idle)] \in Conn
    BY <1>a, <1>3, <2>1, TakenFromBack DEF TakeIdle, Placed, TypeOK
  <2>. QED
    BY <1>a, <1>3, <2>2 DEF TypeOK, TakeIdle, Move, At
<1>4. ASSUME NEW t \in Thread, NEW k \in Prunable(owned, idle),
             ReserveOpen(t, k) \/ Full(t, k)
      PROVE  TypeOK'
  <2>1. PICK to \in At \ {"head"} : pc' = Move(t, to)
    BY <1>4 DEF ReserveOpen, Full, At, Away
  <2>2. pc' \in [Thread -> At] /\ \A u \in Thread : pc'[u] = "head" <=> mu' = u
    <3>1. mu = t /\ mu' = Nobody
      BY <1>4 DEF ReserveOpen, Full
    <3>2. to \in At /\ to # "head"
      BY <2>1
    <3>. QED
      BY <1>b, <2>1, <3>1, <3>2 DEF Move
  <2>3. idle' \in Seq(Conn) /\ owned' \subseteq Conn /\ opening' \in Nat
    <3>1. << >> \in Seq(Conn) /\ owned \subseteq Conn /\ opening \in Nat
      BY <1>a, EmptySeq DEF TypeOK
    <3>2. /\ idle' = << >> /\ owned' = owned \ Cut(idle, k)
          /\ opening' = opening + 1 \/ opening' = opening
      BY <1>4 DEF ReserveOpen, Full
    <3>. QED
      BY <3>1, <3>2
  <2>4. from' \in [Thread -> 0..MaxInits] /\ mu' \in Thread \cup {Nobody}
    BY <1>a, <1>4 DEF TypeOK, ReserveOpen, Full
  <2>. QED
    BY <1>a, <1>4, <2>2, <2>3, <2>4 DEF TypeOK, ReserveOpen, Full
<1>5. ASSUME NEW t \in Thread, CheckPasses(t)
      PROVE  TypeOK'
  BY <1>a, <1>5 DEF TypeOK, CheckPasses, Free, Move, At, Forget
<1>6. ASSUME NEW t \in Thread, CheckFails(t)
      PROVE  TypeOK'
  <2>1. t \in Borrowers(pc) /\ "head" \in At
    BY <1>6 DEF CheckFails, Borrowers, At
  <2>2. /\ idle' \in Seq(Conn) /\ owned' \subseteq owned
        /\ Move(t, "head") \in [Thread -> At] /\ Wakes(Move(t, "head"), pc')
    BY <1>6, <2>1, GivenBack DEF CheckFails
  <2>3. \A u \in Thread : pc'[u] = "head" <=> u = t
    BY <1>a, <1>6, <2>2 DEF Wakes, Move, TypeOK, CheckFails, Free
  <2>. QED
    BY <1>a, <1>6, <2>2, <2>3 DEF TypeOK, CheckFails, Wakes
<1>7. ASSUME NEW t \in Thread, NEW c \in Client, OpenSucceeds(t, c)
      PROVE  TypeOK'
  <2>1. opening - 1 \in Nat
    BY <1>a, <1>7, ReservedPlace DEF OpenSucceeds, IInv
  <2>2. <<c, from[t]>> \in Conn
    BY <1>a, <1>7, FreshConn DEF OpenSucceeds, TypeOK
  <2>3. pc' \in [Thread -> At] /\ \A u \in Thread : pc'[u] = "head" <=> mu' = u
    BY <1>a, <1>7 DEF TypeOK, OpenSucceeds, Free, Move, At
  <2>4. /\ from' \in [Thread -> 0..MaxInits]
        /\ wait' \in [Thread -> {"try", "timed", "forever"}]
        /\ client' \in [Thread -> Conn \cup {NoClient}]
    BY <1>a, <1>7, <2>2 DEF TypeOK, OpenSucceeds, Forget
  <2>. QED
    BY <1>a, <1>7, <2>1, <2>2, <2>3, <2>4 DEF TypeOK, OpenSucceeds
<1>8. ASSUME NEW t \in Thread, OpenFails(t)
      PROVE  TypeOK'
  <2>1. opening - 1 \in Nat
    BY <1>a, <1>8, ReservedPlace DEF OpenFails, IInv
  <2>. QED
    BY <1>a, <1>8, <2>1 DEF TypeOK, OpenFails, Free, Move, At, Forget, Away
<1>9. ASSUME NEW t \in Thread,
             Relock(t) \/ TimesOut(t) \/ Expire(t) \/ WakeSpuriously(t)
      PROVE  TypeOK'
  <2>1. /\ \E there \in At : pc' = Move(t, there) /\ (there = "head" <=> mu' = t)
        /\ \A u \in Thread \ {t} : mu' = u <=> mu = u
        /\ mu' \in Thread \cup {Nobody}
    BY <1>b, <1>9 DEF Relock, TimesOut, Expire, WakeSpuriously, Free, At, Away
  <2>2. pc' \in [Thread -> At] /\ \A u \in Thread : pc'[u] = "head" <=> mu' = u
    BY <1>b, <2>1 DEF Move
  <2>3. /\ wait' = wait \/ Forget(t)
        /\ UNCHANGED <<closed, url, owned, idle, opening, from, client, inFlight, admin, inits,
                       initUrl, toOpen>>
    BY <1>9 DEF Relock, TimesOut, Expire, WakeSpuriously
  <2>4. wait' \in [Thread -> {"try", "timed", "forever"}]
    BY <1>a, <2>3 DEF TypeOK, Forget
  <2>. QED
    BY <1>a, <2>1, <2>2, <2>3, <2>4 DEF TypeOK
<1>10. ASSUME NEW t \in Thread, NEW bad \in BOOLEAN, GiveBack(t, bad)
       PROVE  TypeOK'
  <2>1. t \in Borrowers(pc) /\ Away(t) \in At /\ Away(t) # "head"
    BY <1>10 DEF GiveBack, Borrowers, At, Away
  <2>2. /\ idle' \in Seq(Conn) /\ owned' \subseteq owned
        /\ Move(t, Away(t)) \in [Thread -> At] /\ Wakes(Move(t, Away(t)), pc')
    BY <1>10, <2>1, GivenBack DEF GiveBack
  <2>3. \A u \in Thread : pc'[u] # "head"
    BY <1>a, <1>10, <2>1, <2>2 DEF Wakes, Move, TypeOK, GiveBack, Free
  <2>. QED
    BY <1>a, <1>10, <2>2, <2>3 DEF TypeOK, GiveBack, Wakes, Free
<1>11. ASSUME Close \/ InitCloses \/ Destroy
       PROVE  TypeOK'
  <2>1. << >> \in Seq(Conn)
    BY EmptySeq
  <2>2. pc' = WakeAll(pc) /\ Wakes(pc, pc')
    BY <1>a, <1>11, NotifyWakes DEF Close, InitCloses, CloseBody, Destroy, TypeOK
  <2>3. pc' \in [Thread -> At] /\ \A t \in Thread : pc'[t] = "head" <=> pc[t] = "head"
    BY <1>a, <2>2, WakesKeep DEF Wakes, TypeOK
  <2>4. closed' = TRUE /\ url' \in 0..MaxInits
    BY <1>a, <1>11 DEF TypeOK, Close, InitCloses, CloseBody, Destroy
  <2>5. owned' \subseteq Conn /\ idle' \in Seq(Conn)
    BY <1>a, <1>11, <2>1 DEF TypeOK, Close, InitCloses, CloseBody, Destroy
  <2>6. admin' \in {"idle", "closing", "winding"} /\ inits' \in 0..MaxInits
    BY <1>a, <1>11 DEF TypeOK, Close, InitCloses, Destroy
  <2>7. UNCHANGED <<opening, mu, calls, inFlight, toOpen, initUrl>>
    BY <1>11 DEF Close, InitCloses, CloseBody, Destroy
  <2>. QED
    BY <1>a, <2>3, <2>4, <2>5, <2>6, <2>7 DEF TypeOK
<1>12. CASE InitSets
  <2>1. closed' \in BOOLEAN
    BY <1>12 DEF InitSets
  <2>2. url' \in 0..MaxInits /\ toOpen' \in 0..MinSize
    BY <1>a, <1>12 DEF InitSets, TypeOK
  <2>3. admin' \in {"idle", "filling"}
    BY <1>a, <1>12 DEF InitSets, TypeOK
  <2>4. UNCHANGED <<owned, idle, opening, mu, pc, wait, client, from, inFlight, initUrl, inits>>
    BY <1>12 DEF InitSets
  <2>. QED
    BY <1>a, <2>1, <2>2, <2>3, <2>4 DEF TypeOK
<1>13. CASE InitReserves
  BY <1>a, <1>13 DEF TypeOK, InitReserves
<1>14. CASE InitFails
  <2>1. opening - 1 \in Nat
    BY <1>a, <1>14, ReservedPlace DEF InitFails, IInv
  <2>. QED
    BY <1>a, <1>14, <2>1 DEF TypeOK, InitFails
<1>15. ASSUME NEW c \in Client, InitOpens(c)
       PROVE  TypeOK'
  <2>1. opening - 1 \in Nat
    BY <1>a, <1>15, ReservedPlace DEF InitOpens, IInv
  <2>2. idle' \in Seq(Conn) /\ owned' \subseteq Conn /\ Wakes(pc, pc')
    BY <1>15, InitPuts DEF InitOpens
  <2>3. pc' \in [Thread -> At] /\ \A t \in Thread : pc'[t] = "head" <=> pc[t] = "head"
    BY <1>a, <2>2, WakesKeep DEF Wakes, TypeOK
  <2>4. toOpen - 1 \in 0..MinSize
    BY <1>a, <1>15 DEF IInv, Administrator, InitOpens, TypeOK
  <2>. QED
    BY <1>a, <1>15, <2>1, <2>2, <2>3, <2>4 DEF TypeOK, InitOpens
<1>16. CASE CloseIdle
  <2>1. PICK k \in Prunable(owned, idle) :
          idle' = Rest(idle, k) /\ owned' = owned \ Cut(idle, k)
    BY <1>16 DEF CloseIdle
  <2>2. idle' \in Seq(Conn)
    BY <1>a, <2>1, PruneEffect
  <2>. QED
    BY <1>a, <1>16, <2>1, <2>2 DEF TypeOK, CloseIdle
<1>17. CASE Destroyed
  <2>1. << >> \in Seq(Conn)
    BY EmptySeq
  <2>. QED
    BY <1>a, <1>17, <2>1 DEF TypeOK, Destroyed
<1>18. CASE UNCHANGED vars
  BY <1>a, <1>18 DEF TypeOK
<1>. QED
  BY <1>1, <1>2, <1>3, <1>4, <1>5, <1>6, <1>7, <1>8, <1>9, <1>10, <1>11, <1>12,
     <1>13, <1>14, <1>15, <1>16, <1>17, <1>18 DEF Steps

\* Steps after which the same threads have the same connections.
LEMMA PlaceStep == IInv /\ Steps => Placed'
<1>. SUFFICES ASSUME IInv, Steps
              PROVE  Placed'
  OBVIOUS
<1>. USE DEF conns, calls, admins, vars
<1>a. /\ TypeOK /\ Placed /\ pc \in [Thread -> At] /\ idle \in Seq(Conn)
      /\ Distinct(idle) /\ Range(idle) \subseteq owned
      /\ client \in [Thread -> Conn \cup {NoClient}]
  BY PlacedIsOnePlace DEF IInv, TypeOK, Placed
<1>b. \A t \in Thread : pc[t] = "head" <=> mu = t
  BY <1>a DEF TypeOK
\* A thread that keeps what it has moves on.
<1>c. ASSUME NEW t \in Thread, NEW to \in At, pc' = Move(t, to),
             to \in {"check", "held"} <=> pc[t] \in {"check", "held"},
             UNCHANGED client,
             Distinct(idle'), Range(idle') \subseteq owned',
             owned' \ Range(idle') = owned \ Range(idle)
      PROVE  Placed'
  <2>1. Borrowers(pc') = Borrowers(pc)
    BY <1>a, <1>c DEF Borrowers, Move
  <2>. QED
    BY <1>a, <1>c, <2>1, SameLent
<1>1. ASSUME NEW t \in Thread, NEW how \in Patience, Acquire(t, how)
      PROVE  Placed'
  <2>1. PICK to \in {"out", "leaving", "head"} : pc' = Move(t, to)
    BY <1>1 DEF Acquire, Away
  <2>2. pc[t] \notin {"check", "held"} /\ UNCHANGED <<client, owned, idle>>
    BY <1>1 DEF Acquire
  <2>. QED
    BY <1>a, <1>c, <2>1, <2>2 DEF At
<1>2. ASSUME NEW j \in Job, Submit(j) \/ LaunchFails(j) \/ Leave(j)
      PROVE  Placed'
  <2>1. PICK to \in {"queued", "ran"} : pc' = Move(j, to)
    BY <1>2 DEF Submit, LaunchFails, Leave
  <2>2. pc[j] \notin {"check", "held"} /\ UNCHANGED <<client, owned, idle>>
    BY <1>2 DEF Submit, LaunchFails, Leave
  <2>. QED
    BY <1>a, <1>c, <2>1, <2>2 DEF At, Thread
<1>3. ASSUME NEW t \in Thread, NEW k \in Prunable(owned, idle), TakeIdle(t, k)
      PROVE  Placed'
  <2>. DEFINE c == idle[Len(idle)]
  <2>1. k \in 0..Len(idle) /\ Cut(idle, k) \subseteq Range(idle)
    BY <1>a, PruneEffect
  <2>2. /\ idle' \in Seq(Conn) /\ Distinct(idle') /\ c \in Range(idle) \ Cut(idle, k)
        /\ Range(idle') = (Range(idle) \ Cut(idle, k)) \ {c}
    BY <1>a, <1>3, <2>1, TakenFromBack DEF TakeIdle
  <2>3. /\ client' = [client EXCEPT ![t] = c] /\ owned' = owned \ Cut(idle, k)
        /\ pc' = Move(t, "check") /\ pc[t] = "head"
    BY <1>b, <1>3 DEF TakeIdle
  <2>. HIDE DEF c
  <2>4. t \notin Borrowers(pc) /\ Borrowers(pc') = Borrowers(pc) \cup {t}
    BY <1>a, <2>3 DEF Borrowers, Move
  <2>5. Range(idle') \subseteq owned' /\ c \notin owned \ Range(idle)
    BY <1>a, <2>2, <2>3
  <2>6. owned' \ Range(idle') = (owned \ Range(idle)) \cup {c}
    BY <1>a, <2>1, <2>2, <2>3
  <2>. QED
    BY <1>a, <2>2, <2>3, <2>4, <2>5, <2>6, Lends
<1>4. ASSUME NEW t \in Thread, NEW k \in Prunable(owned, idle),
             ReserveOpen(t, k) \/ Full(t, k)
      PROVE  Placed'
  <2>1. PICK to \in {"opening", "asleep", "out", "leaving"} : pc' = Move(t, to)
    BY <1>4 DEF ReserveOpen, Full, Away
  <2>2. /\ pc[t] \notin {"check", "held"} /\ UNCHANGED client
        /\ idle' = Rest(idle, k) /\ owned' = owned \ Cut(idle, k)
    BY <1>b, <1>4 DEF ReserveOpen, Full
  <2>3. /\ Distinct(idle') /\ Range(idle') = Range(idle) \ Cut(idle, k)
        /\ Cut(idle, k) \subseteq Range(idle)
    BY <1>a, <2>2, PruneEffect
  <2>. QED
    BY <1>a, <1>c, <2>1, <2>2, <2>3 DEF At
<1>5. ASSUME NEW t \in Thread, CheckPasses(t)
      PROVE  Placed'
  BY <1>a, <1>c, <1>5 DEF CheckPasses, At
<1>6. ASSUME NEW t \in Thread, CheckFails(t)
      PROVE  Placed'
  <2>1. t \in Borrowers(pc) /\ "head" \in At
    BY <1>6 DEF CheckFails, Borrowers, At
  <2>2. /\ Distinct(idle') /\ Range(idle') \subseteq owned'
        /\ owned' \ Range(idle') = (owned \ Range(idle)) \ {client[t]}
        /\ Move(t, "head") \in [Thread -> At] /\ Wakes(Move(t, "head"), pc')
    BY <1>6, <2>1, GivenBack DEF CheckFails
  <2>3. Borrowers(pc') = Borrowers(pc) \ {t}
    BY <1>a, <2>2 DEF Borrowers, Wakes, Move
  <2>. QED
    BY <1>a, <1>6, <2>1, <2>2, <2>3, TakesBack DEF CheckFails
<1>7. ASSUME NEW t \in Thread, NEW c \in Client, OpenSucceeds(t, c)
      PROVE  Placed'
  <2>. DEFINE d == <<c, from[t]>>
  <2>1. d \notin owned
    BY <1>a, <1>7, FreshConn DEF OpenSucceeds, TypeOK
  <2>2. /\ client' = [client EXCEPT ![t] = d] /\ owned' = owned \cup {d}
        /\ idle' = idle /\ pc' = Move(t, "held") /\ pc[t] = "opening"
    BY <1>7 DEF OpenSucceeds
  <2>. HIDE DEF d
  <2>3. t \notin Borrowers(pc) /\ Borrowers(pc') = Borrowers(pc) \cup {t}
    BY <1>a, <2>2 DEF Borrowers, Move
  <2>4. owned' \ Range(idle') = (owned \ Range(idle)) \cup {d}
    BY <1>a, <2>1, <2>2
  <2>. QED
    BY <1>a, <2>1, <2>2, <2>3, <2>4, Lends
<1>8. ASSUME NEW t \in Thread, OpenFails(t)
      PROVE  Placed'
  BY <1>a, <1>c, <1>8 DEF OpenFails, At, Away
<1>9. ASSUME NEW t \in Thread,
             Relock(t) \/ TimesOut(t) \/ Expire(t) \/ WakeSpuriously(t)
      PROVE  Placed'
  <2>1. PICK to \in {"head", "out", "leaving", "late", "woken"} : pc' = Move(t, to)
    BY <1>9 DEF Relock, TimesOut, Expire, WakeSpuriously, Away
  <2>2. pc[t] \notin {"check", "held"} /\ UNCHANGED <<client, owned, idle>>
    BY <1>9 DEF Relock, TimesOut, Expire, WakeSpuriously
  <2>. QED
    BY <1>a, <1>c, <2>1, <2>2 DEF At
<1>10. ASSUME NEW t \in Thread, NEW bad \in BOOLEAN, GiveBack(t, bad)
       PROVE  Placed'
  <2>1. t \in Borrowers(pc) /\ Away(t) \in At /\ Away(t) \notin {"check", "held", "asleep"}
    BY <1>10 DEF GiveBack, Borrowers, At, Away
  <2>2. /\ Distinct(idle') /\ Range(idle') \subseteq owned'
        /\ owned' \ Range(idle') = (owned \ Range(idle)) \ {client[t]}
        /\ Move(t, Away(t)) \in [Thread -> At] /\ Wakes(Move(t, Away(t)), pc')
    BY <1>10, <2>1, GivenBack DEF GiveBack
  <2>3. Borrowers(pc') = Borrowers(pc) \ {t}
    BY <1>a, <2>1, <2>2 DEF Borrowers, Wakes, Move
  <2>. QED
    BY <1>a, <1>10, <2>1, <2>2, <2>3, TakesBack DEF GiveBack
<1>11. ASSUME Close \/ InitCloses \/ Destroy
       PROVE  Placed'
  <2>1. Borrowers(pc') = Borrowers(pc) /\ UNCHANGED client
    BY <1>a, <1>11, NotifyWakes, WakesKeep
       DEF Close, InitCloses, CloseBody, Destroy
  <2>2. Range(<< >>) = {} /\ Distinct(<< >>)
    BY DEF Range, Distinct
  <2>3. \/ idle' = << >> /\ owned' = owned \ Range(idle)
        \/ idle' = idle /\ owned' = owned
    BY <1>11 DEF Close, InitCloses, CloseBody, Destroy
  <2>. QED
    BY <1>a, <2>1, <2>2, <2>3, SameLent
<1>12. ASSUME InitSets \/ InitReserves \/ InitFails \/ UNCHANGED vars
       PROVE  Placed'
  BY <1>a, <1>12, SameLent DEF InitSets, InitReserves, InitFails
<1>13. ASSUME NEW c \in Client, InitOpens(c)
       PROVE  Placed'
  <2>1. /\ Distinct(idle') /\ Range(idle') \subseteq owned'
        /\ owned' \ Range(idle') = owned \ Range(idle) /\ Wakes(pc, pc')
    BY <1>13, InitPuts DEF InitOpens
  <2>. QED
    BY <1>a, <1>13, <2>1, WakesKeep, SameLent DEF InitOpens
<1>14. CASE CloseIdle
  <2>1. PICK k \in Prunable(owned, idle) :
          idle' = Rest(idle, k) /\ owned' = owned \ Cut(idle, k)
    BY <1>14 DEF CloseIdle
  <2>2. /\ Distinct(idle') /\ Range(idle') = Range(idle) \ Cut(idle, k)
        /\ Cut(idle, k) \subseteq Range(idle)
    BY <1>a, <2>1, PruneEffect
  <2>3. UNCHANGED <<pc, client>>
    BY <1>14 DEF CloseIdle
  <2>. QED
    BY <1>a, <2>1, <2>2, <2>3, SameLent
<1>15. CASE Destroyed
  <2>1. Borrowers(pc) = {}
    <3>1. InPool(pc) = {}
      <4>1. InPool(pc) \in SUBSET Thread /\ Cardinality(InPool(pc)) = 0
        BY <1>15 DEF IInv, Positions, Destroyed, InPool, Thread
      <4>. QED
        BY <4>1, SetsFinite, FS_EmptySet
    <3>2. \A t \in User : pc[t] = "out"
      BY <1>15 DEF IInv, Administrator, Destroyed
    <3>. QED
      BY <3>1, <3>2 DEF Borrowers, InPool, Thread
  <2>2. Range(<< >>) = {} /\ Distinct(<< >>)
    BY DEF Range, Distinct
  <2>3. owned' = {} /\ idle' = << >> /\ UNCHANGED <<pc, client>>
    BY <1>15 DEF Destroyed
  <2>. QED
    BY <2>1, <2>2, <2>3 DEF Placed, Lent
<1>. QED
  BY <1>1, <1>2, <1>3, <1>4, <1>5, <1>6, <1>7, <1>8, <1>9, <1>10, <1>11, <1>12,
     <1>13, <1>14, <1>15 DEF Steps

\* The thread t is the only one that moves, others may be woken.
MovesTo(t, to) == Move(t, to) \in [Thread -> At] /\ Wakes(Move(t, to), pc')

\* Where a step that is no opening takes a thread: the positions it changes.
LEMMA WhoMoves ==
  ASSUME IInv, Steps
  PROVE  \/ \E t \in Thread, how \in Patience :
              /\ Acquire(t, how)
              /\ \E to \in {Away(t), "head"} : MovesTo(t, to)
         \/ \E j \in Job : \/ Submit(j) /\ MovesTo(j, "queued")
                           \/ (LaunchFails(j) \/ Leave(j)) /\ MovesTo(j, "ran")
         \/ \E t \in Thread, k \in Prunable(owned, idle) :
              \/ TakeIdle(t, k) /\ pc[t] = "head" /\ MovesTo(t, "check")
              \/ ReserveOpen(t, k) /\ pc[t] = "head" /\ MovesTo(t, "opening")
              \/ /\ Full(t, k) /\ pc[t] = "head"
                 /\ \E to \in {Away(t), "asleep"} : MovesTo(t, to)
         \/ \E t \in Thread :
              \/ CheckPasses(t) /\ MovesTo(t, "held")
              \/ CheckFails(t) /\ MovesTo(t, "head")
              \/ OpenFails(t) /\ MovesTo(t, Away(t))
              \/ Relock(t) /\ MovesTo(t, "head")
              \/ TimesOut(t) /\ MovesTo(t, Away(t))
              \/ Expire(t) /\ MovesTo(t, "late")
              \/ WakeSpuriously(t) /\ MovesTo(t, "woken")
         \/ \E t \in Thread, c \in Client : OpenSucceeds(t, c) /\ MovesTo(t, "held")
         \/ \E t \in Thread, bad \in BOOLEAN : GiveBack(t, bad) /\ MovesTo(t, Away(t))
         \/ /\ Close \/ InitCloses \/ InitSets \/ InitReserves \/ InitFails
               \/ (\E c \in Client : InitOpens(c))
               \/ CloseIdle \/ Destroy \/ Destroyed \/ UNCHANGED vars
            /\ Wakes(pc, pc')
<1>. USE DEF conns, calls, admins, vars
<1>a. pc \in [Thread -> At] /\ \A t \in Thread : pc[t] = "head" <=> mu = t
  BY DEF IInv, TypeOK
<1>b. ASSUME NEW t \in Thread, NEW to \in At, pc' = Move(t, to)
      PROVE  MovesTo(t, to)
  <2>1. Move(t, to) \in [Thread -> At]
    BY <1>a DEF Move
  <2>. QED
    BY <1>b, <2>1, NotifyWakes DEF MovesTo
<1>c. \A t \in Thread : Away(t) \in At
  BY DEF Away, At
<1>1. ASSUME NEW t \in Thread, NEW how \in Patience, Acquire(t, how)
      PROVE  \E to \in {Away(t), "head"} : MovesTo(t, to)
  <2>1. pc' = Move(t, Away(t)) \/ pc' = Move(t, "head")
    BY <1>1 DEF Acquire
  <2>. QED
    BY <1>b, <1>c, <2>1 DEF At
<1>2. ASSUME NEW j \in Job
      PROVE  /\ Submit(j) => MovesTo(j, "queued")
             /\ LaunchFails(j) \/ Leave(j) => MovesTo(j, "ran")
  BY <1>b DEF Submit, LaunchFails, Leave, At, Thread
<1>3. ASSUME NEW t \in Thread, NEW k \in Prunable(owned, idle)
      PROVE  /\ TakeIdle(t, k) => pc[t] = "head" /\ MovesTo(t, "check")
             /\ ReserveOpen(t, k) => pc[t] = "head" /\ MovesTo(t, "opening")
             /\ Full(t, k) => /\ pc[t] = "head"
                              /\ \E to \in {Away(t), "asleep"} : MovesTo(t, to)
  <2>1. /\ TakeIdle(t, k) => mu = t /\ pc' = Move(t, "check")
        /\ ReserveOpen(t, k) => mu = t /\ pc' = Move(t, "opening")
        /\ Full(t, k) => mu = t /\ (pc' = Move(t, Away(t)) \/ pc' = Move(t, "asleep"))
    BY DEF TakeIdle, ReserveOpen, Full
  <2>. QED
    BY <1>a, <1>b, <1>c, <2>1 DEF At
<1>4. ASSUME NEW t \in Thread
      PROVE  /\ CheckPasses(t) => MovesTo(t, "held")
             /\ OpenFails(t) \/ TimesOut(t) => MovesTo(t, Away(t))
             /\ Relock(t) => MovesTo(t, "head")
             /\ Expire(t) => MovesTo(t, "late")
             /\ WakeSpuriously(t) => MovesTo(t, "woken")
             /\ \A c \in Client : OpenSucceeds(t, c) => MovesTo(t, "held")
  BY <1>b, <1>c DEF CheckPasses, OpenFails, TimesOut, Relock, Expire, WakeSpuriously,
     OpenSucceeds, At
<1>5. ASSUME NEW t \in Thread, CheckFails(t)
      PROVE  MovesTo(t, "head")
  <2>1. t \in Borrowers(pc) /\ "head" \in At
    BY <1>5 DEF CheckFails, Borrowers, At
  <2>. QED
    BY <1>5, <2>1, GivenBack DEF CheckFails, MovesTo
<1>6. ASSUME NEW t \in Thread, NEW bad \in BOOLEAN, GiveBack(t, bad)
      PROVE  MovesTo(t, Away(t))
  <2>1. t \in Borrowers(pc)
    BY <1>6 DEF GiveBack, Borrowers
  <2>. QED
    BY <1>6, <1>c, <2>1, GivenBack DEF GiveBack, MovesTo
<1>7. ASSUME \/ Close \/ InitCloses \/ InitSets \/ InitReserves \/ InitFails
             \/ CloseIdle \/ Destroy \/ Destroyed \/ UNCHANGED vars
      PROVE  Wakes(pc, pc')
  <2>1. pc' = pc \/ pc' = WakeAll(pc)
    BY <1>7 DEF Close, InitCloses, CloseBody, InitSets, InitReserves, InitFails,
       CloseIdle, Destroy, Destroyed
  <2>. QED
    BY <1>a, <2>1, NotifyWakes
<1>8. ASSUME NEW c \in Client, InitOpens(c)
      PROVE  Wakes(pc, pc')
  BY <1>8, InitPuts DEF InitOpens
<1>. QED
  BY <1>1, <1>2, <1>3, <1>4, <1>5, <1>6, <1>7, <1>8 DEF Steps

\* What a move does to the sets that are counted.
LEMMA MoveCounts ==
  ASSUME TypeOK, NEW t \in Thread, NEW to \in At, MovesTo(t, to)
  PROVE  /\ Openers(pc') = (IF to = "opening" THEN Openers(pc) \cup {t}
                            ELSE Openers(pc) \ {t})
         /\ InPool(pc') = (IF t \in Job /\ to \notin {"none", "ran"}
                           THEN InPool(pc) \cup {t} ELSE InPool(pc) \ {t})
         /\ to # "asleep" => pc'[t] = to
         /\ \A u \in Thread \ {t} :
              pc'[u] = pc[u] \/ (pc[u] = "asleep" /\ pc'[u] = "woken")
<1>. DEFINE p == Move(t, to)
<1>1. /\ p \in [Thread -> At] /\ p[t] = to
      /\ \A u \in Thread \ {t} : p[u] = pc[u]
  BY DEF TypeOK, Move, MovesTo
<1>2. Wakes(p, pc')
  BY DEF MovesTo
<1>. HIDE DEF p
<1>3. Openers(pc') = Openers(p) /\ InPool(pc') = InPool(p)
  BY <1>1, <1>2, WakesKeep
<1>4. Openers(p) = IF to = "opening" THEN Openers(pc) \cup {t} ELSE Openers(pc) \ {t}
  BY <1>1 DEF Openers
<1>5. InPool(p) = IF t \in Job /\ to \notin {"none", "ran"}
                  THEN InPool(pc) \cup {t} ELSE InPool(pc) \ {t}
  BY <1>1 DEF InPool, Thread
<1>. QED
  BY <1>1, <1>2, <1>3, <1>4, <1>5 DEF Wakes

LEMMA ReserveStep == IInv /\ Steps => Reservations'
<1>. SUFFICES ASSUME IInv, Steps
              PROVE  Reservations'
  OBVIOUS
<1>. USE DEF conns, calls, admins, vars
<1>a. /\ TypeOK /\ opening \in Nat /\ Openers(pc) \in SUBSET Thread
      /\ opening = Cardinality(Openers(pc)) + (IF admin = "opening" THEN 1 ELSE 0)
      /\ Cardinality(Openers(pc)) \in Nat
  BY ReservationsCount, SetsFinite DEF IInv, TypeOK, Openers
<1>b. ASSUME opening' = Cardinality(Openers(pc')) + (IF admin' = "opening" THEN 1 ELSE 0)
      PROVE  Reservations'
  BY <1>b DEF Reservations, Openers
\* Nobody begins or ends to open.
<1>c. ASSUME UNCHANGED <<opening, admin>>, Openers(pc') = Openers(pc)
      PROVE  Reservations'
  BY <1>a, <1>b, <1>c
<1>d. ASSUME NEW t \in Thread, NEW to \in At \ {"opening"}, MovesTo(t, to),
             pc[t] # "opening", UNCHANGED <<opening, admin>>
      PROVE  Reservations'
  <2>1. Openers(pc') = Openers(pc) \ {t}
    BY <1>a, <1>d, MoveCounts
  <2>2. t \notin Openers(pc)
    BY <1>d DEF Openers
  <2>. QED
    BY <1>c, <1>d, <2>1, <2>2
<1>e. \A t \in Thread : Away(t) \in At \ {"opening"}
  BY DEF Away, At
<1>1. ASSUME NEW t \in Thread, NEW how \in Patience, Acquire(t, how),
             NEW to \in {Away(t), "head"}, MovesTo(t, to)
      PROVE  Reservations'
  BY <1>d, <1>e, <1>1 DEF Acquire, At
<1>2. ASSUME NEW j \in Job, NEW to \in {"queued", "ran"}, MovesTo(j, to),
             Submit(j) \/ LaunchFails(j) \/ Leave(j)
      PROVE  Reservations'
  BY <1>d, <1>2 DEF Submit, LaunchFails, Leave, At, Thread
<1>3. ASSUME NEW t \in Thread, NEW k \in Prunable(owned, idle), pc[t] = "head",
             NEW to \in {Away(t), "check", "asleep"}, MovesTo(t, to),
             TakeIdle(t, k) \/ Full(t, k)
      PROVE  Reservations'
  BY <1>d, <1>e, <1>3 DEF TakeIdle, Full, At
<1>4. ASSUME NEW t \in Thread, NEW k \in Prunable(owned, idle), pc[t] = "head",
             MovesTo(t, "opening"), ReserveOpen(t, k)
      PROVE  Reservations'
  <2>1. Openers(pc') = Openers(pc) \cup {t} /\ t \notin Openers(pc)
    BY <1>a, <1>4, MoveCounts DEF At, Openers
  <2>2. Cardinality(Openers(pc')) = Cardinality(Openers(pc)) + 1
    BY <1>a, <2>1, CountOne
  <2>3. opening' = opening + 1 /\ admin' = admin
    BY <1>4 DEF ReserveOpen
  <2>. QED
    BY <1>a, <1>b, <2>2, <2>3
<1>5. ASSUME NEW t \in Thread, NEW to \in {Away(t), "held"}, MovesTo(t, to),
             OpenFails(t) \/ \E c \in Client : OpenSucceeds(t, c)
      PROVE  Reservations'
  <2>1. pc[t] = "opening" /\ opening' = opening - 1 /\ admin' = admin
    BY <1>5 DEF OpenFails, OpenSucceeds
  <2>2. to \in At \ {"opening"}
    BY <1>e DEF At
  <2>3. Openers(pc') = Openers(pc) \ {t} /\ t \in Openers(pc)
    BY <1>a, <1>5, <2>1, <2>2, MoveCounts DEF Openers
  <2>4. Cardinality(Openers(pc')) = Cardinality(Openers(pc)) - 1
    BY <1>a, <2>3, CountOne
  <2>. QED
    BY <1>a, <1>b, <2>1, <2>4
<1>6. ASSUME NEW t \in Thread, NEW to \in {"held", "head", "late", "woken", Away(t)},
             MovesTo(t, to),
             \/ CheckPasses(t) \/ CheckFails(t) \/ Relock(t) \/ TimesOut(t)
             \/ Expire(t) \/ WakeSpuriously(t) \/ \E bad \in BOOLEAN : GiveBack(t, bad)
      PROVE  Reservations'
  <2>1. to \in At \ {"opening"}
    BY <1>e DEF At
  <2>2. pc[t] # "opening" /\ UNCHANGED <<opening, admin>>
    BY <1>6 DEF CheckPasses, CheckFails, Relock, TimesOut, Expire, WakeSpuriously,
       GiveBack
  <2>. QED
    BY <1>d, <1>6, <2>1, <2>2
<1>f. ASSUME Wakes(pc, pc')
      PROVE  Openers(pc') = Openers(pc)
  BY <1>a, <1>f, WakesKeep DEF TypeOK
<1>7. ASSUME Wakes(pc, pc'),
             Close \/ InitCloses \/ InitSets \/ CloseIdle \/ Destroy \/ Destroyed
               \/ UNCHANGED vars
      PROVE  Reservations'
  <2>1. opening' = opening /\ (admin' = "opening" <=> admin = "opening")
    BY <1>7 DEF Close, InitCloses, CloseBody, InitSets, CloseIdle, Destroy, Destroyed
  <2>. QED
    BY <1>a, <1>b, <1>f, <1>7, <2>1
<1>8. ASSUME Wakes(pc, pc'), InitReserves
      PROVE  Reservations'
  <2>1. opening' = opening + 1 /\ admin = "filling" /\ admin' = "opening"
    BY <1>8 DEF InitReserves
  <2>. QED
    BY <1>a, <1>b, <1>f, <1>8, <2>1
<1>9. ASSUME Wakes(pc, pc'), InitFails \/ \E c \in Client : InitOpens(c)
      PROVE  Reservations'
  <2>1. opening' = opening - 1 /\ admin = "opening" /\ admin' \in {"idle", "filling"}
    BY <1>9 DEF InitFails, InitOpens
  <2>. QED
    BY <1>a, <1>b, <1>f, <1>9, <2>1
<1>. QED
  BY <1>1, <1>2, <1>3, <1>4, <1>5, <1>6, <1>7, <1>8, <1>9, WhoMoves

LEMMA PositionStep == IInv /\ Steps => Positions'
<1>. SUFFICES ASSUME IInv, Steps
              PROVE  Positions'
  OBVIOUS
<1>. USE DEF conns, calls, admins, vars
<1>a. /\ TypeOK /\ pc \in [Thread -> At] /\ inFlight = Cardinality(InPool(pc))
      /\ InPool(pc) \in SUBSET Thread
      /\ \A t \in User : pc[t] \notin {"none", "queued", "leaving", "ran"}
      /\ \A t \in Job : pc[t] # "out"
      /\ User \cap Job = {} /\ Thread = User \cup Job
  BY ThreadAssumption DEF IInv, TypeOK, Positions, InPool, Thread
\* A thread moves in its own range and stays in the pool or outside.
<1>b. ASSUME NEW t \in Thread, NEW to \in At, MovesTo(t, to),
             t \in User => to \notin {"none", "queued", "leaving", "ran"},
             t \in Job => to \notin {"out", "none", "ran"} /\ pc[t] \notin {"none", "ran"},
             UNCHANGED inFlight
      PROVE  Positions'
  <2>1. InPool(pc') = InPool(pc)
    BY <1>a, <1>b, MoveCounts DEF InPool
  <2>2. pc'[t] = to \/ (to = "asleep" /\ pc'[t] = "woken")
    BY <1>a, <1>b DEF MovesTo, Wakes, Move
  <2>3. \A u \in Thread \ {t} : pc'[u] = pc[u] \/ pc'[u] = "woken"
    BY <1>a, <1>b, MoveCounts
  <2>. QED
    BY <1>a, <1>b, <2>1, <2>2, <2>3 DEF Positions
<1>c. \A t \in Thread : /\ Away(t) \in At
                        /\ t \in User => Away(t) = "out"
                        /\ t \in Job => Away(t) = "leaving"
  BY <1>a DEF Away, At
<1>1. ASSUME NEW t \in Thread, NEW how \in Patience, Acquire(t, how),
             NEW to \in {Away(t), "head"}, MovesTo(t, to)
      PROVE  Positions'
  <2>1. (t \in Job => pc[t] = "queued") /\ inFlight' = inFlight /\ to \in At
    BY <1>a, <1>c, <1>1 DEF Acquire, At
  <2>. QED
    BY <1>b, <1>c, <1>1, <2>1
<1>2. ASSUME NEW j \in Job, MovesTo(j, "queued"), Submit(j)
      PROVE  Positions'
  <2>1. InPool(pc') = InPool(pc) \cup {j} /\ j \notin InPool(pc) /\ pc'[j] = "queued"
    BY <1>a, <1>2, MoveCounts DEF Submit, InPool, At
  <2>2. Cardinality(InPool(pc')) = inFlight'
    BY <1>a, <1>2, <2>1, CountOne DEF Submit
  <2>3. \A u \in Thread \ {j} : pc'[u] = pc[u] \/ pc'[u] = "woken"
    BY <1>a, <1>2, MoveCounts DEF At
  <2>. QED
    BY <1>a, <2>1, <2>2, <2>3 DEF Positions
<1>3. ASSUME NEW j \in Job, MovesTo(j, "ran"), LaunchFails(j) \/ Leave(j)
      PROVE  Positions'
  <2>1. InPool(pc') = InPool(pc) \ {j} /\ pc'[j] = "ran"
    BY <1>a, <1>3, MoveCounts DEF At
  <2>2. pc[j] \notin {"none", "ran"} /\ inFlight' = inFlight - 1
    BY <1>3 DEF LaunchFails, Leave
  <2>3. Cardinality(InPool(pc')) = inFlight'
    BY <2>1, <2>2, CountedIn
  <2>4. \A u \in Thread \ {j} : pc'[u] = pc[u] \/ pc'[u] = "woken"
    BY <1>a, <1>3, MoveCounts DEF At
  <2>. QED
    BY <1>a, <2>1, <2>3, <2>4 DEF Positions
<1>4. ASSUME NEW t \in Thread, NEW k \in Prunable(owned, idle), pc[t] = "head",
             NEW to \in {Away(t), "check", "asleep", "opening"}, MovesTo(t, to),
             TakeIdle(t, k) \/ ReserveOpen(t, k) \/ Full(t, k)
      PROVE  Positions'
  <2>1. inFlight' = inFlight /\ to \in At
    BY <1>c, <1>4 DEF TakeIdle, ReserveOpen, Full, At
  <2>. QED
    BY <1>b, <1>c, <1>4, <2>1
<1>5. ASSUME NEW t \in Thread, NEW to \in {"held", "head", "late", "woken", Away(t)},
             MovesTo(t, to),
             \/ CheckPasses(t) \/ CheckFails(t) \/ Relock(t) \/ TimesOut(t)
             \/ Expire(t) \/ WakeSpuriously(t) \/ OpenFails(t)
             \/ (\E bad \in BOOLEAN : GiveBack(t, bad))
             \/ \E c \in Client : OpenSucceeds(t, c)
      PROVE  Positions'
  <2>1. pc[t] \notin {"none", "ran"} /\ inFlight' = inFlight
    BY <1>5 DEF CheckPasses, CheckFails, Relock, TimesOut, Expire, WakeSpuriously,
       OpenFails, OpenSucceeds, GiveBack
  <2>2. to \in At
    BY <1>c DEF At
  <2>. QED
    BY <1>b, <1>c, <1>5, <2>1, <2>2
<1>6. ASSUME Wakes(pc, pc'), UNCHANGED inFlight
      PROVE  Positions'
  <2>1. InPool(pc') = InPool(pc) /\ \A u \in Thread : pc'[u] = pc[u] \/ pc'[u] = "woken"
    BY <1>a, <1>6, WakesKeep DEF Wakes
  <2>. QED
    BY <1>a, <1>6, <2>1 DEF Positions
<1>7. ASSUME \/ Close \/ InitCloses \/ InitSets \/ InitReserves \/ InitFails
             \/ (\E c \in Client : InitOpens(c))
             \/ CloseIdle \/ Destroy \/ Destroyed \/ UNCHANGED vars
      PROVE  UNCHANGED inFlight
  BY <1>7 DEF Close, InitCloses, CloseBody, InitSets, InitReserves, InitFails,
     InitOpens, CloseIdle, Destroy, Destroyed
<1>. QED
  BY <1>1, <1>2, <1>3, <1>4, <1>5, <1>6, <1>7, WhoMoves

\* A destroyer that sees work_in_flight at zero has the pool to itself.
LEMMA WoundDown ==
  ASSUME IInv, admin = "winding", inFlight = 0
  PROVE  Quiet(pc) /\ Borrowers(pc) = {}
<1>1. InPool(pc) \in SUBSET Thread /\ Cardinality(InPool(pc)) = 0
  BY DEF IInv, Positions, InPool, Thread
<1>2. InPool(pc) = {}
  BY <1>1, SetsFinite, FS_EmptySet
<1>3. \A t \in User : pc[t] = "out"
  BY DEF IInv, Administrator
<1>. QED
  BY <1>2, <1>3 DEF Quiet, Borrowers, InPool, Thread

\* Steps of a thread that is inside the pool.
Insider(t) ==
  \/ \E k \in Prunable(owned, idle) :
       pc[t] = "head" /\ (TakeIdle(t, k) \/ ReserveOpen(t, k) \/ Full(t, k))
  \/ CheckPasses(t) \/ CheckFails(t) \/ OpenFails(t)
  \/ (\E c \in Client : OpenSucceeds(t, c))
  \/ Relock(t) \/ TimesOut(t) \/ Expire(t) \/ WakeSpuriously(t)
  \/ \E bad \in BOOLEAN : GiveBack(t, bad)

LEMMA InsiderStep ==
  ASSUME NEW t \in Thread, Insider(t)
  PROVE  /\ pc[t] \in {"head", "check", "opening", "held", "asleep", "woken", "late"}
         /\ UNCHANGED <<closed, url, inFlight, admins>>
<1>. USE DEF conns, calls, admins
<1>1. ASSUME NEW k \in Prunable(owned, idle), pc[t] = "head",
             TakeIdle(t, k) \/ ReserveOpen(t, k) \/ Full(t, k)
      PROVE  UNCHANGED <<closed, url, inFlight, admins>>
  BY <1>1 DEF TakeIdle, ReserveOpen, Full
<1>2. ASSUME CheckPasses(t) \/ CheckFails(t) \/ OpenFails(t)
               \/ (\E c \in Client : OpenSucceeds(t, c))
      PROVE  /\ pc[t] \in {"check", "opening"}
             /\ UNCHANGED <<closed, url, inFlight, admins>>
  BY <1>2 DEF CheckPasses, CheckFails, OpenFails, OpenSucceeds
<1>3. ASSUME Relock(t) \/ TimesOut(t) \/ Expire(t) \/ WakeSpuriously(t)
               \/ \E bad \in BOOLEAN : GiveBack(t, bad)
      PROVE  /\ pc[t] \in {"asleep", "woken", "late", "held"}
             /\ UNCHANGED <<closed, url, inFlight, admins>>
  BY <1>3 DEF Relock, TimesOut, Expire, WakeSpuriously, GiveBack
<1>. QED
  BY <1>1, <1>2, <1>3 DEF Insider

\* WhoMoves, by who it is that moves.
LEMMA ByActor ==
  ASSUME IInv, Steps
  PROVE  \/ \E t \in Thread, how \in Patience :
              /\ Acquire(t, how)
              /\ \E to \in {Away(t), "head"} : MovesTo(t, to)
         \/ \E j \in Job : \/ Submit(j) /\ MovesTo(j, "queued")
                           \/ (LaunchFails(j) \/ Leave(j)) /\ MovesTo(j, "ran")
         \/ \E t \in Thread : Insider(t) /\ \E to \in At : MovesTo(t, to)
         \/ /\ Close \/ InitCloses \/ InitSets \/ InitReserves \/ InitFails
               \/ (\E c \in Client : InitOpens(c))
               \/ CloseIdle \/ Destroy \/ Destroyed \/ UNCHANGED vars
            /\ Wakes(pc, pc')
<1>1. \A t \in Thread : Away(t) \in At
  BY DEF Away, At
<1>2. {"check", "opening", "asleep", "held", "head", "late", "woken"} \subseteq At
  BY DEF At
<1>. QED
  BY <1>1, <1>2, WhoMoves DEF Insider

LEMMA AdministratorStep == IInv /\ Steps => Administrator'
<1>. SUFFICES ASSUME IInv, Steps
              PROVE  Administrator'
  OBVIOUS
<1>. USE DEF conns, calls, admins, vars
<1>a. /\ TypeOK /\ pc \in [Thread -> At] /\ toOpen \in 0..MinSize
      /\ admin \in {"filling", "opening"} => toOpen >= 1
      /\ admin \in {"winding", "gone"} => closed /\ \A t \in User : pc[t] = "out"
      /\ admin = "gone" => Quiet(pc) /\ owned = {}
  BY DEF IInv, TypeOK, Administrator
\* Only jobs move once the destructor has begun, and nobody once it is over.
<1>b. ASSUME NEW t \in Thread, NEW to \in At, MovesTo(t, to),
             admin \in {"winding", "gone"} => t \in Job, admin # "gone",
             UNCHANGED <<closed, admin, toOpen>>
      PROVE  Administrator'
  <2>1. \A u \in Thread \ {t} :
          pc'[u] = pc[u] \/ (pc[u] = "asleep" /\ pc'[u] = "woken")
    BY <1>a, <1>b, MoveCounts
  <2>2. admin = "winding" => \A u \in User : u # t /\ pc'[u] = "out"
    BY <1>a, <1>b, <2>1, ThreadAssumption DEF Thread
  <2>. QED
    BY <1>a, <1>b, <2>2 DEF Administrator
<1>1. ASSUME NEW t \in Thread, NEW how \in Patience, Acquire(t, how),
             NEW to \in {Away(t), "head"}, MovesTo(t, to)
      PROVE  Administrator'
  <2>1. t \in User => admin \notin {"winding", "gone"}
    BY <1>1 DEF Acquire, Callable
  <2>2. t \notin User => pc[t] = "queued"
    BY <1>1 DEF Acquire
  <2>3. admin # "gone" /\ to \in At
    BY <1>a, <2>1, <2>2 DEF Quiet, Away, At
  <2>4. UNCHANGED <<closed, admin, toOpen>>
    BY <1>1 DEF Acquire
  <2>. QED
    BY <1>b, <1>1, <2>1, <2>3, <2>4 DEF Thread
<1>2. ASSUME NEW j \in Job, NEW to \in {"queued", "ran"}, MovesTo(j, to),
             Submit(j) \/ LaunchFails(j) \/ Leave(j)
      PROVE  Administrator'
  <2>1. admin # "gone" /\ UNCHANGED <<closed, admin, toOpen>>
    BY <1>a, <1>2 DEF Submit, LaunchFails, Leave, Callable, Quiet, Thread
  <2>. QED
    BY <1>b, <1>2, <2>1 DEF Thread, At
<1>3. ASSUME NEW t \in Thread, NEW to \in At, MovesTo(t, to), Insider(t)
      PROVE  Administrator'
  <2>1. /\ pc[t] \notin {"out", "none", "ran"}
        /\ UNCHANGED <<closed, admin, toOpen>>
    BY <1>3, InsiderStep
  <2>2. admin # "gone" /\ (admin = "winding" => t \in Job)
    BY <1>a, <2>1 DEF Quiet, Thread
  <2>. QED
    BY <1>b, <1>3, <2>1, <2>2
<1>4. ASSUME Wakes(pc, pc'), Close \/ InitCloses \/ InitFails \/ CloseIdle
      PROVE  Administrator'
  <2>1. admin' \in {"idle", "closing"}
    BY <1>4 DEF Close, InitCloses, InitFails, CloseIdle
  <2>. QED
    BY <2>1 DEF Administrator
<1>5. CASE InitSets
  <2>1. admin' = "idle" \/ (admin' = "filling" /\ toOpen' = MinSize /\ MinSize # 0)
    BY <1>5 DEF InitSets
  <2>. QED
    BY <2>1, SizeAssumption DEF Administrator
<1>6. CASE InitReserves
  BY <1>a, <1>6 DEF InitReserves, Administrator
<1>7. ASSUME NEW c \in Client, InitOpens(c)
      PROVE  Administrator'
  <2>1. /\ toOpen' = toOpen - 1 /\ admin = "opening"
        /\ admin' = (IF toOpen = 1 THEN "idle" ELSE "filling")
    BY <1>7 DEF InitOpens
  <2>2. toOpen \in Nat /\ toOpen >= 1
    BY <1>a, <2>1, SizeAssumption
  <2>. QED
    BY <2>1, <2>2 DEF Administrator
<1>8. CASE Destroy
  <2>1. admin' = "winding" /\ closed' = TRUE /\ pc' = WakeAll(pc)
    BY <1>8 DEF Destroy
  <2>2. \A t \in User : pc[t] = "out" /\ t \in Thread
    BY <1>8 DEF Destroy, Thread
  <2>. QED
    BY <2>1, <2>2 DEF Administrator, WakeAll
<1>9. CASE Destroyed
  <2>1. /\ admin = "winding" /\ admin' = "gone" /\ owned' = {}
        /\ UNCHANGED <<pc, closed>> /\ Quiet(pc)
    BY <1>9, WoundDown DEF Destroyed
  <2>. QED
    BY <1>a, <2>1 DEF Administrator
<1>10. CASE UNCHANGED vars
  BY <1>a, <1>10 DEF Administrator
<1>. QED
  BY <1>1, <1>2, <1>3, <1>4, <1>5, <1>6, <1>7, <1>8, <1>9, <1>10, ByActor

-----------------------------------------------------------------------------
(* The properties that hold whoever calls init().                            *)

LEMMA Invariance == Spec => []IInv
<1>1. IInv /\ [Next]_vars => IInv'
  <2>. SUFFICES ASSUME IInv, [Next]_vars
                PROVE  IInv'
    OBVIOUS
  <2>1. Steps
    BY NextIsSteps
  <2>2. OnePlace'
    <3>1. Placed'
      BY <2>1, PlaceStep
    <3>. QED
      BY <3>1 DEF OnePlace, Placed, Distinct, Lent, Borrowers, HasClient
  <2>. QED
    BY <2>1, <2>2, TypeStep, ReserveStep, PositionStep, AdministratorStep DEF IInv
<1>. QED
  BY <1>1, InitInv, PTL DEF Spec

\* The types, and that only the holder of mu_ is inside the loop of
\* acquire_locked(), for any users, jobs, sizes and calls of init().
THEOREM TypeCorrect == Spec => []TypeOK
<1>1. IInv => TypeOK
  BY DEF IInv
<1>. QED
  BY <1>1, Invariance, PTL

\* A connection the pool owns is in idle_ once or with one borrower: none is
\* lent twice, freed while it is out, or lost, by whatever path it comes back.
THEOREM OnePlaceCorrect == Spec => []OnePlace
<1>1. IInv => OnePlace
  BY DEF IInv
<1>. QED
  BY <1>1, Invariance, PTL

\* opening_ is the number of threads inside open(), init() included.
THEOREM ReservationsCorrect == Spec => []Reservations
<1>1. IInv => Reservations
  BY DEF IInv
<1>. QED
  BY <1>1, Invariance, PTL

\* wind_down() waits for every job that knows the pool.
THEOREM DestructorCorrect == Spec => []NoJobOutlivesPool
<1>1. IInv => NoJobOutlivesPool
  <2>. SUFFICES ASSUME IInv, admin = "gone"
                PROVE  \A t \in Thread : pc[t] \in {"out", "none", "ran"} /\ mu = Nobody
    BY DEF NoJobOutlivesPool
  <2>1. \A t \in Thread : pc[t] \in {"out", "none", "ran"}
    BY DEF IInv, Administrator, Quiet
  <2>2. /\ mu \in Thread \cup {Nobody}
        /\ \A t \in Thread : pc[t] = "head" <=> mu = t
    BY DEF IInv, TypeOK
  <2>. QED
    BY <2>1, <2>2
<1>. QED
  BY <1>1, Invariance, PTL

-----------------------------------------------------------------------------
(* init() has the pool to itself: the limit, and the url of what is lent.    *)

LEMMA OwnedFinite ==
  ASSUME TypeOK
  PROVE  /\ IsFiniteSet(owned) /\ Cardinality(owned) \in Nat
         /\ \A S \in SUBSET owned :
              Cardinality(S) \in Nat /\ Cardinality(S) <= Cardinality(owned)
         /\ \A S, d : S \subseteq owned \cup {d} =>
              Cardinality(S) \in Nat /\ Cardinality(S) <= Cardinality(owned) + 1
<1>1. IsFiniteSet(Conn)
  <2>1. 1 \in Int /\ MaxInits \in Int
    BY InitsAssumption
  <2>2. IsFiniteSet(1..MaxInits)
    BY <2>1, FS_Interval
  <2>. QED
    BY <2>2, ClientAssumption, FS_Product DEF Conn
<1>2. IsFiniteSet(owned) /\ Cardinality(owned) \in Nat
  BY <1>1, FS_Subset, FS_CardinalityType DEF TypeOK
<1>3. \A S \in SUBSET owned :
        Cardinality(S) \in Nat /\ Cardinality(S) <= Cardinality(owned)
  BY <1>2, FS_Subset, FS_CardinalityType
<1>4. ASSUME NEW S, NEW d, S \subseteq owned \cup {d}
      PROVE  Cardinality(S) \in Nat /\ Cardinality(S) <= Cardinality(owned) + 1
  <2>1. /\ IsFiniteSet(owned \cup {d}) /\ Cardinality(owned \cup {d}) \in Nat
        /\ Cardinality(owned \cup {d}) <= Cardinality(owned) + 1
    BY <1>2, FS_AddElement, FS_CardinalityType
  <2>2. /\ Cardinality(S) \in Nat
        /\ Cardinality(S) <= Cardinality(owned \cup {d})
    BY <1>4, <2>1, FS_Subset, FS_CardinalityType
  <2>. QED
    BY <1>2, <2>1, <2>2
<1>. QED
  BY <1>2, <1>3, <1>4

\* A pool nobody uses lends nothing and has reserved nothing for a thread.
LEMMA QuietPool ==
  ASSUME IInv, Quiet(pc)
  PROVE  Borrowers(pc) = {} /\ Openers(pc) = {} /\ owned = Range(idle)
<1>1. Borrowers(pc) = {} /\ Openers(pc) = {}
  BY DEF Quiet, Borrowers, Openers
<1>2. Lent(pc, client) = owned \ Range(idle) /\ Range(idle) \subseteq owned
  BY PlacedIsOnePlace DEF IInv, Placed
<1>. QED
  BY <1>1, <1>2 DEF Lent

LEMMA AInvInit == Init => AInv
<1>. SUFFICES ASSUME Init
              PROVE  AInv
  OBVIOUS
<1>1. Range(<< >>) = {} /\ Cardinality({}) = 0
  BY FS_EmptySet DEF Range
<1>2. Alone /\ Current
  BY DEF Init, Alone, Current
<1>3. Cap /\ OnlyCurrentUrl
  BY <1>1, SizeAssumption DEF Init, Cap, OnlyCurrentUrl
<1>. QED
  BY <1>2, <1>3 DEF AInv

\* No thread is at work in the pool while init() is.
LEMMA NobodyDuringInit ==
  ASSUME ~SharedInit, IInv, Alone,
         \/ \E t \in Thread, how \in Patience : Acquire(t, how)
         \/ \E j \in Job : Submit(j) \/ LaunchFails(j) \/ Leave(j)
         \/ \E t \in Thread : Insider(t)
  PROVE  admin \notin {"closing", "filling", "opening"} /\ admin' = admin
<1>. USE DEF conns, calls, admins
<1>1. ASSUME NEW t \in Thread, NEW how \in Patience, Acquire(t, how)
      PROVE  admin \notin {"closing", "filling", "opening"} /\ admin' = admin
  <2>1. (t \in User => admin = "idle") /\ (t \notin User => pc[t] = "queued")
    BY <1>1 DEF Acquire, Callable
  <2>2. admin' = admin
    BY <1>1 DEF Acquire
  <2>. QED
    BY <2>1, <2>2 DEF Alone, Quiet
<1>2. ASSUME NEW j \in Job, Submit(j) \/ LaunchFails(j) \/ Leave(j)
      PROVE  admin \notin {"closing", "filling", "opening"} /\ admin' = admin
  BY <1>2 DEF Submit, LaunchFails, Leave, Callable, Alone, Quiet, Thread
<1>3. ASSUME NEW t \in Thread, Insider(t)
      PROVE  admin \notin {"closing", "filling", "opening"} /\ admin' = admin
  BY <1>3, InsiderStep DEF Alone, Quiet
<1>. QED
  BY <1>1, <1>2, <1>3

LEMMA AloneStep ==
  ASSUME ~SharedInit, IInv, Alone, Steps
  PROVE  Alone'
<1>. USE DEF conns, calls, admins, vars
<1>a. /\ TypeOK /\ pc \in [Thread -> At] /\ inits \in Nat /\ toOpen \in Nat
  BY InitsAssumption, SizeAssumption DEF IInv, TypeOK
<1>1. ASSUME \/ \E t \in Thread, how \in Patience : Acquire(t, how)
             \/ \E j \in Job : Submit(j) \/ LaunchFails(j) \/ Leave(j)
             \/ \E t \in Thread : Insider(t)
      PROVE  Alone'
  BY <1>1, NobodyDuringInit DEF Alone
<1>2. ASSUME Close \/ CloseIdle \/ Destroy \/ Destroyed \/ InitFails
      PROVE  Alone'
  <2>1. admin' \in {"idle", "winding", "gone"}
    BY <1>2 DEF Close, CloseIdle, Destroy, Destroyed, InitFails
  <2>. QED
    BY <2>1 DEF Alone
<1>3. ASSUME InitCloses, Wakes(pc, pc')
      PROVE  Alone'
  <2>1. Quiet(pc) /\ admin' = "closing" /\ inits' = inits + 1
    BY <1>3 DEF InitCloses, Quiet
  <2>2. Quiet(pc')
    BY <1>a, <1>3, <2>1, WakesKeep
  <2>3. owned' = owned \ Range(idle)
    BY <1>3 DEF InitCloses, CloseBody
  <2>4. owned' = {}
    BY <2>1, <2>3, QuietPool
  <2>. QED
    BY <1>a, <2>1, <2>2, <2>4 DEF Alone
<1>4. CASE InitSets
  <2>1. /\ admin = "closing" /\ admin' \in {"idle", "filling"} /\ toOpen' = MinSize
        /\ UNCHANGED <<pc, owned, inits>>
    BY <1>4 DEF InitSets
  <2>2. owned = {} /\ Quiet(pc) /\ inits >= 1
    BY <2>1 DEF Alone
  <2>3. Cardinality(owned') + toOpen' <= MinSize
    BY <2>1, <2>2, FS_EmptySet, SizeAssumption
  <2>. QED
    BY <2>1, <2>2, <2>3 DEF Alone
<1>5. CASE InitReserves
  <2>1. /\ admin = "filling" /\ admin' = "opening"
        /\ UNCHANGED <<pc, owned, inits, toOpen>>
    BY <1>5 DEF InitReserves
  <2>. QED
    BY <2>1 DEF Alone
<1>6. ASSUME NEW c \in Client, InitOpens(c), Wakes(pc, pc')
      PROVE  Alone'
  <2>1. /\ admin = "opening" /\ admin' \in {"idle", "filling"} /\ toOpen' = toOpen - 1
        /\ inits' = inits
    BY <1>6 DEF InitOpens
  <2>2. Quiet(pc) /\ inits >= 1 /\ Cardinality(owned) + toOpen <= MinSize
    BY <2>1 DEF Alone
  <2>3. Quiet(pc')
    BY <1>a, <1>6, <2>2, WakesKeep
  <2>4. owned' \subseteq owned \cup {<<c, initUrl>>}
    BY <1>6, InitPuts DEF InitOpens
  <2>5. Cardinality(owned') \in Nat /\ Cardinality(owned') <= Cardinality(owned) + 1
    BY <1>a, <2>4, OwnedFinite
  <2>6. Cardinality(owned') + toOpen' <= MinSize
    BY <1>a, <2>1, <2>2, <2>5, OwnedFinite, SizeAssumption
  <2>. QED
    BY <2>1, <2>2, <2>3, <2>6 DEF Alone
<1>7. CASE UNCHANGED vars
  BY <1>7 DEF Alone
<1>. QED
  BY <1>1, <1>2, <1>3, <1>4, <1>5, <1>6, <1>7, ByActor

LEMMA CapStep ==
  ASSUME IInv, Alone, Cap, Steps
  PROVE  Cap'
<1>. USE DEF conns, calls, admins, vars
<1>a. /\ TypeOK /\ Placed /\ opening \in Nat /\ Cardinality(owned) \in Nat
      /\ Cardinality(owned) + opening <= MaxSize /\ MaxSize \in Nat
  BY PlacedIsOnePlace, OwnedFinite, SizeAssumption DEF IInv, TypeOK, Cap
<1>b. ASSUME owned' \subseteq owned, opening' \in {opening, opening - 1}
      PROVE  Cap'
  <2>1. Cardinality(owned') \in Nat /\ Cardinality(owned') <= Cardinality(owned)
    BY <1>a, <1>b, OwnedFinite
  <2>. QED
    BY <1>a, <1>b, <2>1 DEF Cap
<1>c. ASSUME NEW d, owned' \subseteq owned \cup {d}, opening' = opening - 1
      PROVE  Cap'
  <2>1. Cardinality(owned') \in Nat /\ Cardinality(owned') <= Cardinality(owned) + 1
    BY <1>a, <1>c, OwnedFinite
  <2>. QED
    BY <1>a, <1>c, <2>1 DEF Cap
<1>1. ASSUME NEW t \in Thread, NEW how \in Patience, Acquire(t, how)
      PROVE  Cap'
  BY <1>b, <1>1 DEF Acquire
<1>2. ASSUME NEW j \in Job, Submit(j) \/ LaunchFails(j) \/ Leave(j)
      PROVE  Cap'
  BY <1>b, <1>2 DEF Submit, LaunchFails, Leave
<1>3. ASSUME NEW t \in Thread, NEW k \in Prunable(owned, idle),
             TakeIdle(t, k) \/ Full(t, k)
      PROVE  Cap'
  BY <1>b, <1>3 DEF TakeIdle, Full
<1>4. ASSUME NEW t \in Thread, NEW k \in Prunable(owned, idle), ReserveOpen(t, k)
      PROVE  Cap'
  <2>1. /\ owned' = owned \ Cut(idle, k) /\ opening' = opening + 1
        /\ Cardinality(owned \ Cut(idle, k)) + opening < MaxSize
    BY <1>4 DEF ReserveOpen, Room
  <2>2. Cardinality(owned \ Cut(idle, k)) \in Nat
    BY <1>a, OwnedFinite
  <2>. QED
    BY <1>a, <2>1, <2>2 DEF Cap
<1>5. ASSUME NEW t \in Thread, CheckPasses(t) \/ OpenFails(t) \/ Relock(t)
                                 \/ TimesOut(t) \/ Expire(t) \/ WakeSpuriously(t)
      PROVE  Cap'
  BY <1>b, <1>5 DEF CheckPasses, OpenFails, Relock, TimesOut, Expire, WakeSpuriously
<1>6. ASSUME NEW t \in Thread, CheckFails(t) \/ \E bad \in BOOLEAN : GiveBack(t, bad)
      PROVE  Cap'
  <2>1. t \in Borrowers(pc) /\ Away(t) \in At /\ "head" \in At
    BY <1>6 DEF CheckFails, GiveBack, Borrowers, At, Away
  <2>2. owned' \subseteq owned /\ opening' = opening
    BY <1>6, <2>1, GivenBack DEF CheckFails, GiveBack
  <2>. QED
    BY <1>b, <2>2
<1>7. ASSUME NEW t \in Thread, NEW c \in Client, OpenSucceeds(t, c)
      PROVE  Cap'
  BY <1>c, <1>7 DEF OpenSucceeds
<1>8. ASSUME \/ Close \/ InitCloses \/ InitSets \/ InitFails \/ CloseIdle \/ Destroy
             \/ Destroyed \/ UNCHANGED vars
      PROVE  Cap'
  <2>1. owned' \subseteq owned /\ opening' \in {opening, opening - 1}
    BY <1>8 DEF Close, InitCloses, CloseBody, InitSets, InitFails, CloseIdle, Destroy,
       Destroyed
  <2>. QED
    BY <1>b, <2>1
<1>9. CASE InitReserves
  <2>1. admin = "filling" /\ owned' = owned /\ opening' = opening + 1
    BY <1>9 DEF InitReserves
  <2>2. Openers(pc) = {}
    BY <2>1, QuietPool DEF Alone
  <2>3. opening = 0
    BY <2>1, <2>2, ReservationsCount, FS_EmptySet DEF IInv
  <2>4. Cardinality(owned) + toOpen <= MinSize /\ toOpen \in Nat /\ toOpen >= 1
    BY <2>1, SizeAssumption DEF Alone, IInv, Administrator, TypeOK
  <2>. QED
    BY <1>a, <2>1, <2>3, <2>4, SizeAssumption DEF Cap
<1>10. ASSUME NEW c \in Client, InitOpens(c)
       PROVE  Cap'
  <2>1. owned' \subseteq owned \cup {<<c, initUrl>>} /\ opening' = opening - 1
    BY <1>10, InitPuts DEF InitOpens
  <2>. QED
    BY <1>c, <2>1
<1>. QED
  BY <1>1, <1>2, <1>3, <1>4, <1>5, <1>6, <1>7, <1>8, <1>9, <1>10 DEF Steps

\* What is idle goes to u.
AllTo(s, u) == \A c \in Range(s) : c[2] = u

LEMMA CurrentStep ==
  ASSUME ~SharedInit, IInv, Alone, Current, OnlyCurrentUrl, Steps
  PROVE  Current' /\ OnlyCurrentUrl'
<1>. USE DEF conns, calls, admins, vars
<1>a. /\ TypeOK /\ Placed /\ pc \in [Thread -> At]
      /\ client \in [Thread -> Conn \cup {NoClient}]
      /\ from \in [Thread -> 0..MaxInits]
      /\ closed \in BOOLEAN
  BY PlacedIsOnePlace DEF IInv, TypeOK
<1>b. /\ closed \/ url # 0
      /\ admin \in {"filling", "opening"} => ~closed
      /\ admin = "opening" => initUrl = url
      /\ \A t \in Thread : ~closed =>
           /\ pc[t] \in {"check", "held"} => client[t][2] = url
           /\ pc[t] = "opening" => from[t] = url
  BY DEF Current, HasClient
<1>c. AllTo(idle, url)
  BY DEF OnlyCurrentUrl, AllTo
<1>d. ASSUME AllTo(idle', url')
      PROVE  OnlyCurrentUrl'
  BY <1>d DEF OnlyCurrentUrl, AllTo
\* A thread moves on, with what it has.
<1>e. ASSUME NEW t \in Thread, NEW to \in At, MovesTo(t, to),
             UNCHANGED <<closed, url, admin, initUrl>>,
             \A u \in Thread \ {t} : client'[u] = client[u] /\ from'[u] = from[u],
             ~closed /\ to \in {"check", "held"} => client'[t][2] = url,
             ~closed /\ to = "opening" => from'[t] = url,
             AllTo(idle', url)
      PROVE  Current' /\ OnlyCurrentUrl'
  <2>1. \A u \in Thread \ {t} :
          pc'[u] = pc[u] \/ (pc[u] = "asleep" /\ pc'[u] = "woken")
    BY <1>a, <1>e, MoveCounts
  <2>2. pc'[t] = to \/ (to = "asleep" /\ pc'[t] = "woken")
    BY <1>a, <1>e DEF MovesTo, Wakes, Move
  <2>3. \A u \in Thread : ~closed =>
          /\ pc'[u] \in {"check", "held"} => client'[u][2] = url
          /\ pc'[u] = "opening" => from'[u] = url
    BY <1>b, <1>e, <2>1, <2>2
  <2>. QED
    BY <1>b, <1>d, <1>e, <2>3 DEF Current, HasClient
<1>1. ASSUME NEW t \in Thread, NEW how \in Patience, Acquire(t, how),
             NEW to \in {Away(t), "head"}, MovesTo(t, to)
      PROVE  Current' /\ OnlyCurrentUrl'
  BY <1>a, <1>c, <1>e, <1>1 DEF Acquire, Away, At
<1>2. ASSUME NEW j \in Job, NEW to \in {"queued", "ran"}, MovesTo(j, to),
             Submit(j) \/ LaunchFails(j) \/ Leave(j)
      PROVE  Current' /\ OnlyCurrentUrl'
  BY <1>a, <1>c, <1>e, <1>2 DEF Submit, LaunchFails, Leave, At, Thread
<1>3. ASSUME NEW t \in Thread, NEW k \in Prunable(owned, idle), TakeIdle(t, k),
             MovesTo(t, "check")
      PROVE  Current' /\ OnlyCurrentUrl'
  <2>1. k \in 0..Len(idle)
    BY <1>a, PruneEffect
  <2>2. /\ idle[Len(idle)] \in Range(idle) /\ Range(idle') \subseteq Range(idle)
    BY <1>a, <1>3, <2>1, TakenFromBack DEF TakeIdle, TypeOK, Placed
  <2>3. /\ client' = [client EXCEPT ![t] = idle[Len(idle)]]
        /\ UNCHANGED <<closed, url, admin, initUrl, from>>
    BY <1>3 DEF TakeIdle
  <2>4. AllTo(idle', url) /\ client'[t][2] = url
    BY <1>a, <1>c, <2>2, <2>3 DEF AllTo
  <2>5. \A u \in Thread \ {t} : client'[u] = client[u] /\ from'[u] = from[u]
    BY <1>a, <2>3
  <2>. QED
    BY <1>e, <1>3, <2>3, <2>4, <2>5 DEF At
<1>4. ASSUME NEW t \in Thread, NEW k \in Prunable(owned, idle),
             NEW to \in {"opening", "asleep", Away(t)}, MovesTo(t, to),
             \/ ReserveOpen(t, k) /\ to = "opening"
             \/ Full(t, k) /\ to \in {Away(t), "asleep"}
      PROVE  Current' /\ OnlyCurrentUrl'
  <2>1. AllTo(idle', url)
    <3>1. idle' = << >> /\ Range(<< >>) = {}
      BY <1>4 DEF ReserveOpen, Full, Range
    <3>. QED
      BY <3>1 DEF AllTo
  <2>2. /\ UNCHANGED <<closed, url, admin, initUrl, client>>
        /\ \A u \in Thread \ {t} : from'[u] = from[u]
        /\ to = "opening" => from'[t] = url
    BY <1>a, <1>4 DEF ReserveOpen, Full, Away
  <2>3. to \in At \ {"check", "held"}
    BY DEF Away, At
  <2>. QED
    BY <1>e, <1>4, <2>1, <2>2, <2>3
<1>5. ASSUME NEW t \in Thread, CheckPasses(t), MovesTo(t, "held")
      PROVE  Current' /\ OnlyCurrentUrl'
  <2>1. pc[t] = "check" /\ UNCHANGED <<closed, url, admin, initUrl, client, from, idle>>
    BY <1>5 DEF CheckPasses
  <2>. QED
    BY <1>b, <1>c, <1>e, <1>5, <2>1 DEF At
<1>6. ASSUME NEW t \in Thread, NEW c \in Client, OpenSucceeds(t, c), MovesTo(t, "held")
      PROVE  Current' /\ OnlyCurrentUrl'
  <2>1. /\ pc[t] = "opening" /\ UNCHANGED <<closed, url, admin, initUrl, idle>>
        /\ client' = [client EXCEPT ![t] = <<c, from[t]>>]
        /\ from' = [from EXCEPT ![t] = 0]
    BY <1>6 DEF OpenSucceeds
  <2>2. client'[t] = <<c, from[t]>> /\ client'[t][2] = from[t]
    BY <1>a, <2>1
  <2>3. \A u \in Thread \ {t} : client'[u] = client[u] /\ from'[u] = from[u]
    BY <1>a, <2>1
  <2>4. ~closed => client'[t][2] = url
    BY <1>b, <2>1, <2>2
  <2>. QED
    BY <1>c, <1>e, <1>6, <2>1, <2>3, <2>4 DEF At
<1>7. ASSUME NEW t \in Thread, NEW to \in {Away(t), "head", "late", "woken"},
             MovesTo(t, to),
             OpenFails(t) \/ Relock(t) \/ TimesOut(t) \/ Expire(t) \/ WakeSpuriously(t)
      PROVE  Current' /\ OnlyCurrentUrl'
  <2>1. /\ UNCHANGED <<closed, url, admin, initUrl, client, idle>>
        /\ \A u \in Thread \ {t} : from'[u] = from[u]
    BY <1>a, <1>7 DEF OpenFails, Relock, TimesOut, Expire, WakeSpuriously
  <2>2. to \in At \ {"check", "held", "opening"}
    BY DEF Away, At
  <2>. QED
    BY <1>c, <1>e, <1>7, <2>1, <2>2
<1>8. ASSUME NEW t \in Thread, NEW to \in {Away(t), "head"}, MovesTo(t, to),
             NEW bad \in BOOLEAN, t \in Borrowers(pc),
             PutBack(owned, client[t], bad, Move(t, to)),
             client' = [client EXCEPT ![t] = NoClient],
             UNCHANGED <<closed, url, admin, initUrl, from>>
      PROVE  Current' /\ OnlyCurrentUrl'
  <2>1. to \in At \ {"check", "held", "opening"}
    BY DEF Away, At
  <2>2. /\ Range(idle') \subseteq Range(idle) \cup {client[t]}
        /\ closed => idle' = idle
    BY <1>8, <2>1, GivenBack
  <2>3. ~closed => client[t][2] = url
    BY <1>b, <1>8 DEF Borrowers
  <2>4. AllTo(idle', url)
    BY <1>c, <2>2, <2>3 DEF AllTo
  <2>5. \A u \in Thread \ {t} : client'[u] = client[u] /\ from'[u] = from[u]
    BY <1>a, <1>8
  <2>. QED
    BY <1>e, <1>8, <2>1, <2>4, <2>5
<1>9. ASSUME NEW t \in Thread, CheckFails(t), MovesTo(t, "head")
      PROVE  Current' /\ OnlyCurrentUrl'
  BY <1>8, <1>9 DEF CheckFails, Borrowers
<1>10. ASSUME NEW t \in Thread, NEW bad \in BOOLEAN, GiveBack(t, bad),
              MovesTo(t, Away(t))
       PROVE  Current' /\ OnlyCurrentUrl'
  BY <1>8, <1>10 DEF GiveBack, Borrowers
\* Threads are woken at most.
<1>f. ASSUME Wakes(pc, pc'), UNCHANGED <<client, from>>,
             closed' \/ (~closed /\ UNCHANGED <<closed, url>>),
             admin' \in {"filling", "opening"} => ~closed',
             admin' = "opening" => initUrl' = url',
             AllTo(idle', url')
      PROVE  Current' /\ OnlyCurrentUrl'
  <2>1. \A u \in Thread : ~closed' =>
          /\ pc'[u] \in {"check", "held"} => client'[u][2] = url'
          /\ pc'[u] = "opening" => from'[u] = url'
    BY <1>b, <1>f DEF Wakes
  <2>2. closed' \/ url' # 0
    BY <1>b, <1>f
  <2>. QED
    BY <1>d, <1>f, <2>1, <2>2 DEF Current, HasClient
<1>11. ASSUME Wakes(pc, pc'), Close \/ InitCloses \/ Destroy \/ InitFails
       PROVE  Current' /\ OnlyCurrentUrl'
  <2>1. /\ closed' = TRUE /\ UNCHANGED <<client, from>>
        /\ admin' \in {"idle", "closing", "winding"}
        /\ idle' = << >> \/ UNCHANGED <<idle, url>>
    BY <1>11 DEF Close, InitCloses, CloseBody, Destroy, InitFails
  <2>2. AllTo(<< >>, url')
    BY DEF AllTo, Range
  <2>3. AllTo(idle', url')
    BY <1>c, <2>1, <2>2
  <2>. QED
    BY <1>f, <1>11, <2>1, <2>3
<1>12. CASE InitSets
  <2>1. admin = "closing" /\ url' = inits /\ closed' = FALSE
        /\ admin' \in {"idle", "filling"} /\ UNCHANGED <<pc, idle>>
    BY <1>12 DEF InitSets
  <2>2. Quiet(pc) /\ inits >= 1 /\ Range(idle) = {}
    BY <1>a, <2>1 DEF Alone, Placed
  <2>3. AllTo(idle', url')
    BY <2>1, <2>2 DEF AllTo
  <2>4. \A u \in Thread : pc'[u] \notin {"check", "held", "opening"}
    BY <2>1, <2>2 DEF Quiet
  <2>5. url' # 0
    BY <2>1, <2>2
  <2>. QED
    BY <1>d, <2>1, <2>3, <2>4, <2>5 DEF Current, HasClient
<1>13. ASSUME Wakes(pc, pc'), InitReserves
       PROVE  Current' /\ OnlyCurrentUrl'
  <2>1. /\ admin = "filling" /\ admin' = "opening" /\ initUrl' = url
        /\ UNCHANGED <<closed, url, client, from, idle>>
    BY <1>13 DEF InitReserves
  <2>2. ~closed'
    BY <1>b, <2>1
  <2>3. closed' \/ (~closed /\ UNCHANGED <<closed, url>>)
    BY <2>1, <2>2
  <2>4. AllTo(idle', url')
    BY <1>c, <2>1
  <2>5. initUrl' = url'
    BY <2>1
  <2>. QED
    BY <1>f, <1>13, <2>1, <2>2, <2>3, <2>4, <2>5
<1>14. ASSUME NEW c \in Client, InitOpens(c), Wakes(pc, pc')
       PROVE  Current' /\ OnlyCurrentUrl'
  <2>1. /\ admin = "opening" /\ admin' \in {"idle", "filling"}
        /\ UNCHANGED <<closed, url, client, from>>
    BY <1>14 DEF InitOpens
  <2>2. Range(idle') \subseteq Range(idle) \cup {<<c, initUrl>>}
    BY <1>14, InitPuts DEF InitOpens
  <2>3. AllTo(idle', url')
    BY <1>b, <1>c, <2>1, <2>2 DEF AllTo
  <2>. QED
    BY <1>b, <1>f, <1>14, <2>1, <2>3
<1>15. ASSUME Wakes(pc, pc'), CloseIdle \/ Destroyed
       PROVE  Current' /\ OnlyCurrentUrl'
  <2>1. Range(idle') \subseteq Range(idle)
    <3>1. CASE CloseIdle
      BY <1>a, <3>1, PruneEffect DEF CloseIdle
    <3>2. CASE Destroyed
      BY <3>2 DEF Destroyed, Range
    <3>. QED
      BY <1>15, <3>1, <3>2
  <2>2. UNCHANGED <<closed, url, client, from, initUrl>> /\ admin' \in {"idle", "gone"}
    BY <1>15 DEF CloseIdle, Destroyed
  <2>3. AllTo(idle', url')
    BY <1>c, <2>1, <2>2 DEF AllTo
  <2>. QED
    BY <1>a, <1>f, <1>15, <2>2, <2>3
<1>16. CASE UNCHANGED vars
  BY <1>16 DEF Current, OnlyCurrentUrl, HasClient
<1>. QED
  BY <1>1, <1>2, <1>3, <1>4, <1>5, <1>6, <1>7, <1>9, <1>10, <1>11, <1>12, <1>13,
     <1>14, <1>15, <1>16, WhoMoves

LEMMA AInvariance ==
  ASSUME ~SharedInit
  PROVE  Spec => []AInv
<1>1. AInv /\ IInv /\ [Next]_vars => AInv'
  BY NextIsSteps, AloneStep, CapStep, CurrentStep DEF AInv
<1>. QED
  BY <1>1, AInvInit, Invariance, PTL DEF Spec

\* The pool never has, or has under way, more than max connections, when
\* nobody uses it while init() fills it.
THEOREM CapCorrect ==
  ASSUME ~SharedInit
  PROVE  Spec => []Cap
<1>1. AInv => Cap
  BY DEF AInv
<1>. QED
  BY <1>1, AInvariance, PTL

\* What can be lent was opened for the url of the last init(), when init()
\* waits until the pool's connections are back.
THEOREM UrlCorrect ==
  ASSUME ~SharedInit
  PROVE  Spec => []OnlyCurrentUrl
<1>1. AInv => OnlyCurrentUrl
  BY DEF AInv
<1>. QED
  BY <1>1, AInvariance, PTL

-----------------------------------------------------------------------------
(* What is left of a closed pool.                                            *)

\* What can be lent only shrinks on a closed pool.
LEMMA EmptyStays ==
  ASSUME IInv, closed, idle = << >>,
         \/ \E t \in Thread, how \in Patience : Acquire(t, how)
         \/ \E j \in Job : Submit(j) \/ LaunchFails(j) \/ Leave(j)
         \/ \E t \in Thread : Insider(t)
  PROVE  idle' = << >>
<1>. USE DEF conns, calls, admins
<1>a. /\ TypeOK /\ Placed /\ Distinct(idle) /\ idle \in Seq(Conn) /\ Range(idle) = {}
  BY PlacedIsOnePlace DEF IInv, TypeOK, Placed, Range
<1>1. ASSUME NEW t \in Thread, NEW how \in Patience, Acquire(t, how)
      PROVE  idle' = << >>
  BY <1>1 DEF Acquire
<1>2. ASSUME NEW j \in Job, Submit(j) \/ LaunchFails(j) \/ Leave(j)
      PROVE  idle' = << >>
  BY <1>2 DEF Submit, LaunchFails, Leave
<1>3. ASSUME NEW t \in Thread, NEW k \in Prunable(owned, idle),
             TakeIdle(t, k) \/ ReserveOpen(t, k) \/ Full(t, k)
      PROVE  idle' = << >>
  <2>1. ~TakeIdle(t, k)
    <3>1. k \in 0..Len(idle)
      BY <1>a, PruneEffect
    <3>2. Rest(idle, k) # << >> => idle[Len(idle)] \in Range(idle)
      BY <1>a, <3>1, TakenFromBack
    <3>. QED
      BY <1>a, <3>2 DEF TakeIdle
  <2>. QED
    BY <1>3, <2>1 DEF ReserveOpen, Full
<1>4. ASSUME NEW t \in Thread, CheckFails(t) \/ \E bad \in BOOLEAN : GiveBack(t, bad)
      PROVE  idle' = << >>
  <2>1. t \in Borrowers(pc) /\ Away(t) \in At /\ "head" \in At
    BY <1>4 DEF CheckFails, GiveBack, Borrowers, At, Away
  <2>2. idle' = idle
    BY <1>4, <2>1, GivenBack DEF CheckFails, GiveBack
  <2>. QED
    BY <2>2
<1>5. ASSUME NEW t \in Thread,
             \/ CheckPasses(t) \/ OpenFails(t) \/ (\E c \in Client : OpenSucceeds(t, c))
             \/ Relock(t) \/ TimesOut(t) \/ Expire(t) \/ WakeSpuriously(t)
      PROVE  idle' = << >>
  BY <1>5 DEF CheckPasses, OpenFails, OpenSucceeds, Relock, TimesOut, Expire,
     WakeSpuriously
<1>. QED
  BY <1>1, <1>2, <1>3, <1>4, <1>5 DEF Insider

\* A sequence of nothing is empty.
LEMMA NoneIsEmpty ==
  ASSUME NEW s \in Seq(Conn), Range(s) = {}
  PROVE  s = << >>
<1>1. Len(s) \in Nat /\ DOMAIN s = 1..Len(s)
  BY LenProperties
<1>2. Len(s) = 0
  <2>1. \A i \in 1..Len(s) : s[i] \in Range(s)
    BY <1>1 DEF Range
  <2>. QED
    BY <1>1, <2>1
<1>. QED
  BY <1>2, EmptySeq

LEMMA SweptStep ==
  ASSUME "open" \notin Faults, IInv, Swept, Steps
  PROVE  Swept'
<1>. USE DEF conns, calls, admins, vars
<1>a. /\ TypeOK /\ Placed /\ closed \in BOOLEAN /\ inits \in Nat
  BY PlacedIsOnePlace, InitsAssumption DEF IInv, TypeOK
<1>b. /\ closed /\ admin # "winding" => idle = << >>
      /\ admin \in {"filling", "opening"} => url # 0 /\ ~closed
      /\ admin = "closing" => inits >= 1
      /\ admin = "opening" => initUrl # 0
  BY DEF Swept
<1>1. ASSUME \/ \E t \in Thread, how \in Patience : Acquire(t, how)
             \/ \E j \in Job : Submit(j) \/ LaunchFails(j) \/ Leave(j)
             \/ \E t \in Thread : Insider(t)
      PROVE  Swept'
  <2>1. UNCHANGED <<closed, url, admin, initUrl, inits>>
    <3>1. ASSUME NEW t \in Thread, NEW how \in Patience, Acquire(t, how)
          PROVE  UNCHANGED <<closed, url, admin, initUrl, inits>>
      BY <3>1 DEF Acquire
    <3>2. ASSUME NEW j \in Job, Submit(j) \/ LaunchFails(j) \/ Leave(j)
          PROVE  UNCHANGED <<closed, url, admin, initUrl, inits>>
      BY <3>2 DEF Submit, LaunchFails, Leave
    <3>. QED
      BY <1>1, <3>1, <3>2, InsiderStep
  <2>2. closed /\ idle = << >> => idle' = << >>
    BY <1>1, EmptyStays
  <2>. QED
    BY <1>b, <2>1, <2>2 DEF Swept
<1>2. ASSUME Close \/ InitCloses
      PROVE  Swept'
  <2>1. idle' = << >> /\ admin' \in {"idle", "closing"}
    BY <1>2 DEF Close, InitCloses, CloseBody
  <2>2. admin' = "closing" => inits' = inits + 1
    BY <1>2 DEF Close, InitCloses
  <2>. QED
    BY <1>a, <2>1, <2>2 DEF Swept
<1>3. CASE InitSets
  <2>1. /\ admin = "closing" /\ url' = inits /\ closed' = FALSE
        /\ admin' \in {"idle", "filling"}
    BY <1>3 DEF InitSets
  <2>2. url' # 0
    BY <1>a, <1>b, <2>1
  <2>. QED
    BY <2>1, <2>2 DEF Swept
<1>4. CASE InitReserves
  <2>1. /\ admin = "filling" /\ admin' = "opening" /\ initUrl' = url
        /\ UNCHANGED <<closed, url>>
    BY <1>4 DEF InitReserves
  <2>. QED
    BY <1>b, <2>1 DEF Swept
<1>5. ASSUME NEW c \in Client, InitOpens(c)
      PROVE  Swept'
  <2>1. /\ admin = "opening" /\ admin' \in {"idle", "filling"}
        /\ UNCHANGED <<closed, url>>
    BY <1>5 DEF InitOpens
  <2>. QED
    BY <1>b, <2>1 DEF Swept
<1>6. ~InitFails
  BY <1>b DEF InitFails
<1>7. CASE CloseIdle
  <2>1. PICK k \in Prunable(owned, idle) : idle' = Rest(idle, k)
    BY <1>7 DEF CloseIdle
  <2>2. UNCHANGED <<closed, url, admin, initUrl, inits>>
    BY <1>7 DEF CloseIdle
  <2>3. idle = << >> => idle' = << >>
    <3>1. Range(<< >>) = {}
      BY DEF Range
    <3>2. idle = << >> => Range(idle') = {} /\ idle' \in Seq(Conn)
      BY <1>a, <2>1, <3>1, PruneEffect
    <3>. QED
      BY <3>2, NoneIsEmpty
  <2>. QED
    BY <1>b, <2>2, <2>3 DEF Swept
<1>8. CASE Destroy
  <2>1. admin' = "winding"
    BY <1>8 DEF Destroy
  <2>. QED
    BY <2>1 DEF Swept
<1>9. CASE Destroyed
  <2>1. admin' = "gone" /\ idle' = << >>
    BY <1>9 DEF Destroyed
  <2>. QED
    BY <2>1 DEF Swept
<1>10. CASE UNCHANGED vars
  BY <1>b, <1>10 DEF Swept
<1>. QED
  BY <1>1, <1>2, <1>3, <1>4, <1>5, <1>6, <1>7, <1>8, <1>9, <1>10, ByActor

\* Once a closed pool is left alone nothing of it remains, if no open() of
\* init() fails; init() may run while other threads use the pool.
THEOREM CloseCorrect ==
  ASSUME "open" \notin Faults
  PROVE  Spec => []NothingOutlivesClose
<1>1. Init => Swept
  BY DEF Init, Swept
<1>2. IInv /\ Swept /\ [Next]_vars => Swept'
  BY NextIsSteps, SweptStep
<1>3. IInv /\ Swept => NothingOutlivesClose
  <2>. SUFFICES ASSUME IInv, Swept, closed, admin \in {"idle", "gone"},
                       \A t \in Thread : ~HasClient(t)
                PROVE  owned = {}
    BY DEF NothingOutlivesClose
  <2>1. Range(idle) = {} /\ Borrowers(pc) = {}
    BY DEF Swept, Borrowers, HasClient, Range
  <2>. QED
    BY <2>1, PlacedIsOnePlace DEF IInv, Placed, Lent
<1>. QED
  BY <1>1, <1>2, <1>3, Invariance, PTL DEF Spec

-----------------------------------------------------------------------------
(* No wakeup is lost.                                                        *)

\* As many threads have a connection as connections are with threads.
LEMMA LentCount ==
  ASSUME IInv
  PROVE  /\ Cardinality(owned \ Range(idle)) = Cardinality(Borrowers(pc))
         /\ Cardinality(Borrowers(pc)) \in Nat
<1>. DEFINE S == Borrowers(pc)
            T == owned \ Range(idle)
            f == [t \in S |-> client[t]]
<1>1. /\ \A t, u \in S : client[t] = client[u] => t = u
      /\ {client[t] : t \in S} = T
  BY PlacedIsOnePlace DEF IInv, Placed, Lent
<1>2. IsFiniteSet(S) /\ Cardinality(S) \in Nat
  <2>1. S \in SUBSET Thread
    BY DEF Borrowers
  <2>. QED
    BY <2>1, SetsFinite
<1>3. f \in Bijection(S, T)
  <2>1. f \in [S -> T] /\ IsInjective(f)
    BY <1>1 DEF IsInjective
  <2>2. \A c \in T : \E t \in S : f[t] = c
    BY <1>1
  <2>. QED
    BY <2>1, <2>2 DEF Bijection, Injection, Surjection
<1>4. ExistsBijection(S, T)
  BY <1>3 DEF ExistsBijection
<1>5. Cardinality(T) = Cardinality(S)
  BY <1>2, <1>4, FS_Bijection
<1>. QED
  BY <1>2, <1>5

\* Those who have a connection or open one are all of the pool that is in use.
LEMMA InUse ==
  ASSUME IInv
  PROVE  /\ Cardinality(Borrowers(pc) \cup Openers(pc)) =
              Cardinality(owned \ Range(idle)) + Cardinality(Openers(pc))
         /\ Cardinality(owned \ Range(idle)) \in Nat
         /\ Cardinality(Openers(pc)) \in Nat
<1>1. /\ IsFiniteSet(Borrowers(pc)) /\ IsFiniteSet(Openers(pc))
      /\ Cardinality(Openers(pc)) \in Nat
  <2>1. Borrowers(pc) \in SUBSET Thread /\ Openers(pc) \in SUBSET Thread
    BY DEF Borrowers, Openers
  <2>. QED
    BY <2>1, SetsFinite
<1>2. Borrowers(pc) \cap Openers(pc) = {}
  BY DEF Borrowers, Openers
<1>3. Cardinality(Borrowers(pc) \cup Openers(pc)) =
        Cardinality(Borrowers(pc)) + Cardinality(Openers(pc))
          - Cardinality(Borrowers(pc) \cap Openers(pc))
  BY <1>1, FS_Union
<1>4. Cardinality(Borrowers(pc) \cap Openers(pc)) = 0
  BY <1>2, FS_EmptySet
<1>. QED
  BY <1>1, <1>3, <1>4, LentCount

LEMMA BusyFinite ==
  \A p : /\ IsFiniteSet(Busy(p)) /\ Cardinality(Busy(p)) \in Nat
         /\ \A S \in SUBSET Busy(p) :
              Cardinality(S) \in Nat /\ Cardinality(S) <= Cardinality(Busy(p))
<1>. SUFFICES ASSUME NEW p
              PROVE  /\ IsFiniteSet(Busy(p)) /\ Cardinality(Busy(p)) \in Nat
                     /\ \A S \in SUBSET Busy(p) :
                          /\ Cardinality(S) \in Nat
                          /\ Cardinality(S) <= Cardinality(Busy(p))
  OBVIOUS
<1>1. Busy(p) \in SUBSET Thread
  BY DEF Busy
<1>2. IsFiniteSet(Busy(p)) /\ Cardinality(Busy(p)) \in Nat
  BY <1>1, SetsFinite
<1>. QED
  BY <1>2, FS_Subset, FS_CardinalityType

\* Nobody waits with a deadline.
Untimed == \A t \in Thread : wait[t] # "timed" /\ pc[t] # "late"

LEMMA UntimedStep ==
  ASSUME "timed" \notin Patience, IInv, Untimed, Steps
  PROVE  Untimed'
<1>. USE DEF conns, calls, admins, vars
<1>a. /\ TypeOK /\ pc \in [Thread -> At]
      /\ wait \in [Thread -> {"try", "timed", "forever"}]
  BY DEF IInv, TypeOK
\* A thread goes anywhere but past its deadline.
<1>b. ASSUME NEW t \in Thread, NEW to \in At \ {"late"}, MovesTo(t, to),
             \/ wait' = wait
             \/ \E how \in {"try", "forever"} : wait' = [wait EXCEPT ![t] = how]
      PROVE  Untimed'
  <2>1. \A u \in Thread \ {t} : pc'[u] = pc[u] \/ pc'[u] = "woken"
    BY <1>a, <1>b, MoveCounts
  <2>2. pc'[t] = to \/ pc'[t] = "woken"
    BY <1>a, <1>b DEF MovesTo, Wakes, Move
  <2>3. \A u \in Thread : wait'[u] # "timed"
    BY <1>a, <1>b DEF Untimed
  <2>. QED
    BY <1>b, <2>1, <2>2, <2>3 DEF Untimed
<1>c. \A t \in Thread : Away(t) \in At \ {"late"}
  BY DEF Away, At
<1>1. ASSUME NEW t \in Thread, NEW how \in Patience, Acquire(t, how),
             NEW to \in {Away(t), "head"}, MovesTo(t, to)
      PROVE  Untimed'
  <2>1. wait' = wait \/ wait' = [wait EXCEPT ![t] = how]
    BY <1>1 DEF Acquire
  <2>2. how \in {"try", "forever"}
    BY PatienceAssumption
  <2>3. to \in At \ {"late"}
    BY <1>c DEF At
  <2>. QED
    BY <1>b, <1>1, <2>1, <2>2, <2>3
<1>2. ASSUME NEW j \in Job, NEW to \in {"queued", "ran"}, MovesTo(j, to),
             Submit(j) \/ LaunchFails(j) \/ Leave(j)
      PROVE  Untimed'
  <2>1. wait' = wait
    BY <1>2 DEF Submit, LaunchFails, Leave
  <2>2. to \in At \ {"late"} /\ j \in Thread
    BY DEF At, Thread
  <2>. QED
    BY <1>b, <1>2, <2>1, <2>2
<1>3. ASSUME NEW t \in Thread, NEW k \in Prunable(owned, idle),
             NEW to \in {Away(t), "check", "asleep", "opening"}, MovesTo(t, to),
             TakeIdle(t, k) \/ ReserveOpen(t, k) \/ Full(t, k)
      PROVE  Untimed'
  <2>1. wait' = wait
    BY <1>3 DEF TakeIdle, ReserveOpen, Full
  <2>2. to \in At \ {"late"}
    BY <1>c DEF At
  <2>. QED
    BY <1>b, <1>3, <2>1, <2>2
<1>4. ASSUME NEW t \in Thread, NEW to \in {"held", "head", "woken", Away(t)},
             MovesTo(t, to),
             \/ CheckPasses(t) \/ CheckFails(t) \/ Relock(t) \/ TimesOut(t)
             \/ WakeSpuriously(t) \/ OpenFails(t)
             \/ (\E bad \in BOOLEAN : GiveBack(t, bad))
             \/ \E c \in Client : OpenSucceeds(t, c)
      PROVE  Untimed'
  <2>1. wait' = wait \/ wait' = [wait EXCEPT ![t] = "try"]
    BY <1>4 DEF CheckPasses, CheckFails, Relock, TimesOut, WakeSpuriously, OpenFails,
       OpenSucceeds, GiveBack, Forget
  <2>2. to \in At \ {"late"}
    BY <1>c DEF At
  <2>. QED
    BY <1>b, <1>4, <2>1, <2>2
<1>5. \A t \in Thread : ~Expire(t)
  BY DEF Expire, Untimed
<1>6. ASSUME Wakes(pc, pc'),
             \/ Close \/ InitCloses \/ InitSets \/ InitReserves \/ InitFails
             \/ (\E c \in Client : InitOpens(c))
             \/ CloseIdle \/ Destroy \/ Destroyed \/ UNCHANGED vars
      PROVE  Untimed'
  <2>1. wait' = wait
    BY <1>6 DEF Close, InitCloses, CloseBody, InitSets, InitReserves, InitFails,
       InitOpens, CloseIdle, Destroy, Destroyed
  <2>. QED
    BY <1>6, <2>1 DEF Untimed, Wakes
<1>. QED
  BY <1>1, <1>2, <1>3, <1>4, <1>5, <1>6, WhoMoves

\* Whoever is at work stays at work when one thread moves, and who is woken
\* goes to work.
LEMMA BusyMoves ==
  ASSUME TypeOK, NEW t \in Thread, NEW to \in At, MovesTo(t, to)
  PROVE  /\ Busy(pc) \ {t} \subseteq Busy(pc')
         /\ to \in {"check", "held", "opening", "woken", "head"} =>
              Busy(pc) \subseteq Busy(pc')
         /\ to # "asleep" => Asleep(pc') \subseteq Asleep(pc)
<1>1. \A u \in Thread \ {t} :
        pc'[u] = pc[u] \/ (pc[u] = "asleep" /\ pc'[u] = "woken")
  BY MoveCounts
<1>2. to # "asleep" => pc'[t] = to
  BY MoveCounts
<1>. QED
  BY <1>1, <1>2 DEF Busy, Asleep

\* A thread that sees no room sees every place in use.
LEMMA FullIsBusy ==
  ASSUME IInv, Alone, NEW t \in Thread, NEW k \in Prunable(owned, idle),
         Full(t, k), pc[t] = "head", NEW to \in At, MovesTo(t, to)
  PROVE  Cardinality(Busy(pc')) >= MaxSize
<1>a. TypeOK /\ Placed /\ opening \in Nat /\ MaxSize \in Nat
  BY PlacedIsOnePlace, SizeAssumption DEF IInv, TypeOK
<1>1. owned \ Cut(idle, k) = owned \ Range(idle)
  <2>1. Rest(idle, k) = << >> /\ Range(<< >>) = {}
    BY DEF Full, Range
  <2>. QED
    BY <1>a, <2>1, PruneEffect
<1>2. ~(Cardinality(owned \ Range(idle)) + opening < MaxSize)
  BY <1>1 DEF Full, Room
<1>3. opening = Cardinality(Openers(pc))
  <2>1. admin # "opening"
    BY DEF Alone, Quiet
  <2>. QED
    BY <2>1, InUse, ReservationsCount DEF IInv
<1>4. Borrowers(pc) \cup Openers(pc) \subseteq Busy(pc')
  <2>1. Borrowers(pc) \cup Openers(pc) \subseteq Busy(pc) \ {t}
    BY DEF Borrowers, Openers, Busy
  <2>. QED
    BY <1>a, <2>1, BusyMoves
<1>5. Cardinality(Borrowers(pc) \cup Openers(pc)) <= Cardinality(Busy(pc'))
  BY <1>4, BusyFinite
<1>. QED
  BY <1>2, <1>3, <1>5, <1>a, InUse, BusyFinite

\* A connection that comes back goes to a sleeper, if there is one: another
\* thread is at work in the place of the one that gave it back.
LEMMA HandsOver ==
  ASSUME TypeOK, NEW t \in Thread, NEW to \in At \ {"asleep"}, MovesTo(t, to),
         pc' \in WakeOne(Move(t, to)) \cup {WakeAll(Move(t, to))}
  PROVE  Asleep(pc') = {} \/ Cardinality(Busy(pc')) >= Cardinality(Busy(pc))
<1>. DEFINE p == Move(t, to)
<1>1. /\ p \in [Thread -> At] /\ p[t] = to
      /\ \A u \in Thread \ {t} : p[u] = pc[u]
  BY DEF TypeOK, Move, MovesTo
<1>. HIDE DEF p
<1>2. CASE pc' = WakeAll(p)
  <2>1. Asleep(pc') = {}
    BY <1>1, <1>2 DEF WakeAll, Asleep
  <2>. QED
    BY <2>1
<1>3. CASE Asleep(p) = {} /\ pc' = p
  BY <1>3
<1>4. ASSUME NEW u \in Asleep(p), pc' = [p EXCEPT ![u] = "woken"]
      PROVE  Cardinality(Busy(pc')) >= Cardinality(Busy(pc))
  <2>1. u \in Thread /\ u # t /\ u \notin Busy(pc)
    BY <1>1 DEF Asleep, Busy
  <2>2. (Busy(pc) \ {t}) \cup {u} \subseteq Busy(pc')
    BY <1>1, <1>4, <2>1 DEF Busy
  <2>3. Busy(pc) \in SUBSET Thread /\ Busy(pc) \ {t} \in SUBSET Thread
    BY DEF Busy
  <2>4. /\ Cardinality((Busy(pc) \ {t}) \cup {u}) = Cardinality(Busy(pc) \ {t}) + 1
        /\ Cardinality(Busy(pc) \ {t}) \in Nat
    BY <2>1, <2>3, CountOne
  <2>5. Cardinality(Busy(pc) \ {t}) >= Cardinality(Busy(pc)) - 1
    <3>1. Cardinality(Busy(pc)) \in Nat
      BY <2>3, CountOne
    <3>2. CASE t \in Busy(pc)
      BY <2>3, <3>1, <3>2, CountOne
    <3>3. CASE t \notin Busy(pc)
      <4>1. Busy(pc) \ {t} = Busy(pc)
        BY <3>3
      <4>. QED
        BY <3>1, <4>1
    <3>. QED
      BY <3>2, <3>3
  <2>6. Cardinality((Busy(pc) \ {t}) \cup {u}) <= Cardinality(Busy(pc'))
    BY <2>2, BusyFinite
  <2>. QED
    BY <2>4, <2>5, <2>6, BusyFinite
<1>. QED
  BY <1>2, <1>3, <1>4 DEF WakeOne, p

LEMMA WatchedStep ==
  ASSUME ~SharedInit, "open" \notin Faults,
         IInv, Alone, Current, Untimed, Watched, Steps
  PROVE  Watched'
<1>. USE DEF conns, calls, admins, vars
<1>a. TypeOK /\ pc \in [Thread -> At] /\ MaxSize \in Nat
  BY SizeAssumption DEF IInv, TypeOK
\* Those at work are not fewer, and nobody falls asleep.
<1>b. ASSUME Asleep(pc') \subseteq Asleep(pc),
             Cardinality(Busy(pc)) <= Cardinality(Busy(pc')), closed' = closed
      PROVE  Watched'
  <2>1. Cardinality(Busy(pc)) \in Nat /\ Cardinality(Busy(pc')) \in Nat
    BY BusyFinite
  <2>2. ~closed' /\ Asleep(pc') # {} => Cardinality(Busy(pc)) >= MaxSize
    BY <1>b DEF Watched
  <2>. QED
    BY <1>a, <1>b, <2>1, <2>2 DEF Watched
<1>c. ASSUME Asleep(pc') \subseteq Asleep(pc), Busy(pc) \subseteq Busy(pc'),
             closed' = closed
      PROVE  Watched'
  BY <1>b, <1>c, BusyFinite
<1>d. ASSUME Asleep(pc') = {} \/ closed'
      PROVE  Watched'
  BY <1>d DEF Watched
<1>1. ASSUME NEW t \in Thread, NEW how \in Patience, Acquire(t, how),
             NEW to \in {Away(t), "head"}, MovesTo(t, to)
      PROVE  Watched'
  <2>1. CASE closed
    BY <1>d, <1>1, <2>1 DEF Acquire
  <2>2. CASE ~closed
    <3>1. pc' = Move(t, "head") /\ closed' = closed
      BY <1>1, <2>2 DEF Acquire
    <3>2. MovesTo(t, "head") /\ "head" \in At
      BY <1>a, <3>1, NotifyWakes DEF MovesTo, Move, At
    <3>. QED
      BY <1>a, <1>c, <3>1, <3>2, BusyMoves
  <2>. QED
    BY <2>1, <2>2
<1>2. ASSUME NEW j \in Job, NEW to \in {"queued", "ran"}, MovesTo(j, to),
             Submit(j) \/ LaunchFails(j) \/ Leave(j)
      PROVE  Watched'
  <2>1. j \notin Busy(pc) /\ closed' = closed
    BY <1>2 DEF Submit, LaunchFails, Leave, Busy
  <2>2. to \in At /\ to # "asleep" /\ j \in Thread
    BY DEF At, Thread
  <2>3. Busy(pc) \subseteq Busy(pc') /\ Asleep(pc') \subseteq Asleep(pc)
    BY <1>a, <1>2, <2>1, <2>2, BusyMoves
  <2>. QED
    BY <1>c, <2>1, <2>3
<1>3. ASSUME NEW t \in Thread, NEW k \in Prunable(owned, idle),
             NEW to \in {"check", "opening"}, MovesTo(t, to),
             TakeIdle(t, k) \/ ReserveOpen(t, k)
      PROVE  Watched'
  <2>1. closed' = closed
    BY <1>3 DEF TakeIdle, ReserveOpen
  <2>. QED
    BY <1>a, <1>c, <1>3, <2>1, BusyMoves DEF At
<1>4. ASSUME NEW t \in Thread, NEW k \in Prunable(owned, idle), pc[t] = "head",
             NEW to \in {Away(t), "asleep"}, MovesTo(t, to), Full(t, k)
      PROVE  Watched'
  <2>1. to \in At
    BY DEF Away, At
  <2>. QED
    BY <1>4, <2>1, FullIsBusy DEF Watched
<1>5. ASSUME NEW t \in Thread, NEW to \in {"held", "head", "woken"}, MovesTo(t, to),
             \/ CheckPasses(t) \/ CheckFails(t) \/ Relock(t) \/ WakeSpuriously(t)
             \/ \E c \in Client : OpenSucceeds(t, c)
      PROVE  Watched'
  <2>1. closed' = closed
    BY <1>5 DEF CheckPasses, CheckFails, Relock, WakeSpuriously, OpenSucceeds
  <2>. QED
    BY <1>a, <1>c, <1>5, <2>1, BusyMoves DEF At
<1>6. ASSUME NEW t \in Thread, OpenFails(t)
      PROVE  Watched'
  <2>1. pc[t] = "opening" /\ from[t] = 0 /\ closed' = closed
    BY <1>6 DEF OpenFails
  <2>2. closed
    BY <2>1 DEF Current
  <2>. QED
    BY <1>d, <2>1, <2>2
<1>7. \A t \in Thread : ~TimesOut(t) /\ ~Expire(t)
  BY DEF TimesOut, Expire, Untimed
<1>8. ASSUME NEW t \in Thread, NEW bad \in BOOLEAN, GiveBack(t, bad),
             MovesTo(t, Away(t))
      PROVE  Watched'
  <2>1. /\ t \in Borrowers(pc) /\ Away(t) \in At /\ Away(t) # "asleep"
        /\ closed' = closed
    BY <1>8 DEF GiveBack, Borrowers, At, Away
  <2>2. pc' \in WakeOne(Move(t, Away(t))) \cup {WakeAll(Move(t, Away(t)))}
    BY <1>8, <2>1, GivenBack DEF GiveBack
  <2>3. Asleep(pc') \subseteq Asleep(pc)
    BY <1>a, <1>8, <2>1, BusyMoves
  <2>4. Asleep(pc') = {} \/ Cardinality(Busy(pc')) >= Cardinality(Busy(pc))
    BY <1>a, <1>8, <2>1, <2>2, HandsOver
  <2>5. Cardinality(Busy(pc)) \in Nat /\ Cardinality(Busy(pc')) \in Nat
    BY BusyFinite
  <2>. QED
    BY <1>b, <1>d, <2>1, <2>3, <2>4, <2>5
<1>9. ASSUME Close \/ InitCloses \/ Destroy \/ InitFails
      PROVE  Watched'
  <2>1. closed' = TRUE
    BY <1>9 DEF Close, InitCloses, CloseBody, Destroy, InitFails
  <2>. QED
    BY <1>d, <2>1
<1>10. ASSUME Wakes(pc, pc'),
              InitSets \/ InitReserves \/ \E c \in Client : InitOpens(c)
       PROVE  Watched'
  <2>1. Quiet(pc)
    BY <1>10 DEF InitSets, InitReserves, InitOpens, Alone
  <2>2. Asleep(pc') = {}
    BY <1>a, <1>10, <2>1, WakesKeep DEF Quiet, Asleep
  <2>. QED
    BY <1>d, <2>2
<1>11. ASSUME CloseIdle \/ Destroyed \/ UNCHANGED vars
       PROVE  Watched'
  <2>1. closed' = closed /\ pc' = pc
    BY <1>11 DEF CloseIdle, Destroyed
  <2>. QED
    BY <1>c, <2>1
<1>. QED
  BY <1>1, <1>2, <1>3, <1>4, <1>5, <1>6, <1>7, <1>8, <1>9, <1>10, <1>11, WhoMoves

\* Somebody sleeps only while there is nothing to have or somebody who will see
\* to it, when nobody waits with a deadline, no open() fails, and nobody uses
\* the pool while init() fills it.  The two first conditions are needed: a
\* thread that gives up, and a failed open(), wake nobody.
THEOREM WakeupCorrect ==
  ASSUME ~SharedInit, "open" \notin Faults, "timed" \notin Patience
  PROVE  Spec => []NoLostWakeup
<1>1. Init => Untimed /\ Watched
  <2>. SUFFICES ASSUME Init
                PROVE  Untimed /\ Watched
    OBVIOUS
  <2>1. \A t \in Thread : wait[t] = "try" /\ pc[t] \in {"out", "none"}
    BY DEF Init
  <2>2. closed
    BY DEF Init
  <2>. QED
    BY <2>1, <2>2 DEF Untimed, Watched
<1>2. IInv /\ AInv /\ Untimed /\ Watched /\ [Next]_vars => Untimed' /\ Watched'
  BY NextIsSteps, UntimedStep, WatchedStep DEF AInv
<1>3. IInv /\ AInv /\ Watched => NoLostWakeup
  <2>. SUFFICES ASSUME IInv, AInv, Watched, ~closed, Asleep(pc) # {},
                       \A t \in Thread : pc[t] \notin {"woken", "head"}
                PROVE  idle = << >> /\ ~Room(owned)
    BY DEF NoLostWakeup
  <2>a. /\ TypeOK /\ Placed /\ opening \in Nat /\ MaxSize \in Nat
        /\ IsFiniteSet(owned) /\ Cardinality(owned) \in Nat
    BY PlacedIsOnePlace, SizeAssumption, OwnedFinite DEF IInv, TypeOK
  <2>1. Busy(pc) = Borrowers(pc) \cup Openers(pc)
    BY DEF Busy, Borrowers, Openers
  <2>2. Cardinality(Busy(pc)) >= MaxSize
    BY DEF Watched
  <2>3. Cardinality(owned \ Range(idle)) + Cardinality(Openers(pc)) >= MaxSize
    BY <2>1, <2>2, InUse
  <2>4. opening >= Cardinality(Openers(pc))
    BY InUse, ReservationsCount DEF IInv
  <2>5. Cardinality(owned) + opening <= MaxSize
    BY DEF AInv, Cap
  <2>6. Cardinality(owned \ Range(idle)) <= Cardinality(owned)
    BY <2>a, OwnedFinite
  <2>7. Cardinality(owned \ Range(idle)) = Cardinality(owned)
    BY <2>a, <2>3, <2>4, <2>5, <2>6, InUse
  <2>8. Range(idle) = {}
    BY <2>a, <2>7, FS_Subset DEF Placed
  <2>9. idle = << >>
    BY <2>8, <2>a, NoneIsEmpty DEF TypeOK
  <2>. QED
    BY <2>a, <2>3, <2>4, <2>6, <2>9, InUse DEF Room
<1>. QED
  BY <1>1, <1>2, <1>3, Invariance, AInvariance, PTL DEF Spec


-----------------------------------------------------------------------------
(* Borrowing implements the leases.                                          *)

\* Who has what, when threads are where p says: what stands for lent.
Leased(p, cl) == {L!Lease(t, cl[t]) : t \in Borrowers(p)}

LEMMA LeasedStep ==
  ASSUME L!Stock,
         \/ Leased(pc', client') = Leased(pc, client)
         \/ \E t \in Thread, c \in Conn :
              /\ \A u \in Borrowers(pc) : u # t /\ client[u] # c
              /\ Leased(pc', client') = Leased(pc, client) \cup {L!Lease(t, c)}
         \/ \E t \in Thread, c \in Conn :
              /\ L!Lease(t, c) \in Leased(pc, client)
              /\ Leased(pc', client') = Leased(pc, client) \ {L!Lease(t, c)}
  PROVE  L!Next
<1>. DEFINE now == {[holder |-> t, conn |-> client[t]] :
                      t \in {u \in Thread : HasClient(u)}}
<1>1. now = Leased(pc, client) /\ now' = Leased(pc', client')
  BY DEF Leased, Borrowers, HasClient, L!Lease
<1>2. CASE now' = now
  BY <1>2 DEF L!Next, L!Restock
<1>3. ASSUME NEW t \in Thread, NEW c \in Conn,
             \A u \in Borrowers(pc) : u # t /\ client[u] # c,
             now' = now \cup {L!Lease(t, c)}
      PROVE  L!Next
  <2>1. \A x \in now : x.holder # t /\ x.conn # c
    BY <1>1, <1>3 DEF Leased, L!Lease
  <2>2. L!Lend(t, c)
    BY <1>3, <2>1 DEF L!Lend
  <2>. QED
    BY <2>2 DEF L!Next
<1>4. ASSUME NEW t \in Thread, NEW c \in Conn,
             L!Lease(t, c) \in now, now' = now \ {L!Lease(t, c)}
      PROVE  L!Next
  <2>1. L!GiveBack(t, c)
    BY <1>4 DEF L!GiveBack
  <2>. QED
    BY <2>1 DEF L!Next
<1>. HIDE DEF now
<1>. QED
  BY <1>1, <1>2, <1>3, <1>4

LEMMA StepRefines == IInv /\ IInv' /\ Steps => [L!Next]_(L!vars)
<1>. SUFFICES ASSUME IInv, IInv', Steps
              PROVE  L!Next
  OBVIOUS
<1>. USE DEF conns, calls, admins, vars
<1>a. /\ pc \in [Thread -> At] /\ client \in [Thread -> Conn \cup {NoClient}]
      /\ \A t \in Thread : pc[t] = "head" <=> mu = t
      /\ \A t \in Borrowers(pc) : client[t] \in Conn
      /\ \A t, u \in Borrowers(pc) : client[t] = client[u] => t = u
  BY DEF IInv, TypeOK, OnePlace, Borrowers, HasClient
<1>b. /\ owned' \subseteq Conn
      /\ \A t \in Borrowers(pc') : client'[t] \in owned'
      /\ \A t, u \in Borrowers(pc') : client'[t] = client'[u] => t = u
  BY DEF IInv, TypeOK, OnePlace, Borrowers, HasClient
<1>s. L!Stock
  BY <1>b DEF L!Stock, Borrowers, HasClient
\* Nobody gets or gives up anything.
<1>k. ASSUME Borrowers(pc') = Borrowers(pc),
             \A t \in Borrowers(pc) : client'[t] = client[t]
      PROVE  L!Next
  <2>1. Leased(pc', client') = Leased(pc, client)
    BY <1>k DEF Leased
  <2>. QED
    BY <1>s, <2>1, LeasedStep
<1>l. ASSUME NEW t \in Thread, t \notin Borrowers(pc),
             Borrowers(pc') = Borrowers(pc) \cup {t},
             \A u \in Borrowers(pc) : client'[u] = client[u]
      PROVE  L!Next
  <2>. DEFINE c == client'[t]
  <2>1. c \in Conn
    BY <1>b, <1>l
  <2>2. \A u \in Borrowers(pc) : u # t /\ client[u] # c
    BY <1>b, <1>l
  <2>3. Leased(pc', client') = Leased(pc, client) \cup {L!Lease(t, c)}
    BY <1>l DEF Leased
  <2>. HIDE DEF c
  <2>. QED
    BY <1>s, <2>1, <2>2, <2>3, LeasedStep
<1>g. ASSUME NEW t \in Borrowers(pc), Borrowers(pc') = Borrowers(pc) \ {t},
             \A u \in Borrowers(pc) \ {t} : client'[u] = client[u]
      PROVE  L!Next
  <2>. DEFINE c == client[t]
  <2>1. t \in Thread /\ c \in Conn
    BY <1>a DEF Borrowers
  <2>2. L!Lease(t, c) \in Leased(pc, client)
    BY DEF Leased
  <2>3. \A u \in Borrowers(pc) \ {t} : L!Lease(u, client[u]) # L!Lease(t, c)
    BY DEF L!Lease
  <2>4. Leased(pc', client') = Leased(pc, client) \ {L!Lease(t, c)}
    BY <1>g, <2>3 DEF Leased
  <2>. HIDE DEF c
  <2>. QED
    BY <1>s, <2>1, <2>2, <2>4, LeasedStep
\* A thread moves on and keeps what it has.
<1>m. ASSUME NEW t \in Thread, NEW to \in At, MovesTo(t, to), UNCHANGED client,
             to \in {"check", "held"} <=> pc[t] \in {"check", "held"}
      PROVE  L!Next
  <2>1. Borrowers(Move(t, to)) = Borrowers(pc)
    BY <1>a, <1>m DEF Borrowers, Move
  <2>2. Borrowers(pc') = Borrowers(pc)
    BY <1>m, <2>1, WakesKeep DEF MovesTo
  <2>. QED
    BY <1>k, <1>m, <2>2
\* A thread moves on and is given a connection, or gives its own up.
<1>n. ASSUME NEW t \in Thread, NEW to \in At, MovesTo(t, to), NEW c,
             client' = [client EXCEPT ![t] = c],
             to \in {"check", "held"} <=> pc[t] \notin {"check", "held"}
      PROVE  L!Next
  <2>1. \A u \in Thread \ {t} : client'[u] = client[u]
    BY <1>a, <1>n
  <2>2. Borrowers(Move(t, to)) = IF to \in {"check", "held"}
                                 THEN Borrowers(pc) \cup {t} ELSE Borrowers(pc) \ {t}
    BY <1>a, <1>n DEF Borrowers, Move
  <2>3. Borrowers(pc') = Borrowers(Move(t, to))
    BY <1>n, WakesKeep DEF MovesTo
  <2>4. Borrowers(pc) \subseteq Thread
    BY DEF Borrowers
  <2>5. CASE to \in {"check", "held"}
    <3>1. t \notin Borrowers(pc) /\ Borrowers(pc') = Borrowers(pc) \cup {t}
      BY <1>n, <2>2, <2>3, <2>5 DEF Borrowers
    <3>. QED
      BY <1>l, <2>1, <2>4, <3>1
  <2>6. CASE to \notin {"check", "held"}
    <3>1. t \in Borrowers(pc) /\ Borrowers(pc') = Borrowers(pc) \ {t}
      BY <1>n, <2>2, <2>3, <2>6 DEF Borrowers
    <3>. QED
      BY <1>g, <2>1, <2>4, <3>1
  <2>. QED
    BY <2>5, <2>6
<1>c. \A t \in Thread : Away(t) \in At /\ Away(t) \notin {"check", "held"}
  BY DEF Away, At
<1>1. ASSUME NEW t \in Thread, NEW how \in Patience, Acquire(t, how),
             NEW to \in {Away(t), "head"}, MovesTo(t, to)
      PROVE  L!Next
  <2>1. to \in At /\ to \notin {"check", "held"}
    BY <1>c DEF At
  <2>2. UNCHANGED client /\ pc[t] \notin {"check", "held"}
    BY <1>1 DEF Acquire
  <2>. QED
    BY <1>1, <1>m, <2>1, <2>2
<1>2. ASSUME NEW j \in Job, NEW to \in {"queued", "ran"}, MovesTo(j, to),
             Submit(j) \/ LaunchFails(j) \/ Leave(j)
      PROVE  L!Next
  <2>1. to \in At /\ to \notin {"check", "held"} /\ j \in Thread
    BY DEF At, Thread
  <2>2. UNCHANGED client /\ pc[j] \notin {"check", "held"}
    BY <1>2 DEF Submit, LaunchFails, Leave
  <2>. QED
    BY <1>2, <1>m, <2>1, <2>2
<1>3. ASSUME NEW t \in Thread, NEW k \in Prunable(owned, idle),
             TakeIdle(t, k), pc[t] = "head", MovesTo(t, "check")
      PROVE  L!Next
  <2>1. client' = [client EXCEPT ![t] = idle[Len(idle)]]
    BY <1>3 DEF TakeIdle
  <2>. QED
    BY <1>3, <1>n, <2>1 DEF At
<1>4. ASSUME NEW t \in Thread, NEW k \in Prunable(owned, idle), pc[t] = "head",
             NEW to \in {"opening", "asleep", Away(t)}, MovesTo(t, to),
             ReserveOpen(t, k) \/ Full(t, k)
      PROVE  L!Next
  <2>1. to \in At /\ to \notin {"check", "held"}
    BY <1>c DEF At
  <2>2. UNCHANGED client
    BY <1>4 DEF ReserveOpen, Full
  <2>. QED
    BY <1>4, <1>m, <2>1, <2>2
<1>5. ASSUME NEW t \in Thread, CheckPasses(t), MovesTo(t, "held")
      PROVE  L!Next
  BY <1>5, <1>m DEF CheckPasses, At
<1>6. ASSUME NEW t \in Thread, CheckFails(t), MovesTo(t, "head")
      PROVE  L!Next
  BY <1>6, <1>n DEF CheckFails, At
<1>7. ASSUME NEW t \in Thread, NEW c \in Client, OpenSucceeds(t, c), MovesTo(t, "held")
      PROVE  L!Next
  <2>1. client' = [client EXCEPT ![t] = <<c, from[t]>>] /\ pc[t] = "opening"
    BY <1>7 DEF OpenSucceeds
  <2>. QED
    BY <1>7, <1>n, <2>1 DEF At
<1>8. ASSUME NEW t \in Thread, NEW to \in {Away(t), "head", "late", "woken"},
             MovesTo(t, to),
             \/ OpenFails(t) \/ Relock(t) \/ TimesOut(t) \/ Expire(t)
             \/ WakeSpuriously(t)
      PROVE  L!Next
  <2>1. to \in At /\ to \notin {"check", "held"}
    BY <1>c DEF At
  <2>2. UNCHANGED client /\ pc[t] \notin {"check", "held"}
    BY <1>8 DEF OpenFails, Relock, TimesOut, Expire, WakeSpuriously
  <2>. QED
    BY <1>8, <1>m, <2>1, <2>2
<1>9. ASSUME NEW t \in Thread, NEW bad \in BOOLEAN, GiveBack(t, bad),
             MovesTo(t, Away(t))
      PROVE  L!Next
  <2>1. client' = [client EXCEPT ![t] = NoClient] /\ pc[t] = "held"
    BY <1>9 DEF GiveBack
  <2>. QED
    BY <1>9, <1>c, <1>n, <2>1
<1>10. ASSUME Wakes(pc, pc'),
              \/ Close \/ InitCloses \/ InitSets \/ InitReserves \/ InitFails
              \/ (\E c \in Client : InitOpens(c))
              \/ CloseIdle \/ Destroy \/ Destroyed \/ UNCHANGED vars
       PROVE  L!Next
  <2>1. UNCHANGED client
    BY <1>10 DEF Close, InitCloses, CloseBody, InitSets, InitReserves, InitFails,
       InitOpens, CloseIdle, Destroy, Destroyed
  <2>. QED
    BY <1>a, <1>10, <1>k, <2>1, WakesKeep
<1>. QED
  BY <1>1, <1>2, <1>3, <1>4, <1>5, <1>6, <1>7, <1>8, <1>9, <1>10, WhoMoves

\* The pool implements the leases, for any threads, sizes and faults: whoever
\* borrowed a connection has it, alone and alive, until he gives it back.
THEOREM ImplementsCorrect == Spec => Implements
<1>1. Init => L!Init
  BY EmptySeq DEF Init, L!Init, HasClient
<1>2. IInv /\ IInv' /\ [Next]_vars => [L!Next]_(L!vars)
  BY NextIsSteps, StepRefines
<1>. QED
  BY <1>1, <1>2, Invariance, PTL DEF Spec, Implements, L!Spec
=============================================================================
