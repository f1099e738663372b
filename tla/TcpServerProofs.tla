-------------------------- MODULE TcpServerProofs --------------------------
(***************************************************************************)
(* Proofs about the connections of the TCP server: their types, that a     *)
(* socket is closed once, that a client has one owner and a way out of the *)
(* registry, that no close callback comes for a deleted client, and that   *)
(* nothing is left when a work loop or the server is gone.                 *)
(*                                                                         *)
(* One inductive invariant serves them all.  It holds with every case of   *)
(* May; its parts that a case breaks are conditional on its absence, so    *)
(* each theorem excludes the cases that break its own property and no      *)
(* other.                                                                  *)
(***************************************************************************)
EXTENDS TcpServer, SequenceTheorems, TLAPS

\* No case that closes a handle twice, that deletes a client under its new
\* owner, or that deletes one whose close callback is still to come.
ClosesOnce == "closeThrow" \notin May
TakesForGood == May \cap {"takeInside", "takeAnywhere", "lateTake"} = {}
DeletesLast == May \cap {"closeInside", "returnClosing", "timeoutClosing"} = {}

Owner(c) == IF c \in reg THEN "server" ELSE IF c \in mine THEN "user" ELSE "nobody"

\* What the handle, the object and the owner of a connection say about each
\* other.
Sound(r, owner) ==
  /\ r \in ConnState
  /\ r.obj \in {"none", "socket"} =>
       /\ r.hdl = "none" /\ r.slot = "none" /\ ~r.mgr /\ r.shut = 0
       /\ ~r.taker /\ owner = "nobody"
  /\ r.obj = "alive" => r.hdl # "none" /\ (owner # "nobody" \/ r.taker)
  /\ r.hdl = "open" => r.obj = "alive" /\ r.slot = "none" /\ r.shut = 0
  /\ owner = "server" => r.obj = "alive" /\ (r.mgr <=> r.slot # "error")
  /\ owner = "user" => ~r.mgr
  /\ r.mgr => r.slot # "error"
  /\ r.taker => owner = "nobody"
  /\ ClosesOnce /\ r.obj \notin {"none", "socket"} /\ r.hdl # "open" => r.shut = 1
  /\ TakesForGood =>
       ~r.taker /\ (owner = "user" => r.obj = "alive" /\ r.slot # "error")
  /\ DeletesLast /\ r.hdl = "closing" /\ r.slot \in {"client", "error"} =>
       r.obj = "alive"

AllSound ==
  /\ reg \subseteq Conn /\ mine \subseteq Conn /\ reg \cap mine = {}
  /\ conn \in [Conn -> ConnState]
  /\ \A c \in Conn : Sound(conn[c], Owner(c))

Carries(w, i, c) == box[w][i] = <<"hand", c>>

\* A connection in a mailbox is a socket on its way to that loop, and is
\* there once.  The loop still runs.
InTransit ==
  /\ \A w \in Worker, c \in Conn : \A i \in 1..Len(box[w]) :
       Carries(w, i, c) =>
         /\ conn[c].obj = "socket" /\ conn[c].home = w
         /\ \A j \in 1..Len(box[w]) : Carries(w, j, c) => j = i
  /\ \A c \in Conn : conn[c].obj = "socket" =>
       conn[c].home \in Worker /\ wk[conn[c].home] = "run"

\* What the exit hook and the pumping after it have achieved.
ExitHookWorks ==
  \A w \in Worker :
    /\ w \in scanning => wk[w] \in {"run", "hook"}
    /\ w \in lsn => wk[w] \in {"run", "quit"}
    /\ \A c \in Conn : conn[c].home = w =>
         /\ wk[w] = "hook" /\ c \in reg /\ conn[c].hdl = "open" => c \in scan[w]
         /\ wk[w] \in {"pump", "gone"} /\ c \in reg => conn[c].hdl # "open"
         /\ wk[w] = "gone" => conn[c].hdl # "closing"

\* After the destructor.
AllGone ==
  srv = "gone" =>
    /\ lsn = {} /\ reg = {} /\ scanning \subseteq {Acceptor}
    /\ \A w \in Worker : wk[w] = "gone"
    /\ \A c \in Conn : conn[c].hdl # "closing"

IInv == TypeOK /\ AllSound /\ InTransit /\ ExitHookWorks /\ AllGone

-----------------------------------------------------------------------------
(* Updated records.  The fields told and eof matter to no invariant.         *)

Slots == {"none", "client", "error", "user", "reclaim"}
Handles == {"none", "open", "closing", "closed"}

\* r differs from s in what the arguments say.
Like(r, s, obj, hdl, slot, mgr, shut) ==
  /\ r \in ConnState /\ r.home = s.home
  /\ r.obj = obj /\ r.hdl = hdl /\ r.slot = slot /\ r.mgr = mgr /\ r.shut = shut
  /\ r.taker = s.taker

\* One field, or two that change together.
LEMMA SetField ==
  ASSUME NEW r \in ConnState
  PROVE  /\ \A v \in Handles : Like([r EXCEPT !.hdl = v], r, r.obj, v, r.slot, r.mgr, r.shut)
         /\ \A v \in Slots : Like([r EXCEPT !.slot = v], r, r.obj, r.hdl, v, r.mgr, r.shut)
         /\ \A v \in BOOLEAN : Like([r EXCEPT !.mgr = v], r, r.obj, r.hdl, r.slot, v, r.shut)
         /\ \A v \in BOOLEAN : Like([r EXCEPT !.told = v], r, r.obj, r.hdl, r.slot, r.mgr, r.shut)
         /\ \A v \in {"no", "fin", "error"} :
              Like([r EXCEPT !.eof = v], r, r.obj, r.hdl, r.slot, r.mgr, r.shut)
         /\ \A v \in {"none", "socket", "alive", "freed"} :
              Like([r EXCEPT !.obj = v], r, v, r.hdl, r.slot, r.mgr, r.shut)
         /\ \A v \in 0..2 : Like([r EXCEPT !.shut = v], r, r.obj, r.hdl, r.slot, r.mgr, v)
<1>. USE DEF Like, ConnState, Slots, Handles
<1>1. \A v \in Handles : Like([r EXCEPT !.hdl = v], r, r.obj, v, r.slot, r.mgr, r.shut)
  OBVIOUS
<1>2. \A v \in Slots : Like([r EXCEPT !.slot = v], r, r.obj, r.hdl, v, r.mgr, r.shut)
  OBVIOUS
<1>3. \A v \in BOOLEAN : Like([r EXCEPT !.mgr = v], r, r.obj, r.hdl, r.slot, v, r.shut)
  OBVIOUS
<1>4. \A v \in BOOLEAN : Like([r EXCEPT !.told = v], r, r.obj, r.hdl, r.slot, r.mgr, r.shut)
  OBVIOUS
<1>5. \A v \in {"no", "fin", "error"} :
        Like([r EXCEPT !.eof = v], r, r.obj, r.hdl, r.slot, r.mgr, r.shut)
  OBVIOUS
<1>6. \A v \in {"none", "socket", "alive", "freed"} :
        Like([r EXCEPT !.obj = v], r, v, r.hdl, r.slot, r.mgr, r.shut)
  OBVIOUS
<1>7. \A v \in 0..2 : Like([r EXCEPT !.shut = v], r, r.obj, r.hdl, r.slot, r.mgr, v)
  OBVIOUS
<1>. QED
  BY <1>1, <1>2, <1>3, <1>4, <1>5, <1>6, <1>7

\* uv_close.
LEMMA ClosingFields ==
  ASSUME NEW r \in ConnState, NEW who \in Slots, r.shut \in 0..1
  PROVE  Like(Closing(r, who), r, r.obj, "closing", who, r.mgr, r.shut + 1)
<1>. DEFINE r1 == [r EXCEPT !.hdl = "closing"]
            r2 == [r1 EXCEPT !.slot = who]
            r3 == [r2 EXCEPT !.shut = r.shut + 1]
            r4 == [r2 EXCEPT !.shut = @ + 1]
<1>1. Like(r1, r, r.obj, "closing", r.slot, r.mgr, r.shut)
  BY SetField DEF Handles
<1>. HIDE DEF r1
<1>2. Like(r2, r, r.obj, "closing", who, r.mgr, r.shut)
  <2>1. r1 \in ConnState
    BY <1>1 DEF Like
  <2>2. Like(r2, r1, r1.obj, r1.hdl, who, r1.mgr, r1.shut)
    BY <2>1, SetField
  <2>. QED
    BY <1>1, <2>2 DEF Like
<1>. HIDE DEF r2
<1>3. Like(r3, r, r.obj, "closing", who, r.mgr, r.shut + 1)
  <2>1. r2 \in ConnState
    BY <1>2 DEF Like
  <2>2. Like(r3, r2, r2.obj, r2.hdl, r2.slot, r2.mgr, r.shut + 1)
    BY <2>1 DEF Like, ConnState
  <2>. QED
    BY <1>2, <2>2 DEF Like
<1>4. r4 = r3
  BY <1>2 DEF Like
<1>5. Closing(r, who) = r4
  BY DEF Closing, r4, r2, r1
<1>. QED
  BY <1>3, <1>4, <1>5

\* ~uvcpp_tcp_client().
LEMMA DeletedFields ==
  ASSUME NEW r \in ConnState, r.hdl = "open" => r.shut = 0
  PROVE  IF r.hdl = "open"
         THEN Like(Deleted(r), r, "freed", "closing", "reclaim", FALSE, 1)
         ELSE Like(Deleted(r), r, "freed", r.hdl, r.slot, FALSE, r.shut)
<1>. DEFINE s == IF r.hdl = "open" THEN Closing(r, "reclaim") ELSE r
            s1 == [s EXCEPT !.obj = "freed"]
            s2 == [s1 EXCEPT !.mgr = FALSE]
            s3 == [s2 EXCEPT !.told = FALSE]
            s4 == [s3 EXCEPT !.eof = "no"]
<1>1. Deleted(r) = s4
  BY DEF Deleted
<1>2. s \in ConnState /\ s.home = r.home /\ s.taker = r.taker
  BY ClosingFields DEF Slots, Like
<1>3. IF r.hdl = "open" THEN s.hdl = "closing" /\ s.slot = "reclaim" /\ s.shut = 1
                        ELSE s.hdl = r.hdl /\ s.slot = r.slot /\ s.shut = r.shut
  BY ClosingFields DEF Slots, Like
<1>. HIDE DEF s
<1>4. Like(s1, s, "freed", s.hdl, s.slot, s.mgr, s.shut)
  BY <1>2, SetField
<1>. HIDE DEF s1
<1>5. Like(s2, s, "freed", s.hdl, s.slot, FALSE, s.shut)
  BY <1>4, SetField DEF Like
<1>. HIDE DEF s2
<1>6. Like(s3, s, "freed", s.hdl, s.slot, FALSE, s.shut)
  BY <1>5, SetField DEF Like
<1>. HIDE DEF s3
<1>7. Like(s4, s, "freed", s.hdl, s.slot, FALSE, s.shut)
  <2>1. s3 \in ConnState
    BY <1>6 DEF Like
  <2>2. Like(s4, s3, s3.obj, s3.hdl, s3.slot, s3.mgr, s3.shut)
    BY <2>1, SetField
  <2>. QED
    BY <1>6, <2>2 DEF Like
<1>. HIDE DEF s4
<1>. QED
  BY <1>1, <1>2, <1>3, <1>7 DEF Like

\* The client that finish_accept() makes.
Opened(r, l) == [r EXCEPT !.home = l, !.obj = "alive", !.hdl = "open", !.mgr = TRUE]

LEMMA OpenedFields ==
  ASSUME NEW r \in ConnState, NEW l \in Loop
  PROVE  LET s == Opened(r, l)
         IN /\ s \in ConnState /\ s.home = l /\ s.obj = "alive" /\ s.hdl = "open"
            /\ s.mgr /\ s.slot = r.slot /\ s.shut = r.shut /\ s.taker = r.taker
<1>. DEFINE s1 == [r EXCEPT !.home = l]
            s2 == [s1 EXCEPT !.obj = "alive"]
            s3 == [s2 EXCEPT !.hdl = "open"]
            s4 == [s3 EXCEPT !.mgr = TRUE]
<1>1. /\ s1 \in ConnState /\ s1.home = l /\ s1.slot = r.slot /\ s1.shut = r.shut
      /\ s1.taker = r.taker
  BY DEF ConnState
<1>. HIDE DEF s1
<1>2. Like(s2, s1, "alive", s1.hdl, s1.slot, s1.mgr, s1.shut)
  BY <1>1, SetField
<1>. HIDE DEF s2
<1>3. Like(s3, s1, "alive", "open", s1.slot, s1.mgr, s1.shut)
  <2>1. s2 \in ConnState /\ "open" \in Handles
    BY <1>2 DEF Like, Handles
  <2>2. Like(s3, s2, s2.obj, "open", s2.slot, s2.mgr, s2.shut)
    BY <2>1, SetField
  <2>. QED
    BY <1>2, <2>2 DEF Like
<1>. HIDE DEF s3
<1>4. Like(s4, s1, "alive", "open", s1.slot, TRUE, s1.shut)
  <2>1. s3 \in ConnState
    BY <1>3 DEF Like
  <2>2. Like(s4, s3, s3.obj, s3.hdl, s3.slot, TRUE, s3.shut)
    BY <2>1, SetField
  <2>. QED
    BY <1>3, <2>2 DEF Like
<1>. QED
  BY <1>1, <1>4 DEF Opened, Like, s4, s3, s2, s1

\* A socket on its way to loop l, and one that was closed instead.
LEMMA SocketFields ==
  ASSUME NEW r \in ConnState, NEW l \in Loop
  PROVE  LET s == [[r EXCEPT !.obj = "socket"] EXCEPT !.home = l]
             t == [[r EXCEPT !.obj = "freed"] EXCEPT !.shut = 1]
         IN /\ s \in ConnState /\ s.home = l /\ s.obj = "socket" /\ s.hdl = r.hdl
            /\ s.mgr = r.mgr /\ s.slot = r.slot /\ s.shut = r.shut
            /\ s.taker = r.taker
            /\ Like(t, r, "freed", r.hdl, r.slot, r.mgr, 1)
<1>. DEFINE s1 == [r EXCEPT !.obj = "socket"]
            t1 == [r EXCEPT !.obj = "freed"]
<1>1. Like(s1, r, "socket", r.hdl, r.slot, r.mgr, r.shut)
  BY SetField
<1>2. Like(t1, r, "freed", r.hdl, r.slot, r.mgr, r.shut)
  BY SetField
<1>. HIDE DEF s1, t1
<1>3. LET s == [s1 EXCEPT !.home = l]
      IN /\ s \in ConnState /\ s.home = l /\ s.obj = s1.obj /\ s.hdl = s1.hdl
         /\ s.mgr = s1.mgr /\ s.slot = s1.slot /\ s.shut = s1.shut
         /\ s.taker = s1.taker
  BY <1>1 DEF ConnState, Like
<1>4. Like([t1 EXCEPT !.shut = 1], r, "freed", r.hdl, r.slot, r.mgr, 1)
  <2>1. t1 \in ConnState
    BY <1>2 DEF Like
  <2>2. Like([t1 EXCEPT !.shut = 1], t1, t1.obj, t1.hdl, t1.slot, t1.mgr, 1)
    BY <2>1 DEF Like, ConnState
  <2>. QED
    BY <1>2, <2>2 DEF Like
<1>. QED
  BY <1>1, <1>3, <1>4 DEF Like, s1, t1

-----------------------------------------------------------------------------
(* One connection at a time: what becomes of its record and its owner.       *)

\* r is what becomes of a connection s that is not a socket in transit.
Follows(r, s) == r.home = s.home /\ r.obj # "socket" /\ s.obj # "socket"

\* No connection moves to another loop, none enters or leaves a mailbox.
NoneMoves ==
  \A d \in Conn : /\ conn'[d].home = conn[d].home
                  /\ conn'[d].obj = "socket" <=> conn[d].obj = "socket"

\* Only c may change.
OnlyOf(c) ==
  \A d \in Conn \ {c} : conn'[d] = conn[d] /\ (d \in reg' <=> d \in reg)

\* A step that changes one connection, and what becomes of it.
LEMMA OneChanges ==
  ASSUME AllSound, NEW c \in Conn, NEW r, NEW owner, Sound(r, owner),
         conn' = [conn EXCEPT ![c] = r],
         \/ owner = "server" /\ reg' = reg \cup {c} /\ mine' = mine \ {c}
         \/ owner = "user" /\ reg' = reg \ {c} /\ mine' = mine \cup {c}
         \/ owner = "nobody" /\ reg' = reg \ {c} /\ mine' = mine \ {c}
  PROVE  /\ AllSound' /\ OnlyOf(c)
         /\ Follows(r, conn[c]) => NoneMoves
<1>1. r \in ConnState
  BY DEF Sound
<1>2. /\ reg' \subseteq Conn /\ mine' \subseteq Conn /\ reg' \cap mine' = {}
      /\ conn' \in [Conn -> ConnState]
  BY <1>1 DEF AllSound
<1>3. conn'[c] = r /\ Owner(c)' = owner
  BY DEF AllSound, Owner
<1>4. \A d \in Conn \ {c} :
        conn'[d] = conn[d] /\ (d \in reg' <=> d \in reg) /\ Owner(d)' = Owner(d)
  BY DEF AllSound, Owner
<1>5. \A d \in Conn : Sound(conn'[d], Owner(d)')
  BY <1>3, <1>4 DEF AllSound
<1>6. OnlyOf(c)
  BY <1>4 DEF OnlyOf
<1>7. ASSUME Follows(r, conn[c])
      PROVE  NoneMoves
  BY <1>3, <1>4, <1>7 DEF Follows, NoneMoves
<1>. QED
  BY <1>2, <1>5, <1>6, <1>7 DEF AllSound

\* A step that leaves the owner alone.
LEMMA OneStays ==
  ASSUME AllSound, NEW c \in Conn, NEW r, Sound(r, Owner(c)),
         conn' = [conn EXCEPT ![c] = r], UNCHANGED <<reg, mine>>
  PROVE  /\ AllSound' /\ OnlyOf(c)
         /\ Follows(r, conn[c]) => NoneMoves
<1>1. \/ Owner(c) = "server" /\ reg' = reg \cup {c} /\ mine' = mine \ {c}
      \/ Owner(c) = "user" /\ reg' = reg \ {c} /\ mine' = mine \cup {c}
      \/ Owner(c) = "nobody" /\ reg' = reg \ {c} /\ mine' = mine \ {c}
  BY DEF AllSound, Owner
<1>. QED
  BY <1>1, OneChanges

\* Closing an open handle on behalf of its owner.
LEMMA ClosingSound ==
  ASSUME NEW r, NEW owner, Sound(r, owner), r.hdl = "open",
         NEW who \in {"client", "user"}
  PROVE  LET t == Closing(r, who)
         IN  /\ Sound(t, owner) /\ Follows(t, r)
             /\ t.obj = r.obj /\ t.hdl = "closing" /\ t.slot = who /\ t.mgr = r.mgr
<1>1. r \in ConnState /\ who \in Slots /\ r.shut = 0 /\ r.shut \in 0..1
  BY DEF Sound, Slots
<1>2. Like(Closing(r, who), r, r.obj, "closing", who, r.mgr, r.shut + 1)
  BY <1>1, ClosingFields
<1>3. /\ Closing(r, who) \in ConnState /\ Closing(r, who).home = r.home
      /\ Closing(r, who).obj = r.obj /\ Closing(r, who).hdl = "closing"
      /\ Closing(r, who).slot = who /\ Closing(r, who).mgr = r.mgr
      /\ Closing(r, who).shut = 1 /\ Closing(r, who).taker = r.taker
  BY <1>1, <1>2 DEF Like
<1>. QED
  BY <1>3 DEF Sound, Follows

\* Closing it to get rid of a client without a manager, a second time if
\* on_connection closed it.
LEMMA ErrorCloseSound ==
  ASSUME NEW r, Sound(r, "server"), r.obj = "alive",
         r.hdl = "open" \/ (~ClosesOnce /\ r.shut = 1)
  PROVE  LET t == ErrorClosed(r)
         IN  Sound(t, "server") /\ Follows(t, r)
<1>. DEFINE s == [r EXCEPT !.mgr = FALSE]
<1>1. r \in ConnState /\ r.shut \in 0..1 /\ (ClosesOnce => r.shut = 0)
  BY DEF Sound
<1>2. Like(s, r, r.obj, r.hdl, r.slot, FALSE, r.shut)
  BY <1>1, SetField
<1>3. s \in ConnState /\ s.shut \in 0..1 /\ "error" \in Slots
  BY <1>1, <1>2 DEF Like, Slots
<1>. HIDE DEF s
<1>4. Like(Closing(s, "error"), s, s.obj, "closing", "error", s.mgr, s.shut + 1)
  BY <1>3, ClosingFields
<1>5. Sound(Closing(s, "error"), "server") /\ Follows(Closing(s, "error"), r)
  BY <1>1, <1>2, <1>4 DEF Like, Sound, Follows
<1>. QED
  BY <1>5 DEF s, ErrorClosed

\* Deleting a client is sound unless its own close callback is still to come.
LEMMA DeletedSound ==
  ASSUME NEW r, NEW owner, Sound(r, owner), r.obj \notin {"none", "socket"},
         DeletesLast /\ r.hdl = "closing" => r.slot \notin {"client", "error"}
  PROVE  /\ Sound(Deleted(r), "nobody") /\ Follows(Deleted(r), r)
         /\ ~TakesForGood /\ ~r.taker => Sound(Deleted(r), "user")
<1>1. r \in ConnState /\ (r.hdl = "open" => r.shut = 0)
  BY DEF Sound
<1>2. IF r.hdl = "open"
      THEN Like(Deleted(r), r, "freed", "closing", "reclaim", FALSE, 1)
      ELSE Like(Deleted(r), r, "freed", r.hdl, r.slot, FALSE, r.shut)
  BY <1>1, DeletedFields
<1>. QED
  BY <1>2 DEF Like, Sound, Follows

\* Taking the manager off a client, and putting it on one with an open handle.
LEMMA ManagerSound ==
  ASSUME NEW r, NEW owner \in {"server", "user"}, Sound(r, owner), r.obj = "alive"
  PROVE  /\ (TakesForGood => r.slot # "error") =>
              /\ Sound([r EXCEPT !.mgr = FALSE], "user")
              /\ Follows([r EXCEPT !.mgr = FALSE], r)
         /\ r.hdl = "open" =>
              /\ Sound([r EXCEPT !.mgr = TRUE], "server")
              /\ Follows([r EXCEPT !.mgr = TRUE], r)
<1>1. r \in ConnState
  BY DEF Sound
<1>2. /\ Like([r EXCEPT !.mgr = FALSE], r, r.obj, r.hdl, r.slot, FALSE, r.shut)
      /\ Like([r EXCEPT !.mgr = TRUE], r, r.obj, r.hdl, r.slot, TRUE, r.shut)
  BY <1>1, SetField
<1>. QED
  BY <1>2 DEF Like, Sound, Follows

\* A managed client with an open handle may be handed to on_connection.
LEMMA DeliveredSound ==
  ASSUME NEW r, Sound(r, "server"), r.hdl = "open", NEW a \in Answers
  PROVE  /\ Sound(Delivered(r, a), IF Takes(a) THEN "user" ELSE "server")
         /\ Follows(Delivered(r, a), r)
<1>. DEFINE seen == [r EXCEPT !.told = TRUE]
<1>1. r \in ConnState
  BY DEF Sound
<1>2. Like(seen, r, r.obj, r.hdl, r.slot, r.mgr, r.shut)
  BY <1>1, SetField
<1>3. /\ Sound(seen, "server") /\ seen.hdl = "open" /\ seen.obj = "alive"
      /\ seen.slot # "error" /\ seen.home = r.home /\ Follows(r, r)
  BY <1>2 DEF Like, Sound, Follows
<1>4. Delivered(r, a) =
        IF ~cb THEN r
        ELSE CASE a = "keep" -> seen
               [] a = "close" -> Closing(seen, "client")
               [] a = "throw" -> ErrorClosed(seen)
               [] a = "closeThrow" -> ErrorClosed(Closing(seen, "client"))
               [] a \in {"take", "takeThrow"} -> [seen EXCEPT !.mgr = FALSE]
  BY DEF Delivered
<1>. HIDE DEF seen
<1>5. CASE ~cb
  BY <1>3, <1>4, <1>5 DEF Takes
<1>6. CASE cb /\ a = "keep"
  BY <1>3, <1>4, <1>6 DEF Takes, Follows
<1>7. CASE cb /\ a = "close"
  <2>1. Delivered(r, a) = Closing(seen, "client") /\ ~Takes(a)
    BY <1>4, <1>7 DEF Takes
  <2>. QED
    BY <1>3, <2>1, ClosingSound DEF Follows
<1>8. CASE cb /\ a = "throw"
  <2>1. Delivered(r, a) = ErrorClosed(seen) /\ ~Takes(a)
    BY <1>4, <1>8 DEF Takes
  <2>2. LET t == ErrorClosed(seen)
        IN  Sound(t, "server") /\ Follows(t, seen)
    BY <1>3, ErrorCloseSound
  <2>. QED
    BY <1>3, <2>1, <2>2 DEF Follows
<1>9. CASE cb /\ a = "closeThrow"
  <2>. DEFINE s == Closing(seen, "client")
  <2>1. Delivered(r, a) = ErrorClosed(s) /\ ~Takes(a)
    BY <1>4, <1>9 DEF Takes
  <2>2. ~ClosesOnce
    BY <1>9 DEF ClosesOnce, Answers
  <2>3. Sound(s, "server") /\ Follows(s, seen) /\ s.shut = 1 /\ s.obj = "alive"
    <3>1. seen \in ConnState /\ seen.shut = 0 /\ seen.shut \in 0..1 /\ "client" \in Slots
      BY <1>3 DEF Sound, Slots
    <3>2. Like(s, seen, seen.obj, "closing", "client", seen.mgr, seen.shut + 1)
      BY <3>1, ClosingFields
    <3>. QED
      BY <1>3, <3>1, <3>2, ClosingSound DEF Like
  <2>. HIDE DEF s
  <2>. QED
    BY <1>3, <2>1, <2>2, <2>3, ErrorCloseSound DEF Follows
<1>10. CASE cb /\ a \in {"take", "takeThrow"}
  <2>1. Delivered(r, a) = [seen EXCEPT !.mgr = FALSE] /\ Takes(a)
    BY <1>4, <1>10 DEF Takes
  <2>. QED
    BY <1>3, <2>1, ManagerSound DEF Follows
<1>. QED
  BY <1>5, <1>6, <1>7, <1>8, <1>9, <1>10 DEF Answers

\* finish_accept() makes a sound client of a connection nobody had yet.
LEMMA FinishAcceptSound ==
  ASSUME AllSound, NEW c \in Conn, NEW l \in Loop, NEW a \in Answers,
         conn[c].obj \in {"none", "socket"}, FinishAccept(c, l, a)
  PROVE  /\ AllSound' /\ OnlyOf(c)
         /\ conn'[c].home = l /\ conn'[c].obj # "socket"
<1>. DEFINE r == Opened(conn[c], l)
            s == IF ~tls THEN Delivered(r, a)
                 ELSE IF a = "throw" THEN ErrorClosed(r)
                 ELSE r
            owner == IF ~tls /\ Takes(a) THEN "user" ELSE "server"
<1>1. Sound(conn[c], "nobody") /\ c \notin reg /\ c \notin mine
  BY DEF AllSound, Sound, Owner
<1>2. conn[c] \in ConnState
  BY <1>1 DEF Sound
<1>3. Sound(r, "server") /\ r.hdl = "open" /\ r.home = l /\ r.obj = "alive"
  <2>1. /\ r \in ConnState /\ r.home = l /\ r.obj = "alive" /\ r.hdl = "open" /\ r.mgr
        /\ r.slot = conn[c].slot /\ r.shut = conn[c].shut /\ r.taker = conn[c].taker
    BY <1>2, OpenedFields
  <2>. HIDE DEF r
  <2>. QED
    BY <1>1, <2>1 DEF Sound
<1>4. /\ conn' = [conn EXCEPT ![c] = s]
      /\ IF ~tls /\ Takes(a) THEN reg' = reg /\ mine' = mine \cup {c}
                             ELSE reg' = reg \cup {c} /\ mine' = mine
  BY DEF FinishAccept, Opened
<1>5. Sound(s, owner) /\ s.home = l /\ s.obj # "socket"
  <2>. HIDE DEF r
  <2>1. CASE ~tls
    BY <1>3, <2>1, DeliveredSound DEF Follows
  <2>2. CASE tls
    <3>1. LET t == ErrorClosed(r)
          IN  Sound(t, "server") /\ Follows(t, r)
      BY <1>3, ErrorCloseSound
    <3>. QED
      BY <1>3, <2>2, <3>1 DEF Follows
  <2>. QED
    BY <2>1, <2>2
<1>. HIDE DEF s
<1>6. \/ owner = "server" /\ reg' = reg \cup {c} /\ mine' = mine \ {c}
      \/ owner = "user" /\ reg' = reg \ {c} /\ mine' = mine \cup {c}
  BY <1>1, <1>4
<1>7. AllSound' /\ OnlyOf(c) /\ conn'[c] = s
  <2>. HIDE DEF owner
  <2>. QED
    BY <1>4, <1>5, <1>6, OneChanges DEF AllSound
<1>. QED
  BY <1>5, <1>7

-----------------------------------------------------------------------------
(* The steps.                                                                *)

\* The loop of c keeps what the exit hook has achieved.
Calm(c) ==
  c \in reg' /\ conn'[c].hdl = "open" => c \in reg /\ conn[c].hdl = "open"

\* The head of a mailbox is its first element.
LEMMA RunsFirst ==
  ASSUME IInv, NEW w \in Worker, NEW c \in Conn, Runs(w, <<"hand", c>>)
  PROVE  conn[c].obj = "socket" /\ 1 \in 1..Len(box[w]) /\ Carries(w, 1, c)
<1>1. box[w] \in Seq(Tasks) /\ box[w] # << >> /\ Head(box[w]) = <<"hand", c>>
  BY DEF Runs, IInv, TypeOK
<1>2. 1 \in 1..Len(box[w]) /\ box[w][1] = <<"hand", c>>
  BY <1>1
<1>. QED
  BY <1>2 DEF IInv, InTransit, Carries

\* A connection is accepted on the loop that keeps it.
LEMMA AcceptSteps ==
  ASSUME IInv, AllSound, NEW c \in Conn, NEW l \in Loop, NEW a \in Answers,
         Accept(l, c, a) \/ (l \in Worker /\ HandoffTask(l, c, a))
  PROVE  /\ AllSound' /\ OnlyOf(c)
         /\ conn'[c].home = l /\ conn'[c].obj # "socket"
<1>1. CASE Accept(l, c, a)
  BY <1>1, FinishAcceptSound DEF Accept
<1>2. CASE l \in Worker /\ HandoffTask(l, c, a)
  BY <1>2, RunsFirst, FinishAcceptSound DEF HandoffTask
<1>. QED
  BY <1>1, <1>2

\* A socket is sent to a work loop, or dropped on the way.
LEMMA HandoffSteps ==
  ASSUME IInv, AllSound, NEW c \in Conn, NEW w \in Worker,
         AcceptAndHandoff(w, c) \/ HandoffRefused(w, c)
  PROVE  /\ AllSound' /\ OnlyOf(c) /\ conn'[c].hdl = "none"
         /\ IF AcceptAndHandoff(w, c) /\ Accepts(w)
            THEN conn'[c].obj = "socket" /\ conn'[c].home = w
            ELSE conn'[c].obj = "freed"
<1>. DEFINE s == [[conn[c] EXCEPT !.obj = "socket"] EXCEPT !.home = w]
            t == [[conn[c] EXCEPT !.obj = "freed"] EXCEPT !.shut = 1]
<1>1. conn[c] \in ConnState /\ Sound(conn[c], Owner(c)) /\ w \in Loop
  BY DEF AllSound, Loop
<1>2. conn[c].obj \in {"none", "socket"} /\ Owner(c) = "nobody" /\ conn[c].hdl = "none"
  BY <1>1, RunsFirst DEF AcceptAndHandoff, HandoffRefused, Sound
<1>3. /\ Like(t, conn[c], "freed", conn[c].hdl, conn[c].slot, conn[c].mgr, 1)
      /\ s \in ConnState /\ s.obj = "socket" /\ s.hdl = conn[c].hdl /\ s.home = w
      /\ s.slot = conn[c].slot /\ s.mgr = conn[c].mgr /\ s.shut = conn[c].shut
      /\ s.taker = conn[c].taker
  BY <1>1, SocketFields
<1>4. conn' = [conn EXCEPT ![c] = IF AcceptAndHandoff(w, c) /\ Accepts(w) THEN s ELSE t]
  BY DEF AcceptAndHandoff, HandoffRefused, AllSound
<1>. HIDE DEF s, t
<1>5. Sound(s, Owner(c)) /\ s.hdl = "none"
  BY <1>1, <1>2, <1>3 DEF Sound
<1>6. Sound(t, Owner(c)) /\ t.obj = "freed" /\ t.hdl = "none"
  BY <1>1, <1>2, <1>3 DEF Sound, Like
<1>7. UNCHANGED <<reg, mine>>
  BY DEF AcceptAndHandoff, HandoffRefused
<1>8. CASE AcceptAndHandoff(w, c) /\ Accepts(w)
  BY <1>3, <1>4, <1>5, <1>7, <1>8, OneStays DEF AllSound
<1>9. CASE ~(AcceptAndHandoff(w, c) /\ Accepts(w))
  BY <1>4, <1>6, <1>7, <1>9, OneStays DEF AllSound
<1>. QED
  BY <1>8, <1>9

\* Release() of a client the server owns and whose close callback is not
\* still to come.
LEMMA ReleaseSound ==
  ASSUME AllSound, NEW c \in Conn, NEW r, Sound(r, "server"), c \notin mine,
         r.home = conn[c].home, conn[c].obj # "socket",
         DeletesLast /\ r.hdl = "closing" => r.slot \notin {"client", "error"},
         Release(c, r), UNCHANGED mine
  PROVE  AllSound' /\ OnlyOf(c) /\ NoneMoves /\ Calm(c)
<1>1. Sound(Deleted(r), "nobody") /\ Follows(Deleted(r), conn[c])
  BY DeletedSound DEF Sound, Follows
<1>2. mine' = mine \ {c} /\ reg' = reg \ {c}
  BY DEF Release
<1>. QED
  BY <1>1, <1>2, OneChanges DEF Release, Calm

\* The handle is closed.
LEMMA ClosedFields ==
  ASSUME NEW r \in ConnState
  PROVE  LET s == [r EXCEPT !.hdl = "closed", !.slot = "none"]
         IN  Like(s, r, r.obj, "closed", "none", r.mgr, r.shut)
<1>. DEFINE s1 == [r EXCEPT !.hdl = "closed"]
            s2 == [s1 EXCEPT !.slot = "none"]
<1>1. Like(s1, r, r.obj, "closed", r.slot, r.mgr, r.shut)
  BY SetField DEF Handles
<1>2. s1 \in ConnState
  BY <1>1 DEF Like
<1>. HIDE DEF s1
<1>3. Like(s2, s1, s1.obj, s1.hdl, "none", s1.mgr, s1.shut)
  BY <1>2, SetField DEF Slots
<1>4. Like(s2, r, r.obj, "closed", "none", r.mgr, r.shut)
  BY <1>1, <1>3 DEF Like
<1>. QED
  BY <1>4 DEF s1

\* What user code does to a client it is told of.
LEMMA ReactedSound ==
  ASSUME NEW r, NEW owner, Sound(r, owner), r.slot # "error",
         r.obj \notin {"none", "socket"}, NEW a \in Reactions,
         a = "take" => owner \in {"server", "user"}
  PROVE  LET t == Reacted(r, a)
         IN  /\ Sound(t, IF a = "take" THEN "user" ELSE owner) /\ Follows(t, r)
             /\ t.obj = r.obj
             /\ t.slot # "error"
             /\ \/ t.hdl = r.hdl /\ t.slot = r.slot
                \/ /\ r.hdl = "open" /\ t.hdl = "closing"
                   /\ t.slot = "user" \/ (t.slot = "client" /\ a = "close")
<1>1. r \in ConnState
  BY DEF Sound
<1>2. CASE a = "close" /\ r.hdl = "open"
  <2>1. Reacted(r, a) = Closing(r, "client")
    BY <1>2 DEF Reacted
  <2>2. LET t == Closing(r, "client")
        IN  /\ Sound(t, owner) /\ Follows(t, r)
            /\ t.obj = r.obj /\ t.hdl = "closing" /\ t.slot = "client"
    BY <1>2, ClosingSound
  <2>. QED
    BY <1>2, <2>1, <2>2
<1>3. CASE a = "closeHandle" /\ r.hdl = "open"
  <2>1. Reacted(r, a) = Closing(r, "user")
    BY <1>3 DEF Reacted
  <2>2. LET t == Closing(r, "user")
        IN  /\ Sound(t, owner) /\ Follows(t, r)
            /\ t.obj = r.obj /\ t.hdl = "closing" /\ t.slot = "user"
    BY <1>3, ClosingSound
  <2>. QED
    BY <1>3, <2>1, <2>2
<1>4. CASE a = "take"
  <2>. DEFINE s == [r EXCEPT !.mgr = FALSE]
              t == [s EXCEPT !.told = TRUE]
  <2>1. Like(s, r, r.obj, r.hdl, r.slot, FALSE, r.shut)
    BY <1>1, SetField
  <2>2. s \in ConnState
    BY <2>1 DEF Like
  <2>. HIDE DEF s
  <2>3. Like(t, s, s.obj, s.hdl, s.slot, s.mgr, s.shut)
    BY <2>2, SetField
  <2>4. Like(t, r, r.obj, r.hdl, r.slot, FALSE, r.shut)
    BY <2>1, <2>3 DEF Like
  <2>. HIDE DEF t
  <2>5. Reacted(r, a) = t
    BY <1>4 DEF Reacted, t, s
  <2>. QED
    BY <1>4, <2>4, <2>5 DEF Sound, Like, Follows
<1>5. CASE a # "take" /\ ~(a \in {"close", "closeHandle"} /\ r.hdl = "open")
  <2>1. Reacted(r, a) = r
    BY <1>5 DEF Reacted, Reactions
  <2>. QED
    BY <1>1, <1>5, <2>1 DEF Follows, Sound, ConnState
<1>. QED
  BY <1>2, <1>3, <1>4, <1>5 DEF Reactions

\* fire_close_callbacks(): h is the client when it begins, owner the one it
\* has then.
LEMMA FiresSound ==
  ASSUME AllSound, NEW c \in Conn, NEW h, NEW owner, Sound(h, owner),
         h.slot # "error", h.obj \notin {"none", "socket"},
         h.home = conn[c].home, conn[c].obj # "socket",
         h.hdl = "open" => conn[c].hdl = "open",
         NEW a \in Reactions, NEW took \in BOOLEAN,
         \/ owner = Owner(c) /\ (took <=> a = "take")
         \/ owner = "user" /\ took,
         took => Owner(c) = "server",
         TakesForGood /\ h.mgr => a # "take",
         DeletesLast /\ h.mgr =>
           a # "close" /\ (h.hdl = "closing" => h.slot \notin {"client", "error"}),
         Fires(c, h, a, took)
  PROVE  AllSound' /\ OnlyOf(c) /\ NoneMoves /\ Calm(c)
<1>. DEFINE g == [h EXCEPT !.mgr = FALSE]
            s == Reacted(g, a)
<1>1. h \in ConnState
  BY DEF Sound
<1>2. Like(g, h, h.obj, h.hdl, h.slot, FALSE, h.shut)
  BY <1>1, SetField
<1>3. /\ reg' = IF h.mgr \/ took THEN reg \ {c} ELSE reg
      /\ mine' = IF took THEN mine \cup {c} ELSE mine
      /\ conn' = [conn EXCEPT ![c] = IF h.mgr THEN Deleted(s) ELSE s]
  BY DEF Fires
<1>. HIDE DEF g
<1>4. g.slot # "error" /\ g.obj \notin {"none", "socket"} /\ g.hdl = h.hdl /\ g.slot = h.slot
  BY <1>2 DEF Like
<1>5. /\ Owner(c) = "server" <=> c \in reg
      /\ Owner(c) = "user" <=> c \in mine
      /\ Owner(c) \in {"server", "user", "nobody"}
  BY DEF AllSound, Owner
<1>6. CASE ~h.mgr
  <2>1. Sound(g, owner)
    BY <1>2, <1>6 DEF Like, Sound
  <2>2. a = "take" => owner = "user"
    BY <1>6 DEF Sound
  <2>3. /\ Sound(s, owner) /\ Follows(s, g)
        /\ s.hdl = "open" => g.hdl = "open"
    BY <1>4, <2>1, <2>2, ReactedSound
  <2>. HIDE DEF s
  <2>4. Follows(s, conn[c])
    BY <1>2, <2>3 DEF Follows, Like
  <2>5. conn' = [conn EXCEPT ![c] = s] /\ conn'[c] = s
    BY <1>3, <1>6 DEF AllSound
  <2>6. CASE took
    <3>1. owner = "user" /\ reg' = reg \ {c} /\ mine' = mine \cup {c}
      BY <1>3, <2>2, <2>6
    <3>. QED
      BY <2>3, <2>4, <2>5, <3>1, OneChanges DEF Calm
  <2>7. CASE ~took
    <3>1. owner = Owner(c) /\ UNCHANGED <<reg, mine>>
      BY <1>3, <1>6, <2>7
    <3>. QED
      BY <1>4, <2>3, <2>4, <2>5, <3>1, OneStays DEF Calm
  <2>. QED
    BY <2>6, <2>7
<1>7. CASE h.mgr
  <2>. DEFINE holder == IF owner = "server" THEN "user" ELSE "nobody"
  <2>1. owner = Owner(c) /\ (took <=> a = "take") /\ c \notin mine /\ owner # "user"
    BY <1>5, <1>7 DEF Sound
  <2>2. Sound(g, holder) /\ (a = "take" => holder = "user")
    BY <1>2, <1>4, <1>5, <2>1 DEF Like, Sound
  <2>. HIDE DEF holder
  <2>3. /\ Sound(s, IF a = "take" THEN "user" ELSE holder) /\ Follows(s, g) /\ s.obj = g.obj
        /\ \/ s.hdl = g.hdl /\ s.slot = g.slot
           \/ s.slot = "user" \/ (s.slot = "client" /\ a = "close")
    BY <1>4, <2>2, ReactedSound
  <2>4. Sound(s, holder) /\ s.obj \notin {"none", "socket"}
    BY <1>4, <2>2, <2>3
  <2>. HIDE DEF s
  <2>5. DeletesLast /\ s.hdl = "closing" => s.slot \notin {"client", "error"}
    BY <1>4, <1>7, <2>3
  <2>6. /\ Sound(Deleted(s), "nobody") /\ Follows(Deleted(s), s)
        /\ took => Sound(Deleted(s), "user")
    <3>1. took => ~TakesForGood /\ ~s.taker
      BY <1>7, <2>1, <2>3 DEF Sound
    <3>. QED
      BY <2>4, <2>5, <3>1, DeletedSound
  <2>7. Follows(Deleted(s), conn[c])
    BY <1>2, <2>3, <2>6 DEF Follows, Like
  <2>8. conn' = [conn EXCEPT ![c] = Deleted(s)] /\ reg' = reg \ {c}
    BY <1>3, <1>7
  <2>9. CASE took
    BY <1>3, <2>6, <2>7, <2>8, <2>9, OneChanges DEF Calm
  <2>10. CASE ~took
    <3>1. mine' = mine \ {c}
      BY <1>3, <2>1, <2>10
    <3>. QED
      BY <2>6, <2>7, <2>8, <3>1, OneChanges DEF Calm
  <2>. QED
    BY <2>9, <2>10
<1>. QED
  BY <1>6, <1>7

\* Reading ended.
LEMMA PeerGoneSound ==
  ASSUME AllSound, NEW c \in Conn, NEW e \in {"fin", "error"},
         NEW r \in Reactions, NEW a \in Reactions, PeerGone(c, e, r, a)
  PROVE  AllSound' /\ OnlyOf(c) /\ NoneMoves /\ Calm(c)
<1>. DEFINE x == [conn[c] EXCEPT !.eof = e]
            heard == Reacted(x, r)
            owner == IF r = "take" THEN "user" ELSE Owner(c)
<1>1. conn[c] \in ConnState /\ Sound(conn[c], Owner(c))
  BY DEF AllSound
<1>2. /\ conn[c].hdl \in {"open", "closing"} /\ conn[c].obj = "alive"
      /\ conn[c].hdl = "closing" => "timeoutClosing" \in May /\ conn[c].mgr
      /\ "take" \in {r, a} => c \in reg
      /\ heard.mgr /\ "close" \in {r, a} => "closeInside" \in May
      /\ heard.mgr /\ a = "take" => "takeInside" \in May
      /\ Fires(c, heard, a, "take" \in {r, a})
  BY DEF PeerGone
<1>3. Like(x, conn[c], conn[c].obj, conn[c].hdl, conn[c].slot, conn[c].mgr, conn[c].shut)
  BY <1>1, SetField
<1>. HIDE DEF x
<1>4. /\ Sound(x, Owner(c)) /\ x.slot # "error" /\ x.obj = "alive" /\ Follows(x, conn[c])
      /\ x.hdl = conn[c].hdl /\ (x.hdl = "open" => x.slot = "none")
  BY <1>1, <1>2, <1>3 DEF Sound, Like, Follows
<1>5. "take" \in {r, a} => Owner(c) = "server"
  BY <1>2 DEF Owner
<1>6. /\ Sound(heard, owner) /\ Follows(heard, x) /\ heard.obj = x.obj /\ heard.slot # "error"
      /\ \/ heard.hdl = x.hdl /\ heard.slot = x.slot
         \/ /\ x.hdl = "open" /\ heard.hdl = "closing"
            /\ heard.slot = "user" \/ (heard.slot = "client" /\ r = "close")
  BY <1>4, <1>5, ReactedSound
<1>7. DeletesLast /\ heard.mgr =>
        a # "close" /\ (heard.hdl = "closing" => heard.slot \notin {"client", "error"})
  BY <1>2, <1>4, <1>6 DEF DeletesLast
<1>8. TakesForGood /\ heard.mgr => a # "take"
  BY <1>2 DEF TakesForGood
<1>9. \/ owner = Owner(c) /\ ("take" \in {r, a} <=> a = "take")
      \/ owner = "user" /\ "take" \in {r, a}
  OBVIOUS
<1>10. /\ heard.home = conn[c].home /\ conn[c].obj # "socket"
       /\ heard.hdl = "open" => conn[c].hdl = "open"
       /\ heard.obj \notin {"none", "socket"} /\ ("take" \in {r, a}) \in BOOLEAN
  BY <1>2, <1>4, <1>6 DEF Follows
<1>. HIDE DEF heard, owner
<1>. QED
  BY <1>2, <1>5, <1>6, <1>7, <1>8, <1>9, <1>10, FiresSound

\* uv_close is through.
LEMMA CloseDoneSound ==
  ASSUME AllSound, NEW c \in Conn, NEW a \in Reactions, CloseDone(c, a)
  PROVE  AllSound' /\ OnlyOf(c) /\ NoneMoves /\ Calm(c)
<1>. DEFINE r == conn[c]
            s == [r EXCEPT !.hdl = "closed", !.slot = "none"]
<1>1. r \in ConnState /\ Sound(r, Owner(c))
  BY DEF AllSound
<1>2. Like(s, r, r.obj, "closed", "none", r.mgr, r.shut)
  BY <1>1, ClosedFields
<1>3. /\ r.hdl = "closing" /\ a \in {"look", "take"}
      /\ a = "take" => r.slot = "client" /\ c \in reg /\ "takeInside" \in May
      /\ IF r.slot = "client" THEN Fires(c, s, a, a = "take")
         ELSE /\ IF r.slot = "error" THEN Release(c, s)
                 ELSE conn' = [conn EXCEPT ![c] = s] /\ UNCHANGED reg
              /\ UNCHANGED mine
  BY DEF CloseDone
<1>. HIDE DEF s
<1>4. /\ s \in ConnState /\ s.obj = r.obj /\ s.hdl = "closed" /\ s.slot = "none"
      /\ s.mgr = r.mgr /\ s.shut = r.shut /\ s.home = r.home /\ s.taker = r.taker
      /\ r.obj \notin {"none", "socket"}
  BY <1>1, <1>2, <1>3 DEF Like, Sound
<1>5. CASE r.slot = "client"
  <2>1. Sound(s, Owner(c))
    BY <1>1, <1>3, <1>4, <1>5 DEF Sound
  <2>2. /\ a = "take" => Owner(c) = "server" /\ ~TakesForGood
        /\ (a = "take") \in BOOLEAN /\ a # "close"
    BY <1>3 DEF Owner, TakesForGood
  <2>. QED
    BY <1>3, <1>4, <1>5, <2>1, <2>2, FiresSound
<1>6. CASE r.slot = "error"
  <2>. DEFINE t == Deleted(s)
              owner == IF Owner(c) = "server" THEN "nobody" ELSE Owner(c)
  <2>1. conn' = [conn EXCEPT ![c] = t] /\ reg' = reg \ {c} /\ mine' = mine
    BY <1>3, <1>6 DEF Release
  <2>2. Like(t, s, "freed", "closed", "none", FALSE, s.shut)
    BY <1>4, DeletedFields
  <2>. HIDE DEF t
  <2>3. Sound(t, owner) /\ Follows(t, r)
    BY <1>1, <1>3, <1>4, <1>6, <2>2 DEF Sound, Like, Follows
  <2>4. \/ owner = "user" /\ reg' = reg \ {c} /\ mine' = mine \cup {c}
        \/ owner = "nobody" /\ reg' = reg \ {c} /\ mine' = mine \ {c}
    BY <2>1 DEF Owner, AllSound
  <2>. HIDE DEF owner
  <2>. QED
    BY <2>1, <2>3, <2>4, OneChanges DEF Calm
<1>7. CASE r.slot \notin {"client", "error"}
  <2>1. Sound(s, Owner(c)) /\ Follows(s, r)
    BY <1>1, <1>3, <1>4, <1>7 DEF Sound, Follows
  <2>2. conn'[c].hdl = "closed"
    BY <1>3, <1>4, <1>7 DEF AllSound
  <2>. QED
    BY <1>3, <1>7, <2>1, <2>2, OneStays DEF Calm
<1>. QED
  BY <1>5, <1>6, <1>7

\* take_client(), whole or one of its halves.
LEMMA TakeSound ==
  ASSUME AllSound, NEW c \in Conn, NEW half \in Halves, TakeClient(c, half)
  PROVE  /\ AllSound' /\ OnlyOf(c) /\ NoneMoves
         /\ c \notin reg' /\ conn'[c].hdl = conn[c].hdl
<1>. DEFINE r == conn[c]
            s == [r EXCEPT !.mgr = FALSE]
            t == [s EXCEPT !.taker = FALSE]
            u == [r EXCEPT !.taker = TRUE]
<1>1. r \in ConnState /\ Sound(r, Owner(c)) /\ c \notin reg \cap mine
  BY DEF AllSound
<1>2. reg' = reg \ {c}
  BY DEF TakeClient
<1>3. CASE half = "erase"
  <2>1. /\ c \in reg /\ mine' = mine /\ conn' = [conn EXCEPT ![c] = u]
    BY <1>3 DEF TakeClient, AllSound
  <2>2. ~TakesForGood
    BY <1>3 DEF Halves, TakesForGood
  <2>3. /\ u \in ConnState /\ u.home = r.home /\ u.obj = r.obj /\ u.hdl = r.hdl
        /\ u.slot = r.slot /\ u.mgr = r.mgr /\ u.shut = r.shut /\ u.taker = TRUE
    BY <1>1 DEF ConnState
  <2>. HIDE DEF u
  <2>4. Owner(c) = "server" /\ mine' = mine \ {c}
    BY <1>1, <2>1 DEF Owner
  <2>5. Sound(u, "nobody") /\ Follows(u, r)
    BY <1>1, <2>2, <2>3, <2>4 DEF Sound, Follows
  <2>6. conn'[c] = u
    BY <2>1 DEF AllSound
  <2>. QED
    BY <1>2, <2>1, <2>3, <2>4, <2>5, <2>6, OneChanges
<1>4. CASE half # "erase"
  <2>1. /\ mine' = mine \cup {c} /\ conn' = [conn EXCEPT ![c] = t]
        /\ half = "clear" => r.taker
        /\ half # "clear" => c \in reg /\ (r.slot = "error" => "lateTake" \in May)
    BY <1>4 DEF TakeClient, AllSound
  <2>2. Like(s, r, r.obj, r.hdl, r.slot, FALSE, r.shut)
    BY <1>1, SetField
  <2>. HIDE DEF s
  <2>3. /\ t \in ConnState /\ t.home = r.home /\ t.obj = r.obj /\ t.hdl = r.hdl
        /\ t.slot = r.slot /\ t.mgr = FALSE /\ t.shut = r.shut /\ t.taker = FALSE
    BY <2>2 DEF ConnState, Like
  <2>. HIDE DEF t
  <2>4. /\ r.obj \notin {"none", "socket"}
        /\ TakesForGood => r.obj = "alive" /\ r.slot # "error"
    BY <1>1, <2>1 DEF Sound, Owner, TakesForGood
  <2>5. Sound(t, "user") /\ Follows(t, r)
    BY <1>1, <2>3, <2>4 DEF Sound, Follows
  <2>6. conn'[c] = t
    BY <2>1 DEF AllSound
  <2>. QED
    BY <1>2, <2>1, <2>3, <2>5, <2>6, OneChanges
<1>. QED
  BY <1>3, <1>4

\* What other callbacks of the user do to a client on its loop.
Served(c, a) ==
  \/ HandshakeDone(c, a) \/ CloseClient(c) \/ CloseHandle(c)
  \/ ReturnClient(c) \/ ReturnDead(c) \/ UserDeletes(c)

LEMMA UserSteps ==
  ASSUME AllSound, NEW c \in Conn, NEW a \in Answers, Served(c, a)
  PROVE  AllSound' /\ OnlyOf(c) /\ NoneMoves /\ Serves(conn[c].home)
<1>. DEFINE r == conn[c]
<1>1. r \in ConnState /\ Sound(r, Owner(c)) /\ c \notin reg \cap mine
  BY DEF AllSound
<1>2. CASE ReturnClient(c)
  <2>1. r.obj = "alive" /\ r.hdl = "open" /\ Owner(c) = "user"
    BY <1>1, <1>2 DEF ReturnClient, Sound, Owner
  <2>2. /\ conn' = [conn EXCEPT ![c] = [r EXCEPT !.mgr = TRUE]]
        /\ reg' = reg \cup {c} /\ mine' = mine \ {c} /\ Serves(r.home)
    BY <1>2 DEF ReturnClient, AllSound
  <2>. QED
    BY <1>1, <2>1, <2>2, ManagerSound, OneChanges
<1>3. CASE ReturnDead(c) \/ UserDeletes(c)
  <2>1. /\ Owner(c) = "user" /\ r.obj \notin {"none", "socket"} /\ Serves(r.home)
        /\ DeletesLast => r.hdl # "closing"
    BY <1>1, <1>3 DEF ReturnDead, UserDeletes, Sound, Owner, DeletesLast
  <2>2. conn' = [conn EXCEPT ![c] = Deleted(r)] /\ reg' = reg \ {c} /\ mine' = mine \ {c}
    BY <1>1, <1>3 DEF ReturnDead, UserDeletes, AllSound
  <2>. QED
    BY <1>1, <2>1, <2>2, DeletedSound, OneChanges
<1>4. CASE CloseClient(c)
  BY <1>1, <1>4, ClosingSound, OneStays DEF CloseClient
<1>5. CASE CloseHandle(c)
  BY <1>1, <1>5, ClosingSound, OneStays DEF CloseHandle
<1>6. CASE HandshakeDone(c, a)
  <2>1. /\ c \in reg /\ r.hdl = "open" /\ c \notin mine /\ Owner(c) = "server"
        /\ Serves(r.home)
    BY <1>6 DEF HandshakeDone, AllSound, Owner
  <2>2. /\ Sound(Delivered(r, a), IF Takes(a) THEN "user" ELSE "server")
        /\ Follows(Delivered(r, a), r)
    BY <1>1, <2>1, DeliveredSound
  <2>3. conn' = [conn EXCEPT ![c] = Delivered(r, a)]
    BY <1>6 DEF HandshakeDone, AllSound
  <2>4. IF Takes(a) THEN reg' = reg \ {c} /\ mine' = mine \cup {c}
                    ELSE reg' = reg \cup {c} /\ mine' = mine \ {c}
    BY <1>6, <2>1 DEF HandshakeDone
  <2>. QED
    BY <2>1, <2>2, <2>3, <2>4, OneChanges
<1>. QED
  BY <1>2, <1>3, <1>4, <1>5, <1>6 DEF Served

\* One client of a snapshot: an open one is closed, a closed one released.
LEMMA ScanSound ==
  ASSUME AllSound, NEW l \in Loop, NEW c \in Conn, ScanClient(l, c)
  PROVE  /\ AllSound' /\ OnlyOf(c) /\ NoneMoves /\ Calm(c)
         /\ conn[c].home = l /\ c \in reg' => conn'[c].hdl # "open"
         /\ conn[c].home # l => UNCHANGED owned
<1>. DEFINE r == conn[c]
<1>1. r \in ConnState /\ Sound(r, Owner(c))
  BY DEF AllSound
<1>2. CASE r.home # l \/ c \notin reg
  <2>1. UNCHANGED owned
    BY <1>2 DEF ScanClient, owned
  <2>2. AllSound' /\ OnlyOf(c) /\ NoneMoves /\ Calm(c)
    BY <2>1 DEF owned, AllSound, Owner, OnlyOf, NoneMoves, Calm
  <2>. QED
    BY <1>2, <2>1, <2>2 DEF owned
<1>3. CASE r.home = l /\ c \in reg /\ r.hdl = "closed"
  <2>1. Release(c, r) /\ UNCHANGED mine
    BY <1>3 DEF ScanClient
  <2>2. Owner(c) = "server" /\ c \notin mine /\ r.obj = "alive"
    BY <1>1, <1>3 DEF Owner, AllSound, Sound
  <2>. QED
    BY <1>1, <1>3, <2>1, <2>2, ReleaseSound DEF Release
<1>4. CASE r.home = l /\ c \in reg /\ r.hdl = "open"
  <2>1. conn' = [conn EXCEPT ![c] = Closing(r, "client")] /\ UNCHANGED <<reg, mine>>
    BY <1>4 DEF ScanClient
  <2>2. Sound(Closing(r, "client"), Owner(c)) /\ Follows(Closing(r, "client"), r)
    BY <1>1, <1>4, ClosingSound
  <2>3. Closing(r, "client").hdl = "closing" /\ conn'[c] = Closing(r, "client")
    BY <1>1, <1>4, <2>1, ClosingSound DEF AllSound
  <2>. QED
    BY <1>4, <2>1, <2>2, <2>3, OneStays DEF Calm
<1>5. CASE r.home = l /\ c \in reg /\ r.hdl \notin {"open", "closed"}
  <2>1. UNCHANGED owned
    BY <1>5 DEF ScanClient, owned
  <2>2. AllSound' /\ OnlyOf(c) /\ NoneMoves /\ Calm(c)
    BY <2>1 DEF owned, AllSound, Owner, OnlyOf, NoneMoves, Calm
  <2>. QED
    BY <1>5, <2>1, <2>2 DEF owned
<1>. QED
  BY <1>2, <1>3, <1>4, <1>5

\* The stop task drops the sockets on their way to its loop.
LEMMA StopSound ==
  ASSUME AllSound, NEW w \in Worker, StopTask(w)
  PROVE  /\ AllSound'
         /\ \A c \in Conn : /\ conn'[c].hdl = conn[c].hdl
                            /\ conn'[c].home = conn[c].home
                            /\ conn'[c].obj = "socket" <=>
                                 conn[c].obj = "socket" /\ conn[c].home # w
<1>1. UNCHANGED <<reg, mine>>
  BY DEF StopTask
<1>2. ASSUME NEW c \in Conn
      PROVE  /\ Sound(conn'[c], Owner(c)') /\ conn'[c].hdl = conn[c].hdl
             /\ conn'[c].home = conn[c].home
             /\ conn'[c].obj = "socket" <=> conn[c].obj = "socket" /\ conn[c].home # w
  <2>. DEFINE r == conn[c]
              t == [r EXCEPT !.obj = "freed", !.shut = 1]
              u == [r EXCEPT !.obj = "freed", !.shut = @ + 1]
  <2>1. r \in ConnState /\ Sound(r, Owner(c)) /\ Owner(c)' = Owner(c)
    BY <1>1 DEF AllSound, Owner
  <2>2. CASE r.obj = "socket" /\ r.home = w
    <3>0. Acceptor \in Loop
      BY DEF Loop
    <3>1. Like(t, r, "freed", r.hdl, r.slot, r.mgr, 1) /\ r.shut = 0
      BY <2>1, <2>2, <3>0, SocketFields DEF Sound
    <3>2. conn'[c] = u
      BY <2>2 DEF StopTask
    <3>3. u = t
      <4>. DEFINE v == [r EXCEPT !.obj = "freed"]
      <4>1. v.shut = 0
        BY <2>1, <3>1 DEF ConnState
      <4>. HIDE DEF v
      <4>2. [v EXCEPT !.shut = @ + 1] = [v EXCEPT !.shut = 1]
        BY <4>1
      <4>. QED
        BY <4>2 DEF v
    <3>. HIDE DEF t, u
    <3>. QED
      BY <2>1, <2>2, <3>1, <3>2, <3>3 DEF Sound, Like
  <2>3. CASE ~(r.obj = "socket" /\ r.home = w)
    <3>1. conn'[c] = r
      BY <2>3 DEF StopTask
    <3>. QED
      BY <2>1, <2>3, <3>1
  <2>. QED
    BY <2>2, <2>3
<1>3. conn' \in [Conn -> ConnState]
  <2>1. \A c \in Conn : conn'[c] \in ConnState
    BY <1>2 DEF Sound
  <2>2. conn' = [c \in Conn |-> conn'[c]]
    BY DEF StopTask
  <2>. QED
    BY <2>1, <2>2
<1>. QED
  BY <1>1, <1>2, <1>3 DEF AllSound

\* The destructor deletes what is registered and closes what is being closed.
LEMMA DestroySound ==
  ASSUME IInv, AllSound, Destroy
  PROVE  /\ AllSound' /\ NoneMoves
         /\ \A c \in Conn : conn'[c].hdl # "closing"
<1>1. reg' = {} /\ mine' = mine
  BY DEF Destroy
<1>2. ASSUME NEW c \in Conn
      PROVE  /\ Sound(conn'[c], Owner(c)') /\ conn'[c].home = conn[c].home
             /\ conn'[c].obj = "socket" <=> conn[c].obj = "socket"
             /\ conn'[c].hdl # "closing"
  <2>. DEFINE d == IF c \in reg THEN Deleted(conn[c]) ELSE conn[c]
              s == IF d.home = Acceptor /\ d.hdl = "closing"
                   THEN [d EXCEPT !.hdl = "closed", !.slot = "none"] ELSE d
              owner == IF c \in mine THEN "user" ELSE "nobody"
  <2>1. conn[c] \in ConnState /\ Sound(conn[c], Owner(c))
    BY DEF AllSound
  <2>2. conn[c].home # Acceptor =>
          conn[c].hdl # "closing" /\ (c \in reg => conn[c].hdl # "open")
    <3>1. conn[c].home \in Worker \/ conn[c].home = Acceptor
      BY <2>1 DEF ConnState, Loop
    <3>. QED
      BY <3>1 DEF IInv, ExitHookWorks, Destroy
  <2>3. Owner(c)' = owner /\ conn'[c] = s
    BY <1>1 DEF Owner, Destroy
  <2>4. /\ d \in ConnState /\ d.home = conn[c].home
        /\ d.obj \in {"none", "socket"} =>
             /\ d.hdl = "none" /\ d.slot = "none" /\ ~d.mgr /\ d.shut = 0
             /\ ~d.taker /\ owner = "nobody"
        /\ d.obj = "alive" => d.hdl # "none" /\ (owner # "nobody" \/ d.taker)
        /\ d.hdl = "open" => d.obj = "alive" /\ d.slot = "none" /\ d.shut = 0
        /\ owner # "server" /\ (owner = "user" => ~d.mgr)
        /\ d.mgr => d.slot # "error"
        /\ d.taker => owner = "nobody"
        /\ ClosesOnce /\ d.obj \notin {"none", "socket"} /\ d.hdl # "open" => d.shut = 1
        /\ TakesForGood =>
             ~d.taker /\ (owner = "user" => d.obj = "alive" /\ d.slot # "error")
        /\ d.obj = "socket" <=> conn[c].obj = "socket"
        /\ d.home # Acceptor => d.hdl # "closing"
    <3>1. CASE c \in reg
      <4>1. /\ conn[c].hdl = "open" => conn[c].shut = 0
            /\ conn[c].obj = "alive" /\ owner = "nobody" /\ ~conn[c].taker
            /\ ClosesOnce /\ conn[c].hdl # "open" => conn[c].shut = 1
        BY <2>1, <3>1 DEF Sound, Owner, AllSound
      <4>2. IF conn[c].hdl = "open"
            THEN Like(d, conn[c], "freed", "closing", "reclaim", FALSE, 1)
            ELSE Like(d, conn[c], "freed", conn[c].hdl, conn[c].slot, FALSE, conn[c].shut)
        BY <2>1, <3>1, <4>1, DeletedFields
      <4>. HIDE DEF d, owner
      <4>. QED
        BY <2>2, <3>1, <4>1, <4>2 DEF Like
    <3>2. CASE c \notin reg
      BY <2>1, <2>2, <3>2 DEF Sound, Owner
    <3>. QED
      BY <3>1, <3>2
  <2>. HIDE DEF d
  <2>5. CASE d.home = Acceptor /\ d.hdl = "closing"
    <3>1. Like(s, d, d.obj, "closed", "none", d.mgr, d.shut)
      BY <2>4, <2>5, ClosedFields
    <3>. HIDE DEF s, owner
    <3>2. Sound(s, owner) /\ s.home = d.home /\ s.obj = d.obj /\ s.hdl = "closed"
      BY <2>4, <2>5, <3>1 DEF Sound, Like
    <3>. QED
      BY <2>3, <2>4, <3>2
  <2>6. CASE ~(d.home = Acceptor /\ d.hdl = "closing")
    <3>1. s = d /\ d.hdl # "closing"
      BY <2>4, <2>6
    <3>. HIDE DEF s
    <3>2. Sound(d, owner)
      BY <2>4, <3>1 DEF Sound
    <3>. QED
      BY <2>3, <2>4, <3>1, <3>2
  <2>. QED
    BY <2>5, <2>6
<1>3. conn' \in [Conn -> ConnState]
  <2>1. \A c \in Conn : conn'[c] \in ConnState
    BY <1>2 DEF Sound
  <2>2. conn' = [c \in Conn |-> conn'[c]]
    BY DEF Destroy
  <2>. QED
    BY <2>1, <2>2
<1>. QED
  BY <1>1, <1>2, <1>3 DEF AllSound, NoneMoves

\* What ends a connection on its loop.
Ends(c) ==
  \/ \E e \in {"fin", "error"}, r, a \in Reactions : PeerGone(c, e, r, a)
  \/ \E a \in Reactions : CloseDone(c, a)

Taking(c) == \E half \in Halves : TakeClient(c, half)

\* Every step, by what it does to the connections.
Bystanders ==
  \/ Listen \/ WorkerAnswers \/ AnswerTimesOut \/ ListenGivesUp \/ ListenReturns
  \/ \E w \in Worker : AskWorker(w) \/ StopWorker(w)
  \/ CloseAll \/ AcceptorScanned \/ StopServer
  \/ BeginDestroy \/ WorkerJoined \/ Terminated
  \/ \E w \in Worker, ok \in BOOLEAN : ListenTask(w, ok)
  \/ \E w \in Worker : UnlistenTask(w) \/ CloseAllTask(w) \/ WorkerScanned(w)
                         \/ ExitHook(w) \/ WorkerEnds(w)

LEMMA Steps ==
  ASSUME Next
  PROVE  \/ Bystanders
         \/ \E l \in Loop, c \in Conn, a \in Answers :
              Accept(l, c, a) \/ (l \in Worker /\ HandoffTask(l, c, a))
         \/ \E w \in Worker, c \in Conn : AcceptAndHandoff(w, c) \/ HandoffRefused(w, c)
         \/ \E c \in Conn : Ends(c) \/ Taking(c)
         \/ \E c \in Conn, a \in Answers : Served(c, a)
         \/ \E l \in Loop, c \in Conn : ScanClient(l, c)
         \/ \E w \in Worker : StopTask(w)
         \/ Destroy
<1>1. CASE Callers
  BY <1>1 DEF Callers, Bystanders
<1>2. CASE Peers
  BY <1>2 DEF Peers, Ends, Served
<1>3. CASE \E w \in Worker : Tasked(w) \/ WorkerScanned(w) \/ ExitHook(w) \/ WorkerEnds(w)
  BY <1>3 DEF Tasked, Bystanders, Loop
<1>4. CASE \E l \in Loop, c \in Conn : ScanClient(l, c)
  BY <1>4
<1>5. CASE \E c \in Conn : Users(c) \/ \E a \in Reactions : CloseDone(c, a)
  BY <1>5 DEF Answers, Users, Served, Ends, Taking
<1>. QED
  BY <1>1, <1>2, <1>3, <1>4, <1>5 DEF Next

\* Such a step concerns one client only.
LEMMA CallbacksKeep ==
  ASSUME NEW c \in Conn, Ends(c) \/ Taking(c) \/ \E a \in Answers : Served(c, a)
  PROVE  UNCHANGED <<calls, works, scans, lsn>>
<1>1. CASE Ends(c)
  BY <1>1 DEF Ends, PeerGone, CloseDone
<1>2. CASE Taking(c)
  BY <1>2 DEF Taking, TakeClient
<1>3. CASE \E a \in Answers : Served(c, a)
  BY <1>3 DEF Served, HandshakeDone, CloseClient, CloseHandle, ReturnClient, ReturnDead,
     UserDeletes
<1>. QED
  BY <1>1, <1>2, <1>3

LEMMA BystandersKeep ==
  ASSUME Bystanders
  PROVE  UNCHANGED owned
BY DEF Bystanders, Listen, WorkerAnswers, AnswerTimesOut, ListenGivesUp, ListenReturns,
       AskWorker, StopWorker, CloseAll, AcceptorScanned, StopServer, BeginDestroy,
       WorkerJoined, Terminated, ListenTask, UnlistenTask, CloseAllTask, WorkerScanned,
       ExitHook, WorkerEnds, vars, owned

LEMMA Unmoved ==
  ASSUME AllSound, UNCHANGED owned
  PROVE  AllSound' /\ NoneMoves /\ \A c \in Conn : OnlyOf(c) /\ Calm(c)
BY DEF owned, AllSound, Owner, NoneMoves, OnlyOf, Calm

\* The connections stay sound.
LEMMA SoundStep ==
  ASSUME IInv, AllSound, Next
  PROVE  AllSound'
BY Steps, BystandersKeep, Unmoved, AcceptSteps, HandoffSteps, PeerGoneSound, CloseDoneSound,
   TakeSound, UserSteps, ScanSound, StopSound, DestroySound DEF Ends, Taking

-----------------------------------------------------------------------------
(* Types.                                                                    *)

\* The mailboxes hold tasks.
LEMMA BoxStep ==
  ASSUME TypeOK, Next
  PROVE  box' \in [Worker -> Seq(Tasks)]
<1>1. /\ <<"listen">> \in Tasks /\ <<"unlisten">> \in Tasks /\ <<"closeAll">> \in Tasks
      /\ <<"stop">> \in Tasks /\ \A c \in Conn : <<"hand", c>> \in Tasks
  BY DEF Tasks
<1>2. box \in [Worker -> Seq(Tasks)]
  BY DEF TypeOK
<1>3. \A t \in Tasks, w \in Worker : Append(box[w], t) \in Seq(Tasks)
  BY <1>2
<1>4. \A w \in Worker : box[w] # << >> => Tail(box[w]) \in Seq(Tasks)
  BY <1>2
<1>5. \/ UNCHANGED box
      \/ \E t \in Tasks : box' = PostAll(t)
      \/ \E w \in Worker, t \in Tasks : box' = [box EXCEPT ![w] = Append(@, t)]
      \/ \E w \in Worker : box[w] # << >> /\ Pop(w)
      \/ \E w \in Worker : box' = [box EXCEPT ![w] = << >>]
  <2>1. CASE Bystanders
    BY <1>1, <1>2, <2>1 DEF Bystanders, Listen, WorkerAnswers, AnswerTimesOut,
       ListenGivesUp, ListenReturns,
       AskWorker, StopWorker, CloseAll, AcceptorScanned, StopServer, BeginDestroy,
       WorkerJoined, Terminated, ListenTask, UnlistenTask, CloseAllTask, WorkerScanned,
       ExitHook, WorkerEnds, vars, works, Runs
  <2>2. CASE \E l \in Loop, c \in Conn, a \in Answers :
               Accept(l, c, a) \/ (l \in Worker /\ HandoffTask(l, c, a))
    BY <2>2 DEF Accept, HandoffTask, works, Runs
  <2>3. CASE \E w \in Worker, c \in Conn : AcceptAndHandoff(w, c) \/ HandoffRefused(w, c)
    BY <1>1, <1>2, <2>3 DEF AcceptAndHandoff, HandoffRefused, Runs
  <2>4. CASE \/ \E c \in Conn : Ends(c) \/ Taking(c)
             \/ \E c \in Conn, a \in Answers : Served(c, a)
    BY <2>4, CallbacksKeep DEF works
  <2>5. CASE \E l \in Loop, c \in Conn : ScanClient(l, c)
    BY <2>5 DEF ScanClient, works
  <2>6. CASE \E w \in Worker : StopTask(w)
    BY <2>6 DEF StopTask
  <2>7. CASE Destroy
    BY <2>7 DEF Destroy, works
  <2>. QED
    BY <2>1, <2>2, <2>3, <2>4, <2>5, <2>6, <2>7, Steps
<1>. QED
  <2>1. ASSUME NEW t \in Tasks, box' = PostAll(t)
        PROVE  box' \in [Worker -> Seq(Tasks)]
    BY <1>2, <1>3, <2>1 DEF PostAll
  <2>2. ASSUME NEW w \in Worker, box[w] # << >>, Pop(w)
        PROVE  box' \in [Worker -> Seq(Tasks)]
    BY <1>2, <1>4, <2>2 DEF Pop
  <2>3. ASSUME NEW w \in Worker, NEW t \in Tasks, box' = [box EXCEPT ![w] = Append(@, t)]
        PROVE  box' \in [Worker -> Seq(Tasks)]
    BY <1>2, <1>3, <2>3
  <2>4. ASSUME NEW w \in Worker, box' = [box EXCEPT ![w] = << >>]
        PROVE  box' \in [Worker -> Seq(Tasks)]
    BY <1>2, <2>4
  <2>. QED
    BY <1>2, <1>5, <2>1, <2>2, <2>3, <2>4

LEMMA ScanStep ==
  ASSUME TypeOK, Next
  PROVE  scanning' \subseteq Loop /\ scan' \in [Loop -> SUBSET Conn]
<1>1. scanning \subseteq Loop /\ scan \in [Loop -> SUBSET Conn] /\ reg \subseteq Conn
  BY DEF TypeOK
<1>2. \A l \in Loop : BeginScan(l) => scanning' \subseteq Loop /\ scan' \in [Loop -> SUBSET Conn]
  BY <1>1 DEF BeginScan
<1>3. CASE Bystanders
  <2>1. \/ UNCHANGED scans
        \/ \E l \in Loop : BeginScan(l)
        \/ scanning' \subseteq scanning /\ UNCHANGED scan
    BY <1>3 DEF Bystanders, Listen, WorkerAnswers, AnswerTimesOut, ListenGivesUp,
       ListenReturns, AskWorker, StopWorker, CloseAll, AcceptorScanned, StopServer,
       BeginDestroy, WorkerJoined, Terminated, ListenTask, UnlistenTask, CloseAllTask,
       WorkerScanned, ExitHook, WorkerEnds, vars, scans, Loop
  <2>. QED
    BY <1>1, <1>2, <2>1 DEF scans
<1>4. CASE \E l \in Loop, c \in Conn : ScanClient(l, c)
  BY <1>1, <1>4 DEF ScanClient
<1>5. CASE \/ \E l \in Loop, c \in Conn, a \in Answers :
                Accept(l, c, a) \/ (l \in Worker /\ HandoffTask(l, c, a))
           \/ \E w \in Worker, c \in Conn : AcceptAndHandoff(w, c) \/ HandoffRefused(w, c)
           \/ \E c \in Conn : Ends(c) \/ Taking(c)
           \/ \E c \in Conn, a \in Answers : Served(c, a)
           \/ \E w \in Worker : StopTask(w)
           \/ Destroy
  <2>1. UNCHANGED scans
    BY <1>5, CallbacksKeep DEF Accept, HandoffTask, AcceptAndHandoff, HandoffRefused,
       StopTask, Destroy
  <2>. QED
    BY <1>1, <2>1 DEF scans
<1>. QED
  BY <1>3, <1>4, <1>5, Steps

\* What is left of the types.
Plain ==
  /\ srv \in {"bound", "starting", "listening", "failed", "stopped", "dying", "gone"}
  /\ fan \in BOOLEAN /\ tls \in BOOLEAN /\ cb \in BOOLEAN /\ failed \in BOOLEAN
  /\ lsn \subseteq Loop /\ todo \subseteq Worker
  /\ waitFor \in Worker \cup {NoWorker}
  /\ answer \in [Worker -> {"none", "ok", "error"}]
  /\ wk \in [Worker -> {"run", "quit", "hook", "pump", "gone"}]
  /\ sweeps \in 0..MaxSweeps

LEMMA PlainStep ==
  ASSUME TypeOK, Next
  PROVE  Plain'
<1>. USE SweepAssumption
<1>1. Plain
  BY DEF TypeOK, Plain
<1>2. CASE \/ Listen \/ WorkerAnswers \/ AnswerTimesOut \/ ListenGivesUp \/ ListenReturns
           \/ \E w \in Worker : AskWorker(w) \/ StopWorker(w)
           \/ CloseAll \/ AcceptorScanned \/ StopServer
           \/ BeginDestroy \/ WorkerJoined \/ Terminated
  <2>1. CASE Listen \/ ListenGivesUp \/ ListenReturns \/ StopServer \/ BeginDestroy
    BY <1>1, <2>1 DEF Plain, Listen, ListenGivesUp, ListenReturns, StopServer,
       BeginDestroy, works, Loop
  <2>2. CASE WorkerAnswers \/ AnswerTimesOut \/ WorkerJoined
    BY <1>1, <2>2 DEF Plain, WorkerAnswers, AnswerTimesOut, WorkerJoined, works
  <2>3. CASE \E w \in Worker : AskWorker(w) \/ StopWorker(w)
    BY <1>1, <2>3 DEF Plain, AskWorker, StopWorker
  <2>4. CASE CloseAll
    BY <1>1, <2>4 DEF Plain, CloseAll, works
  <2>5. CASE AcceptorScanned \/ Terminated
    BY <1>1, <2>5 DEF Plain, AcceptorScanned, Terminated, vars, calls, works
  <2>. QED
    BY <1>2, <2>1, <2>2, <2>3, <2>4, <2>5
<1>3. CASE \/ \E w \in Worker, ok \in BOOLEAN : ListenTask(w, ok)
           \/ \E w \in Worker : UnlistenTask(w) \/ CloseAllTask(w) \/ WorkerScanned(w)
                                  \/ ExitHook(w) \/ WorkerEnds(w)
  BY <1>1, <1>3 DEF Plain, ListenTask, UnlistenTask, CloseAllTask, WorkerScanned, ExitHook,
     WorkerEnds, calls, works, Loop
<1>4. CASE \E w \in Worker : StopTask(w)
  BY <1>1, <1>4 DEF Plain, StopTask, calls
<1>5. CASE Destroy
  BY <1>1, <1>5 DEF Plain, Destroy, works
<1>6. CASE \/ \E l \in Loop, c \in Conn, a \in Answers :
                Accept(l, c, a) \/ (l \in Worker /\ HandoffTask(l, c, a))
           \/ \E w \in Worker, c \in Conn : AcceptAndHandoff(w, c) \/ HandoffRefused(w, c)
           \/ \E c \in Conn : Ends(c) \/ Taking(c)
           \/ \E c \in Conn, a \in Answers : Served(c, a)
           \/ \E l \in Loop, c \in Conn : ScanClient(l, c)
  <2>1. UNCHANGED <<calls, wk, answer, lsn>>
    BY <1>6, CallbacksKeep DEF Accept, HandoffTask, AcceptAndHandoff, HandoffRefused,
       ScanClient, works
  <2>. QED
    BY <1>1, <2>1 DEF Plain, calls
<1>. QED
  BY <1>2, <1>3, <1>4, <1>5, <1>6, Steps DEF Bystanders

LEMMA TypeStep ==
  ASSUME IInv, AllSound, Next
  PROVE  TypeOK'
BY SoundStep, BoxStep, ScanStep, PlainStep DEF IInv, TypeOK, AllSound, Plain

-----------------------------------------------------------------------------
(* Mailboxes and sockets.                                                    *)

SocketsStay ==
  \A d \in Conn : /\ conn'[d].obj = "socket" <=> conn[d].obj = "socket"
                  /\ conn[d].obj = "socket" => conn'[d].home = conn[d].home

\* A step that sends no socket and drops none.
LEMMA TransitKept ==
  ASSUME IInv, SocketsStay,
         \A w \in Worker : wk[w] = "run" => wk'[w] = "run",
         \A w \in Worker :
           \/ box'[w] = box[w]
           \/ \E t \in Tasks : /\ box'[w] = Append(box[w], t)
                               /\ \A c \in Conn : t # <<"hand", c>>
           \/ box[w] # << >> /\ box'[w] = Tail(box[w])
  PROVE  InTransit'
<1>1. \A w \in Worker : box[w] \in Seq(Tasks)
  BY DEF IInv, TypeOK
<1>2. ASSUME NEW w \in Worker, NEW c \in Conn, NEW i \in 1..Len(box'[w]), Carries(w, i, c)'
      PROVE  /\ conn'[c].obj = "socket" /\ conn'[c].home = w
             /\ \A j \in 1..Len(box'[w]) : Carries(w, j, c)' => j = i
  <2>1. CASE box'[w] = box[w]
    BY <1>2, <2>1 DEF IInv, InTransit, Carries, SocketsStay
  <2>2. CASE \E t \in Tasks : /\ box'[w] = Append(box[w], t)
                              /\ \A d \in Conn : t # <<"hand", d>>
    <3>1. PICK t \in Tasks : /\ box'[w] = Append(box[w], t)
                             /\ \A d \in Conn : t # <<"hand", d>>
      BY <2>2
    <3>2. \A j \in 1..Len(box'[w]) : \/ j \in 1..Len(box[w]) /\ box'[w][j] = box[w][j]
                                     \/ box'[w][j] = t
      BY <1>1, <3>1
    <3>3. \A j \in 1..Len(box'[w]) : Carries(w, j, c)' => j \in 1..Len(box[w]) /\ Carries(w, j, c)
      BY <3>1, <3>2 DEF Carries
    <3>. QED
      BY <1>2, <3>3 DEF IInv, InTransit, SocketsStay
  <2>3. CASE box[w] # << >> /\ box'[w] = Tail(box[w])
    <3>1. \A j \in 1..Len(box'[w]) :
            Carries(w, j, c)' => j + 1 \in 1..Len(box[w]) /\ Carries(w, j + 1, c)
      BY <1>1, <2>3 DEF Carries
    <3>2. /\ conn[c].obj = "socket" /\ conn[c].home = w
          /\ \A j \in 1..Len(box[w]) : Carries(w, j, c) => j = i + 1
      BY <1>2, <3>1 DEF IInv, InTransit
    <3>3. \A j \in 1..Len(box'[w]) : Carries(w, j, c)' => j = i
      <4>1. SUFFICES ASSUME NEW j \in 1..Len(box'[w]), Carries(w, j, c)'
                     PROVE  j = i
        OBVIOUS
      <4>2. j + 1 = i + 1
        BY <3>1, <3>2, <4>1
      <4>3. Len(box'[w]) \in Nat
        BY <1>1, <2>3
      <4>. QED
        BY <4>2, <4>3
    <3>. QED
      BY <3>2, <3>3 DEF SocketsStay
  <2>. QED
    BY <2>1, <2>2, <2>3
<1>3. \A c \in Conn : conn'[c].obj = "socket" =>
        conn'[c].home \in Worker /\ wk'[conn'[c].home] = "run"
  BY DEF IInv, InTransit, SocketsStay
<1>. QED
  BY <1>2, <1>3 DEF InTransit

\* The socket at the head of a mailbox is taken out.
LEMMA TransitEnds ==
  ASSUME IInv, NEW w \in Worker, NEW c \in Conn, Runs(w, <<"hand", c>>), Pop(w),
         OnlyOf(c), conn'[c].obj # "socket", UNCHANGED wk
  PROVE  InTransit'
<1>1. box[w] \in Seq(Tasks) /\ box[w] # << >> /\ box'[w] = Tail(box[w])
  BY DEF IInv, TypeOK, Runs, Pop
<1>2. \A v \in Worker \ {w} : box'[v] = box[v]
  BY DEF IInv, TypeOK, Pop
<1>3. /\ conn[c].obj = "socket" /\ conn[c].home = w
      /\ \A j \in 1..Len(box[w]) : Carries(w, j, c) => j = 1
  BY RunsFirst DEF IInv, InTransit
<1>4. \A d \in Conn : \A j \in 1..Len(box'[w]) :
        Carries(w, j, d)' => j + 1 \in 1..Len(box[w]) /\ Carries(w, j + 1, d)
  BY <1>1 DEF Carries
<1>5. \A j \in 1..Len(box'[w]) : ~Carries(w, j, c)'
  <2>1. SUFFICES ASSUME NEW j \in 1..Len(box'[w]), Carries(w, j, c)'
                 PROVE  FALSE
    OBVIOUS
  <2>2. j + 1 = 1 /\ Len(box'[w]) \in Nat
    BY <1>1, <1>3, <1>4, <2>1
  <2>. QED
    BY <2>2
<1>6. ASSUME NEW v \in Worker, NEW d \in Conn, NEW i \in 1..Len(box'[v]), Carries(v, i, d)'
      PROVE  /\ conn'[d].obj = "socket" /\ conn'[d].home = v
             /\ \A j \in 1..Len(box'[v]) : Carries(v, j, d)' => j = i
  <2>1. CASE v = w
    <3>1. d # c
      BY <1>5, <1>6, <2>1
    <3>2. /\ conn[d].obj = "socket" /\ conn[d].home = w
          /\ \A j \in 1..Len(box[w]) : Carries(w, j, d) => j = i + 1
      BY <1>4, <1>6, <2>1 DEF IInv, InTransit
    <3>3. ASSUME NEW j \in 1..Len(box'[w]), Carries(w, j, d)'
          PROVE  j = i
      <4>1. j + 1 = i + 1 /\ Len(box'[w]) \in Nat
        BY <1>1, <1>4, <3>2, <3>3
      <4>. QED
        BY <4>1, <2>1
    <3>. QED
      BY <2>1, <3>1, <3>2, <3>3 DEF OnlyOf
  <2>2. CASE v # w
    <3>1. Carries(v, i, d) /\ i \in 1..Len(box[v]) /\ d # c
      BY <1>2, <1>3, <1>6, <2>2 DEF Carries, IInv, InTransit
    <3>. QED
      BY <1>2, <2>2, <3>1 DEF Carries, IInv, InTransit, OnlyOf
  <2>. QED
    BY <2>1, <2>2
<1>7. \A d \in Conn : conn'[d].obj = "socket" =>
        conn'[d].home \in Worker /\ wk'[conn'[d].home] = "run"
  BY DEF IInv, InTransit, OnlyOf
<1>. QED
  BY <1>6, <1>7 DEF InTransit

\* A socket that was nowhere yet is sent.
LEMMA TransitBegins ==
  ASSUME IInv, NEW w \in Worker, NEW c \in Conn, conn[c].obj = "none",
         box' = [box EXCEPT ![w] = Append(@, <<"hand", c>>)],
         OnlyOf(c), conn'[c].obj = "socket", conn'[c].home = w,
         wk[w] = "run", UNCHANGED wk
  PROVE  InTransit'
<1>1. box[w] \in Seq(Tasks) /\ box'[w] = Append(box[w], <<"hand", c>>)
  BY DEF IInv, TypeOK
<1>2. \A v \in Worker \ {w} : box'[v] = box[v]
  BY DEF IInv, TypeOK
<1>3. \A v \in Worker : \A j \in 1..Len(box[v]) : ~Carries(v, j, c)
  BY DEF IInv, InTransit
<1>4. \A d \in Conn : \A j \in 1..Len(box'[w]) :
        Carries(w, j, d)' =>
          \/ d # c /\ j \in 1..Len(box[w]) /\ Carries(w, j, d)
          \/ d = c /\ j = Len(box[w]) + 1
  BY <1>1, <1>3 DEF Carries
<1>5. ASSUME NEW v \in Worker, NEW d \in Conn, NEW i \in 1..Len(box'[v]), Carries(v, i, d)'
      PROVE  /\ conn'[d].obj = "socket" /\ conn'[d].home = v
             /\ \A j \in 1..Len(box'[v]) : Carries(v, j, d)' => j = i
  <2>1. CASE v = w
    BY <1>4, <1>5, <2>1 DEF IInv, InTransit, OnlyOf
  <2>2. CASE v # w
    <3>1. Carries(v, i, d) /\ i \in 1..Len(box[v]) /\ d # c
      BY <1>2, <1>3, <1>5, <2>2 DEF Carries
    <3>. QED
      BY <1>2, <2>2, <3>1 DEF Carries, IInv, InTransit, OnlyOf
  <2>. QED
    BY <2>1, <2>2
<1>6. \A d \in Conn : conn'[d].obj = "socket" =>
        conn'[d].home \in Worker /\ wk'[conn'[d].home] = "run"
  BY DEF IInv, InTransit, OnlyOf
<1>. QED
  BY <1>5, <1>6 DEF InTransit

\* What a task other than a connection is.
LEMMA OtherTasks ==
  \A t \in {<<"listen">>, <<"unlisten">>, <<"closeAll">>, <<"stop">>} :
    t \in Tasks /\ \A c \in Conn : t # <<"hand", c>>
BY DEF Tasks

LEMMA TransitStep ==
  ASSUME IInv, AllSound, Next
  PROVE  InTransit'
<1>. DEFINE Kept(w) == \/ box'[w] = box[w]
                       \/ \E t \in Tasks : /\ box'[w] = Append(box[w], t)
                                           /\ \A c \in Conn : t # <<"hand", c>>
                       \/ box[w] # << >> /\ box'[w] = Tail(box[w])
<1>1. /\ NoneMoves => SocketsStay
      /\ UNCHANGED box => \A w \in Worker : Kept(w)
      /\ UNCHANGED wk => \A w \in Worker : wk[w] = "run" => wk'[w] = "run"
      /\ box \in [Worker -> Seq(Tasks)] /\ wk \in [Worker -> {"run", "quit", "hook", "pump", "gone"}]
  BY DEF NoneMoves, SocketsStay, IInv, TypeOK
<1>2. CASE Bystanders
  <2>1. SocketsStay
    BY <1>1, <1>2, BystandersKeep, Unmoved
  <2>2. \A w \in Worker : wk[w] = "run" => wk'[w] = "run"
    BY <1>1, <1>2 DEF Bystanders, Listen, WorkerAnswers, AnswerTimesOut, ListenGivesUp,
       ListenReturns, AskWorker, StopWorker, CloseAll, AcceptorScanned, StopServer,
       BeginDestroy, WorkerJoined, Terminated, ListenTask, UnlistenTask, CloseAllTask,
       WorkerScanned, ExitHook, WorkerEnds, vars, works
  <2>3. \/ UNCHANGED box
        \/ box' = PostAll(<<"unlisten">>) \/ box' = PostAll(<<"closeAll">>)
        \/ \E v \in Worker : \/ box' = [box EXCEPT ![v] = Append(@, <<"listen">>)]
                             \/ box' = [box EXCEPT ![v] = Append(@, <<"stop">>)]
                             \/ box[v] # << >> /\ Pop(v)
    BY <1>2 DEF Bystanders, Listen, WorkerAnswers, AnswerTimesOut, ListenGivesUp,
       ListenReturns, AskWorker, StopWorker, CloseAll, AcceptorScanned, StopServer,
       BeginDestroy, WorkerJoined, Terminated, ListenTask, UnlistenTask, CloseAllTask,
       WorkerScanned, ExitHook, WorkerEnds, vars, works, Runs
  <2>4. \A w \in Worker : Kept(w)
    BY <1>1, <2>3, OtherTasks DEF PostAll, Pop
  <2>. QED
    BY <2>1, <2>2, <2>4, TransitKept
<1>3. CASE \E l \in Loop, c \in Conn, a \in Answers : Accept(l, c, a)
  <2>1. PICK l \in Loop, c \in Conn, a \in Answers : Accept(l, c, a)
    BY <1>3
  <2>2. SocketsStay
    BY <2>1, AcceptSteps DEF Accept, OnlyOf, SocketsStay
  <2>. QED
    BY <1>1, <2>1, <2>2, TransitKept DEF Accept, works
<1>4. CASE \E w \in Worker, c \in Conn, a \in Answers : HandoffTask(w, c, a)
  <2>1. PICK w \in Worker, c \in Conn, a \in Answers : HandoffTask(w, c, a)
    BY <1>4
  <2>2. OnlyOf(c) /\ conn'[c].obj # "socket"
    BY <2>1, AcceptSteps DEF Loop
  <2>. QED
    BY <2>1, <2>2, TransitEnds DEF HandoffTask
<1>5. CASE \E w \in Worker, c \in Conn : AcceptAndHandoff(w, c) \/ HandoffRefused(w, c)
  <2>1. PICK w \in Worker, c \in Conn : AcceptAndHandoff(w, c) \/ HandoffRefused(w, c)
    BY <1>5
  <2>2. /\ OnlyOf(c)
        /\ IF AcceptAndHandoff(w, c) /\ Accepts(w)
           THEN conn'[c].obj = "socket" /\ conn'[c].home = w
           ELSE conn'[c].obj = "freed"
    BY <2>1, HandoffSteps
  <2>3. CASE AcceptAndHandoff(w, c) /\ Accepts(w)
    BY <2>2, <2>3, TransitBegins DEF AcceptAndHandoff, Accepts
  <2>4. CASE AcceptAndHandoff(w, c) /\ ~Accepts(w)
    <3>1. SocketsStay /\ UNCHANGED <<box, wk>>
      BY <2>2, <2>4 DEF AcceptAndHandoff, OnlyOf, SocketsStay
    <3>. QED
      BY <1>1, <3>1, TransitKept
  <2>5. CASE ~AcceptAndHandoff(w, c) /\ HandoffRefused(w, c)
    BY <2>2, <2>5, TransitEnds DEF HandoffRefused
  <2>. QED
    BY <2>1, <2>3, <2>4, <2>5
<1>6. CASE \/ \E c \in Conn : Ends(c) \/ Taking(c)
           \/ \E c \in Conn, a \in Answers : Served(c, a)
           \/ \E l \in Loop, c \in Conn : ScanClient(l, c)
           \/ Destroy
  <2>1. NoneMoves
    BY <1>6, PeerGoneSound, CloseDoneSound, TakeSound, UserSteps, ScanSound, DestroySound
       DEF Ends, Taking
  <2>2. UNCHANGED works
    BY <1>6, CallbacksKeep DEF ScanClient, Destroy
  <2>. QED
    BY <1>1, <2>1, <2>2, TransitKept DEF works
<1>7. CASE \E w \in Worker : StopTask(w)
  <2>1. PICK w \in Worker : StopTask(w)
    BY <1>7
  <2>2. \A c \in Conn : /\ conn'[c].home = conn[c].home
                        /\ conn'[c].obj = "socket" <=>
                             conn[c].obj = "socket" /\ conn[c].home # w
    BY <2>1, StopSound
  <2>3. /\ box'[w] = << >> /\ Len(box'[w]) = 0
        /\ \A v \in Worker \ {w} : box'[v] = box[v] /\ wk'[v] = wk[v]
    BY <1>1, <2>1 DEF StopTask
  <2>4. \A v \in Worker, c \in Conn : \A i \in 1..Len(box'[v]) :
          Carries(v, i, c)' => v # w /\ i \in 1..Len(box[v]) /\ Carries(v, i, c)
    BY <2>3 DEF Carries
  <2>5. ASSUME NEW v \in Worker, NEW c \in Conn, NEW i \in 1..Len(box'[v]), Carries(v, i, c)'
        PROVE  /\ conn'[c].obj = "socket" /\ conn'[c].home = v
               /\ \A j \in 1..Len(box'[v]) : Carries(v, j, c)' => j = i
    BY <2>2, <2>4, <2>5 DEF IInv, InTransit
  <2>6. \A c \in Conn : conn'[c].obj = "socket" =>
          conn'[c].home \in Worker /\ wk'[conn'[c].home] = "run"
    BY <2>2, <2>3 DEF IInv, InTransit
  <2>. QED
    BY <2>5, <2>6 DEF InTransit
<1>. QED
  BY <1>2, <1>3, <1>4, <1>5, <1>6, <1>7, Steps

-----------------------------------------------------------------------------
(* The exit hook and the destructor.                                         *)

\* A callback about one connection, on a loop that has not yet run its hook,
\* or one that keeps what the hook has done, or a foreign thread that takes it.
LEMMA CallbackKeepsExit ==
  ASSUME IInv, NEW c \in Conn, OnlyOf(c), UNCHANGED <<wk, lsn, scans>>,
         \/ conn'[c].home = Acceptor
         \/ wk[conn'[c].home] = "run"
         \/ conn'[c].home = conn[c].home /\ Calm(c) /\ wk[conn[c].home] # "gone"
         \/ /\ conn'[c].home = conn[c].home /\ conn'[c].hdl = conn[c].hdl
            /\ c \notin reg'
  PROVE  ExitHookWorks'
BY LoopAssumption DEF IInv, ExitHookWorks, OnlyOf, Calm, scans

LEMMA ExitStep ==
  ASSUME IInv, AllSound, Next
  PROVE  ExitHookWorks'
<1>1. /\ ExitHookWorks /\ wk \in [Worker -> {"run", "quit", "hook", "pump", "gone"}]
      /\ lsn \subseteq Loop /\ scan \in [Loop -> SUBSET Conn] /\ Acceptor \notin Worker
      /\ \A c \in Conn : conn[c].home \in Worker \/ conn[c].home = Acceptor
      /\ \A w \in Worker : w \in Loop
  BY LoopAssumption DEF IInv, TypeOK, ConnState, Loop
<1>2. CASE \/ Listen \/ WorkerAnswers \/ AnswerTimesOut \/ ListenGivesUp \/ ListenReturns
           \/ \E w \in Worker : AskWorker(w) \/ StopWorker(w)
           \/ AcceptorScanned \/ StopServer
           \/ BeginDestroy \/ WorkerJoined \/ Terminated
           \/ \E w \in Worker : UnlistenTask(w)
  <2>1. /\ UNCHANGED <<wk, scan, owned>> /\ lsn' \subseteq lsn \cup {Acceptor}
        /\ scanning' \subseteq scanning
    BY <1>2 DEF Listen, WorkerAnswers, AnswerTimesOut, ListenGivesUp, ListenReturns,
       AskWorker, StopWorker, AcceptorScanned, StopServer, BeginDestroy, WorkerJoined,
       Terminated, UnlistenTask, vars, works, scans
  <2>. QED
    BY <1>1, <2>1 DEF ExitHookWorks, owned
<1>3. CASE CloseAll
  BY <1>1, <1>3 DEF CloseAll, BeginScan, works, owned, ExitHookWorks
<1>4. CASE \E w \in Worker, ok \in BOOLEAN : ListenTask(w, ok)
  <2>1. PICK w \in Worker : /\ wk[w] = "run" /\ lsn' \subseteq lsn \cup {w}
                            /\ UNCHANGED <<wk, scanning, scan, reg, conn>>
    BY <1>1, <1>4 DEF ListenTask, Runs, Serves, scans, owned
  <2>. QED
    BY <1>1, <2>1 DEF ExitHookWorks
<1>5. CASE \E w \in Worker : CloseAllTask(w)
  <2>1. PICK w \in Worker : /\ wk[w] = "run" /\ scanning' = scanning \cup {w}
                            /\ scan' = [scan EXCEPT ![w] = reg]
                            /\ UNCHANGED <<wk, lsn, reg, conn>>
    BY <1>1, <1>5 DEF CloseAllTask, BeginScan, Runs, Serves, owned
  <2>. QED
    BY <1>1, <2>1 DEF ExitHookWorks
<1>6. CASE \E w \in Worker : WorkerScanned(w)
  <2>1. PICK w \in Worker : WorkerScanned(w)
    BY <1>6
  <2>2. /\ w \in scanning /\ scan[w] = {} /\ scanning' = scanning \ {w}
        /\ UNCHANGED <<lsn, scan, reg, conn>>
        /\ \A v \in Worker : wk'[v] = IF v = w /\ wk[w] = "hook" THEN "pump" ELSE wk[v]
    BY <1>1, <2>1 DEF WorkerScanned, owned
  <2>3. wk[w] = "run" \/ wk[w] = "hook"
    BY <1>1, <2>2 DEF ExitHookWorks
  <2>. QED
    BY <1>1, <2>2, <2>3 DEF ExitHookWorks
<1>7. CASE \E w \in Worker : ExitHook(w)
  <2>1. PICK w \in Worker : ExitHook(w)
    BY <1>7
  <2>2. /\ wk[w] = "quit" /\ scanning' = scanning \cup {w} /\ lsn' = lsn \ {w}
        /\ UNCHANGED <<reg, conn>> /\ scan'[w] = reg
        /\ \A v \in Worker \ {w} : scan'[v] = scan[v]
        /\ \A v \in Worker : wk'[v] = IF v = w THEN "hook" ELSE wk[v]
    BY <1>1, <2>1 DEF ExitHook, BeginScan, owned
  <2>. QED
    BY <1>1, <2>2 DEF ExitHookWorks
<1>8. CASE \E w \in Worker : WorkerEnds(w)
  <2>1. PICK w \in Worker : WorkerEnds(w)
    BY <1>8
  <2>2. /\ wk[w] = "pump" /\ UNCHANGED <<lsn, scanning, scan, reg, conn>>
        /\ \A c \in Conn : conn[c].home = w => conn[c].hdl # "closing"
        /\ \A v \in Worker : wk'[v] = IF v = w THEN "gone" ELSE wk[v]
    BY <1>1, <2>1 DEF WorkerEnds, scans, owned
  <2>. QED
    BY <1>1, <2>2 DEF ExitHookWorks
<1>9. CASE \E l \in Loop, c \in Conn, a \in Answers :
             Accept(l, c, a) \/ (l \in Worker /\ HandoffTask(l, c, a))
  <2>1. PICK l \in Loop, c \in Conn, a \in Answers :
               Accept(l, c, a) \/ (l \in Worker /\ HandoffTask(l, c, a))
    BY <1>9
  <2>2. OnlyOf(c) /\ conn'[c].home = l
    BY <2>1, AcceptSteps
  <2>3. UNCHANGED <<wk, lsn, scans>> /\ (l = Acceptor \/ wk[l] = "run")
    BY <2>1 DEF Accept, HandoffTask, Runs, Serves, works
  <2>. QED
    BY <2>2, <2>3, CallbackKeepsExit
<1>10. CASE \E w \in Worker, c \in Conn : AcceptAndHandoff(w, c) \/ HandoffRefused(w, c)
  <2>1. PICK w \in Worker, c \in Conn : AcceptAndHandoff(w, c) \/ HandoffRefused(w, c)
    BY <1>10
  <2>2. OnlyOf(c) /\ conn'[c].hdl = "none"
    BY <2>1, HandoffSteps
  <2>3. UNCHANGED <<wk, lsn, scans, reg>>
    BY <2>1 DEF AcceptAndHandoff, HandoffRefused
  <2>. QED
    BY <1>1, <2>2, <2>3 DEF ExitHookWorks, OnlyOf, scans
<1>11. CASE \E c \in Conn : Ends(c) \/ Taking(c)
  <2>1. PICK c \in Conn : Ends(c) \/ Taking(c)
    BY <1>11
  <2>2. UNCHANGED <<wk, lsn, scans>>
    BY <2>1, CallbacksKeep DEF works
  <2>3. CASE Ends(c)
    <3>1. OnlyOf(c) /\ NoneMoves /\ Calm(c)
      BY <2>3, PeerGoneSound, CloseDoneSound DEF Ends
    <3>2. Polls(conn[c].home)
      BY <2>3 DEF Ends, PeerGone, CloseDone
    <3>3. conn[c].home = Acceptor \/ wk[conn[c].home] # "gone"
      BY <3>2 DEF Polls
    <3>. QED
      BY <2>2, <3>1, <3>3, CallbackKeepsExit DEF NoneMoves
  <2>4. CASE Taking(c)
    <3>1. OnlyOf(c) /\ NoneMoves /\ c \notin reg' /\ conn'[c].hdl = conn[c].hdl
      BY <2>4, TakeSound DEF Taking
    <3>. QED
      BY <2>2, <3>1, CallbackKeepsExit DEF NoneMoves
  <2>. QED
    BY <2>1, <2>3, <2>4
<1>12. CASE \E c \in Conn, a \in Answers : Served(c, a)
  <2>1. PICK c \in Conn, a \in Answers : Served(c, a)
    BY <1>12
  <2>2. OnlyOf(c) /\ NoneMoves /\ Serves(conn[c].home)
    BY <2>1, UserSteps
  <2>3. UNCHANGED <<wk, lsn, scans>>
    BY <2>1, CallbacksKeep DEF works
  <2>4. conn[c].home = Acceptor \/ wk[conn[c].home] = "run"
    BY <2>2 DEF Serves
  <2>. QED
    BY <2>2, <2>3, <2>4, CallbackKeepsExit DEF NoneMoves
<1>13. CASE \E l \in Loop, c \in Conn : ScanClient(l, c)
  <2>1. PICK l \in Loop, c \in Conn : ScanClient(l, c)
    BY <1>13
  <2>2. /\ OnlyOf(c) /\ NoneMoves /\ Calm(c)
        /\ conn[c].home = l /\ c \in reg' => conn'[c].hdl # "open"
        /\ conn[c].home # l => UNCHANGED owned
    BY <2>1, ScanSound
  <2>3. /\ UNCHANGED <<wk, lsn, scanning>> /\ l \in scanning
        /\ scan'[l] = scan[l] \ {c} /\ \A k \in Loop \ {l} : scan'[k] = scan[k]
    BY <1>1, <2>1 DEF ScanClient, works
  <2>4. l = Acceptor \/ wk[l] = "run" \/ wk[l] = "hook"
    BY <1>1, <2>1, <2>3 DEF ExitHookWorks, Loop
  <2>5. CASE conn[c].home = l
    BY <1>1, <2>2, <2>3, <2>4, <2>5 DEF ExitHookWorks, OnlyOf, NoneMoves, Calm
  <2>6. CASE conn[c].home # l
    BY <1>1, <2>2, <2>3, <2>4, <2>6 DEF ExitHookWorks, owned
  <2>. QED
    BY <2>5, <2>6
<1>14. CASE \E w \in Worker : StopTask(w)
  <2>1. PICK w \in Worker : StopTask(w)
    BY <1>14
  <2>2. \A c \in Conn : conn'[c].hdl = conn[c].hdl /\ conn'[c].home = conn[c].home
    BY <2>1, StopSound
  <2>3. /\ UNCHANGED <<lsn, scanning, scan, reg>> /\ wk[w] = "run" /\ w \notin scanning
        /\ \A v \in Worker : wk'[v] = IF v = w THEN "quit" ELSE wk[v]
    BY <1>1, <2>1 DEF StopTask, Runs, Serves, Polls, scans
  <2>. QED
    BY <1>1, <2>2, <2>3 DEF ExitHookWorks
<1>15. CASE Destroy
  <2>1. NoneMoves /\ \A c \in Conn : conn'[c].hdl # "closing"
    BY <1>15, DestroySound
  <2>2. reg' = {} /\ lsn' \subseteq lsn /\ UNCHANGED <<wk, scanning, scan>>
    BY <1>15 DEF Destroy, works, scans
  <2>. QED
    BY <1>1, <2>1, <2>2 DEF ExitHookWorks, NoneMoves
<1>. QED
  BY <1>2, <1>3, <1>4, <1>5, <1>6, <1>7, <1>8, <1>9, <1>10, <1>11, <1>12, <1>13, <1>14,
     <1>15, Steps DEF Bystanders

\* Nothing happens to a server that is gone.
LEMMA GoneStep ==
  ASSUME IInv, AllSound, Next
  PROVE  AllGone'
<1>. SUFFICES ASSUME srv' = "gone"
              PROVE  AllGone'
  BY DEF AllGone
<1>1. \A c \in Conn : conn[c].home \in Worker \/ conn[c].home = Acceptor
  BY DEF IInv, TypeOK, ConnState, Loop
<1>2. CASE srv # "gone"
  <2>1. Destroy
    BY <1>2, Steps, CallbacksKeep DEF Bystanders, Listen, WorkerAnswers, AnswerTimesOut,
       ListenGivesUp, ListenReturns, AskWorker, StopWorker, CloseAll, AcceptorScanned,
       StopServer, BeginDestroy, WorkerJoined, Terminated, ListenTask, UnlistenTask,
       CloseAllTask, WorkerScanned, ExitHook, WorkerEnds, Accept, AcceptAndHandoff,
       HandoffRefused, HandoffTask, StopTask, ScanClient, calls
  <2>2. /\ reg' = {} /\ lsn' = lsn \ {Acceptor} /\ UNCHANGED <<wk, scanning>>
        /\ \A w \in Worker : wk[w] = "gone"
    BY <2>1 DEF Destroy, works, scans
  <2>3. lsn \subseteq {Acceptor} /\ scanning \subseteq {Acceptor}
    BY <2>2 DEF IInv, TypeOK, ExitHookWorks, Loop
  <2>. QED
    BY <2>1, <2>2, <2>3, DestroySound DEF AllGone
<1>3. CASE srv = "gone"
  <2>1. /\ lsn = {} /\ reg = {} /\ scanning \subseteq {Acceptor} /\ Acceptor \notin Worker
        /\ \A w \in Worker : wk[w] = "gone"
        /\ \A c \in Conn : conn[c].hdl # "closing"
    BY <1>3, LoopAssumption DEF IInv, AllGone
  <2>2. \A l \in Loop : ~Polls(l) /\ ~Serves(l)
    BY <1>3, <2>1 DEF Polls, Serves, Loop
  <2>3. \A w \in Worker : w \notin scanning /\ \A t : ~Runs(w, t)
    BY <2>1, <2>2 DEF Runs, Loop
  <2>4. CASE Bystanders
    <3>1. UNCHANGED <<lsn, wk, reg, conn>> /\ scanning' \subseteq scanning
      BY <1>3, <2>1, <2>2, <2>3, <2>4, LoopAssumption DEF Bystanders, Listen, WorkerAnswers,
         AnswerTimesOut, ListenGivesUp, ListenReturns, AskWorker, StopWorker, CloseAll,
         AcceptorScanned, StopServer, BeginDestroy, WorkerJoined, Terminated, ListenTask,
         UnlistenTask, CloseAllTask, WorkerScanned, ExitHook, WorkerEnds, vars, works, scans,
         owned, Loop
    <3>. QED
      BY <2>1, <3>1 DEF AllGone
  <2>5. CASE \E l \in Loop, c \in Conn : ScanClient(l, c)
    <3>1. UNCHANGED <<lsn, wk, reg, conn, scanning>>
      BY <2>1, <2>5 DEF ScanClient, works
    <3>. QED
      BY <2>1, <3>1 DEF AllGone
  <2>6. CASE \/ \E l \in Loop, c \in Conn, a \in Answers :
                  Accept(l, c, a) \/ (l \in Worker /\ HandoffTask(l, c, a))
             \/ \E w \in Worker, c \in Conn : AcceptAndHandoff(w, c) \/ HandoffRefused(w, c)
             \/ \E c \in Conn : Ends(c)
             \/ \E c \in Conn, a \in Answers : Served(c, a)
             \/ \E w \in Worker : StopTask(w)
             \/ Destroy
    <3>1. \A c \in Conn : ~Ends(c) /\ \A a \in Answers : ~Served(c, a)
      <4>1. \A c \in Conn : ~Polls(conn[c].home) /\ ~Serves(conn[c].home)
        BY <1>1, <2>2 DEF Loop
      <4>2. \A c \in Conn : ~Ends(c)
        BY <4>1 DEF Ends, PeerGone, CloseDone
      <4>. QED
        BY <4>1, <4>2, UserSteps
    <3>2. /\ \A l \in Loop, c \in Conn, a \in Answers : ~Accept(l, c, a)
          /\ \A w \in Worker, c \in Conn : ~AcceptAndHandoff(w, c)
          /\ \A w \in Worker, c \in Conn : ~HandoffRefused(w, c)
      <4>1. \A l \in Loop, c \in Conn, a \in Answers : ~Accept(l, c, a)
        BY <2>2 DEF Accept
      <4>2. \A w \in Worker, c \in Conn : ~AcceptAndHandoff(w, c)
        BY <2>1 DEF AcceptAndHandoff
      <4>3. \A w \in Worker, c \in Conn : ~HandoffRefused(w, c)
        BY <2>3 DEF HandoffRefused
      <4>. QED
        BY <4>1, <4>2, <4>3
    <3>3. /\ \A w \in Worker, c \in Conn, a \in Answers : ~HandoffTask(w, c, a)
          /\ \A w \in Worker : ~StopTask(w)
      BY <2>3 DEF HandoffTask, StopTask
    <3>4. ~Destroy
      BY <1>3 DEF Destroy
    <3>. QED
      BY <2>6, <3>1, <3>2, <3>3, <3>4
  <2>7. CASE \E c \in Conn : Taking(c)
    <3>1. PICK c \in Conn : Taking(c)
      BY <2>7
    <3>2. OnlyOf(c) /\ c \notin reg' /\ conn'[c].hdl = conn[c].hdl /\ AllSound'
      BY <3>1, TakeSound DEF Taking
    <3>3. UNCHANGED <<lsn, wk, scanning>>
      BY <3>1, CallbacksKeep DEF works, scans
    <3>4. reg' = {} /\ \A d \in Conn : conn'[d].hdl # "closing"
      BY <2>1, <3>2 DEF OnlyOf, AllSound
    <3>. QED
      BY <2>1, <3>3, <3>4 DEF AllGone
  <2>. QED
    BY <2>4, <2>5, <2>6, <2>7, Steps
<1>. QED
  BY <1>2, <1>3

-----------------------------------------------------------------------------
(* The theorems.                                                             *)

LEMMA InitHolds ==
  ASSUME Init
  PROVE  IInv
<1>. USE LoopAssumption, SweepAssumption
<1>1. Unborn \in ConnState
  BY DEF Unborn, ConnState, Loop
<1>2. \A c \in Conn : conn[c] = Unborn
  BY DEF Init
<1>3. TypeOK
  <2>1. /\ conn \in [Conn -> ConnState] /\ scan \in [Loop -> SUBSET Conn]
        /\ answer \in [Worker -> {"none", "ok", "error"}]
        /\ wk \in [Worker -> {"run", "quit", "hook", "pump", "gone"}]
    BY <1>1 DEF Init
  <2>2. box \in [Worker -> Seq(Tasks)]
    <3>1. << >> \in Seq(Tasks)
      OBVIOUS
    <3>. QED
      BY <3>1 DEF Init
  <2>3. sweeps \in 0..MaxSweeps
    BY DEF Init
  <2>. QED
    BY <2>1, <2>2, <2>3 DEF Init, TypeOK
<1>4. InTransit
  BY <1>2 DEF Init, InTransit, Carries, Unborn
<1>5. AllSound
  BY <1>1, <1>2 DEF Init, Unborn, AllSound, Sound, Owner
<1>6. ExitHookWorks /\ AllGone
  BY <1>2 DEF Init, Unborn, ExitHookWorks, AllGone
<1>. QED
  BY <1>3, <1>4, <1>5, <1>6 DEF IInv

LEMMA NextHolds ==
  ASSUME IInv, [Next]_vars
  PROVE  IInv'
<1>1. AllSound
  BY DEF IInv
<1>2. CASE Next
  BY <1>1, <1>2, TypeStep, SoundStep, TransitStep, ExitStep, GoneStep DEF IInv
<1>3. CASE UNCHANGED vars
  BY <1>3 DEF vars, calls, works, scans, owned, IInv, TypeOK, AllSound, Owner, InTransit,
     Carries, ExitHookWorks, AllGone
<1>. QED
  BY <1>2, <1>3

\* The inductive invariant holds whichever cases happen.
THEOREM InductiveInvariant == Spec => []IInv
<1>1. Init => IInv
  BY InitHolds
<1>2. IInv /\ [Next]_vars => IInv'
  BY NextHolds
<1>. QED
  BY <1>1, <1>2, PTL DEF Spec

LEMMA NothingIsLeft ==
  ASSUME IInv
  PROVE  NothingLeft
<1>1. ASSUME NEW c \in Conn
      PROVE  /\ conn[c].obj \in {"none", "socket", "alive", "freed"}
             /\ conn[c].hdl \in {"none", "open", "closing", "closed"}
             /\ conn[c].obj = "alive" =>
                  conn[c].hdl # "none" /\ (c \in reg \cup mine \/ conn[c].taker)
  BY DEF IInv, AllSound, Sound, Owner, ConnState
<1>2. ASSUME NEW w \in Worker, wk[w] = "gone"
      PROVE  /\ w \notin lsn
             /\ \A c \in Conn : conn[c].home = w =>
                  /\ \/ conn[c].obj \in {"none", "freed"}
                     \/ c \in mine \/ conn[c].taker
                     \/ c \in reg /\ conn[c].hdl = "closed"
                  /\ conn[c].hdl # "closing"
  BY <1>1, <1>2 DEF IInv, InTransit, ExitHookWorks
<1>3. ASSUME srv = "gone"
      PROVE  /\ lsn = {}
             /\ \A c \in Conn :
                  /\ \/ conn[c].obj \in {"none", "freed"}
                     \/ c \in mine \/ conn[c].taker
                  /\ conn[c].hdl # "closing"
  BY <1>1, <1>3 DEF IInv, InTransit, AllGone
<1>. QED
  BY <1>2, <1>3 DEF NothingLeft

\* The variables keep their types, for any number of loops and connections
\* and whichever cases happen.
THEOREM TypeCorrect == Spec => []TypeOK
<1>1. IInv => TypeOK
  BY DEF IInv
<1>. QED
  BY <1>1, InductiveInvariant, PTL

\* Whoever has a socket last closes it, and nobody closes it again: the
\* handle, the hand-over task, a mailbox that refuses or drops it.  The only
\* exception is an on_connection that closes its client and then throws.
THEOREM ClosedOnce ==
  ASSUME "closeThrow" \notin May
  PROVE  Spec => []SocketClosedOnce
<1>1. IInv => SocketClosedOnce
  BY DEF IInv, AllSound, Sound, ClosesOnce, SocketClosedOnce
<1>. QED
  BY <1>1, InductiveInvariant, PTL

\* A live client belongs to the registry or to the user, never to both and
\* never to nobody, as long as nobody takes it in on_close or an observer, on
\* another thread, or after its on_connection threw.
THEOREM Owned ==
  ASSUME May \cap {"takeInside", "takeAnywhere", "lateTake"} = {}
  PROVE  Spec => []OneOwner
<1>1. IInv => OneOwner
  BY DEF IInv, AllSound, Sound, Owner, TakesForGood, OneOwner
<1>. QED
  BY <1>1, InductiveInvariant, PTL

\* Take and return keep the close manager with the registry, with the same
\* exceptions.
THEOREM CanLeave ==
  ASSUME May \cap {"takeInside", "takeAnywhere", "lateTake"} = {}
  PROVE  Spec => []WayOut
<1>1. IInv => WayOut
  BY DEF IInv, AllSound, Sound, Owner, TakesForGood, WayOut
<1>. QED
  BY <1>1, InductiveInvariant, PTL

\* No client is deleted under a close callback that knows it, as long as it is
\* not closed from the callbacks on its end, not returned while it is being
\* closed, and the handshake timer does not fire then.
THEOREM CallbackSafe ==
  ASSUME May \cap {"closeInside", "returnClosing", "timeoutClosing"} = {}
  PROVE  Spec => []CallbackFindsClient
<1>1. IInv => CallbackFindsClient
  BY DEF IInv, AllSound, Sound, DeletesLast, CallbackFindsClient
<1>. QED
  BY <1>1, InductiveInvariant, PTL

\* A loop is given back with no connection, listener or close pending, and
\* so is the server, whichever cases happen.
THEOREM LeavesNothing == Spec => []NothingLeft
<1>1. IInv => NothingLeft
  BY NothingIsLeft
<1>. QED
  BY <1>1, InductiveInvariant, PTL

-----------------------------------------------------------------------------
(* A listen() that fails.                                                    *)

Holds(w, i, t) == i \in 1..Len(box[w]) /\ box[w][i] = t

\* An order to stop listening is behind every order to listen.
Undone(w) ==
  \E j \in Nat : /\ Holds(w, j, <<"unlisten">>)
                 /\ \A i \in Nat : Holds(w, i, <<"listen">>) => i < j

WillNotListen(w) == w \in lsn \/ (\E i \in Nat : Holds(w, i, <<"listen">>)) => Undone(w)

\* No work loop is told to stop before the destructor, and after a failed
\* listen() every listener a work loop has, or may still open, is closed by
\* a task behind it.
ListenInv ==
  /\ srv \notin {"dying", "gone"} =>
       \A w \in Worker : wk[w] = "run" /\ \A i \in Nat : ~Holds(w, i, <<"stop">>)
  /\ srv = "failed" => Acceptor \notin lsn /\ \A w \in Worker : WillNotListen(w)

LEMMA UndoneKept ==
  ASSUME NEW w \in Worker, box[w] \in Seq(Tasks), WillNotListen(w),
         \/ box'[w] = box[w] /\ (w \in lsn' => w \in lsn)
         \/ \E t \in Tasks \ {<<"listen">>} :
              box'[w] = Append(box[w], t) /\ (w \in lsn' => w \in lsn)
         \/ /\ box[w] # << >> /\ box'[w] = Tail(box[w])
            /\ Head(box[w]) = <<"unlisten">> => w \notin lsn'
            /\ Head(box[w]) # <<"listen">> => (w \in lsn' => w \in lsn)
  PROVE  WillNotListen(w)'
<1>1. CASE box'[w] = box[w] /\ (w \in lsn' => w \in lsn)
  BY <1>1 DEF WillNotListen, Undone, Holds
<1>2. CASE \E t \in Tasks \ {<<"listen">>} :
             box'[w] = Append(box[w], t) /\ (w \in lsn' => w \in lsn)
  <2>1. PICK t \in Tasks \ {<<"listen">>} :
               box'[w] = Append(box[w], t) /\ (w \in lsn' => w \in lsn)
    BY <1>2
  <2>2. \A i \in Nat : /\ Holds(w, i, <<"unlisten">>) => Holds(w, i, <<"unlisten">>)'
                       /\ Holds(w, i, <<"listen">>)' => Holds(w, i, <<"listen">>)
    <3>1. SUFFICES ASSUME NEW i \in Nat
                   PROVE  /\ Holds(w, i, <<"unlisten">>) => Holds(w, i, <<"unlisten">>)'
                          /\ Holds(w, i, <<"listen">>)' => Holds(w, i, <<"listen">>)
      OBVIOUS
    <3>2. i \in 1..Len(box[w]) => i \in 1..Len(box'[w]) /\ box'[w][i] = box[w][i]
      BY <2>1
    <3>3. i \in 1..Len(box'[w]) => i \in 1..Len(box[w]) \/ box'[w][i] = t
      BY <2>1
    <3>. QED
      BY <2>1, <3>2, <3>3 DEF Holds
  <2>. QED
    BY <2>1, <2>2 DEF WillNotListen, Undone
<1>3. CASE /\ box[w] # << >> /\ box'[w] = Tail(box[w])
           /\ Head(box[w]) = <<"unlisten">> => w \notin lsn'
           /\ Head(box[w]) # <<"listen">> => (w \in lsn' => w \in lsn)
  <2>1. \A t : \A i \in Nat : Holds(w, i, t)' => Holds(w, i + 1, t)
    BY <1>3 DEF Holds
  <2>2. \A t : \A i \in Nat : Holds(w, i, t) => i = 1 \/ (i - 1 \in Nat /\ Holds(w, i - 1, t)')
    BY <1>3 DEF Holds
  <2>3. Holds(w, 1, Head(box[w])) /\ \A t : Holds(w, 1, t) => t = Head(box[w])
    BY <1>3 DEF Holds
  <2>4. SUFFICES ASSUME w \in lsn' \/ \E i \in Nat : Holds(w, i, <<"listen">>)'
                 PROVE  Undone(w)'
    BY DEF WillNotListen
  <2>5. PICK j \in Nat : /\ Holds(w, j, <<"unlisten">>)
                         /\ \A i \in Nat : Holds(w, i, <<"listen">>) => i < j
    <3>1. w \in lsn \/ \E i \in Nat : Holds(w, i, <<"listen">>)
      <4>1. CASE \E i \in Nat : Holds(w, i, <<"listen">>)'
        <5>1. PICK i \in Nat : Holds(w, i, <<"listen">>)'
          BY <4>1
        <5>2. i + 1 \in Nat /\ Holds(w, i + 1, <<"listen">>)
          BY <2>1, <5>1
        <5>. QED
          BY <5>2
      <4>2. CASE w \in lsn' /\ Head(box[w]) = <<"listen">>
        BY <2>3, <4>2
      <4>3. CASE w \in lsn' /\ Head(box[w]) # <<"listen">>
        BY <1>3, <4>3
      <4>. QED
        BY <2>4, <4>1, <4>2, <4>3
    <3>. QED
      BY <3>1 DEF WillNotListen, Undone
  <2>6. j # 1
    <3>1. SUFFICES ASSUME j = 1
                   PROVE  FALSE
      OBVIOUS
    <3>2. Head(box[w]) = <<"unlisten">> /\ w \notin lsn'
      BY <1>3, <2>3, <2>5, <3>1
    <3>3. PICK i \in Nat : Holds(w, i, <<"listen">>)'
      BY <2>4, <3>2
    <3>4. i + 1 < 1
      BY <2>1, <2>5, <3>1, <3>3
    <3>. QED
      BY <3>4
  <2>7. j - 1 \in Nat /\ Holds(w, j - 1, <<"unlisten">>)'
    BY <2>2, <2>5, <2>6
  <2>8. \A i \in Nat : Holds(w, i, <<"listen">>)' => i < j - 1
    <3>1. SUFFICES ASSUME NEW i \in Nat, Holds(w, i, <<"listen">>)'
                   PROVE  i < j - 1
      OBVIOUS
    <3>2. i + 1 < j
      BY <2>1, <2>5, <3>1
    <3>. QED
      BY <3>2
  <2>. QED
    BY <2>7, <2>8 DEF Undone
<1>. QED
  BY <1>1, <1>2, <1>3

\* A pop of one mailbox, seen from all of them.
LEMMA PopSeen ==
  ASSUME TypeOK, NEW v \in Worker, NEW t, Runs(v, t), Pop(v)
  PROVE  /\ box[v] # << >> /\ box'[v] = Tail(box[v]) /\ Head(box[v]) = t
         /\ Holds(v, 1, t)
         /\ \A w \in Worker \ {v} : box'[w] = box[w]
<1>1. box \in [Worker -> Seq(Tasks)]
  BY DEF TypeOK
<1>2. box[v] \in Seq(Tasks) /\ box[v] # << >> /\ Head(box[v]) = t
  BY <1>1 DEF Runs
<1>3. Holds(v, 1, t)
  BY <1>2 DEF Holds
<1>. QED
  BY <1>1, <1>2, <1>3 DEF Pop

\* Until the destructor begins nobody sends a stop task.
LEMMA EarlyStep ==
  ASSUME TypeOK, Next, srv' \notin {"dying", "gone"},
         srv \notin {"dying", "gone"} =>
           \A w \in Worker : wk[w] = "run" /\ \A i \in Nat : ~Holds(w, i, <<"stop">>)
  PROVE  /\ srv \notin {"dying", "gone"} /\ UNCHANGED wk
         /\ srv # "failed" /\ srv' = "failed" => ListenGivesUp
         /\ \A w \in Worker :
              \/ box'[w] = box[w]
              \/ \E t \in Tasks \ {<<"stop">>} : box'[w] = Append(box[w], t)
              \/ box[w] # << >> /\ box'[w] = Tail(box[w])
<1>. DEFINE Moved(w) == \/ box'[w] = box[w]
                        \/ \E t \in Tasks \ {<<"stop">>} : box'[w] = Append(box[w], t)
                        \/ box[w] # << >> /\ box'[w] = Tail(box[w])
<1>1. /\ box \in [Worker -> Seq(Tasks)]
      /\ wk \in [Worker -> {"run", "quit", "hook", "pump", "gone"}]
      /\ UNCHANGED box => \A w \in Worker : Moved(w)
  BY DEF TypeOK
<1>2. /\ <<"listen">> \in Tasks \ {<<"stop">>} /\ <<"unlisten">> \in Tasks \ {<<"stop">>}
      /\ <<"closeAll">> \in Tasks \ {<<"stop">>}
      /\ \A c \in Conn : <<"hand", c>> \in Tasks \ {<<"stop">>}
  BY DEF Tasks
<1>3. srv \notin {"dying", "gone"}
  BY Steps, CallbacksKeep DEF Bystanders, Listen, WorkerAnswers, AnswerTimesOut,
     ListenGivesUp, ListenReturns, AskWorker, StopWorker, CloseAll, AcceptorScanned,
     StopServer, BeginDestroy, WorkerJoined, Terminated, ListenTask, UnlistenTask,
     CloseAllTask, WorkerScanned, ExitHook, WorkerEnds, Accept, AcceptAndHandoff,
     HandoffRefused, HandoffTask, StopTask, ScanClient, Destroy, calls, vars, Serves, Polls
<1>4. \A w \in Worker : wk[w] = "run" /\ \A i \in Nat : ~Holds(w, i, <<"stop">>)
  BY <1>3
<1>5. CASE \/ Listen \/ WorkerAnswers \/ AnswerTimesOut \/ ListenGivesUp \/ ListenReturns
           \/ \E w \in Worker : AskWorker(w) \/ StopWorker(w)
           \/ CloseAll \/ AcceptorScanned \/ StopServer
           \/ BeginDestroy \/ WorkerJoined \/ Terminated
  <2>1. UNCHANGED wk
    BY <1>5 DEF Listen, WorkerAnswers, AnswerTimesOut, ListenGivesUp, ListenReturns,
       AskWorker, StopWorker, CloseAll, AcceptorScanned, StopServer, BeginDestroy,
       WorkerJoined, Terminated, vars, works
  <2>2. srv # "failed" /\ srv' = "failed" => ListenGivesUp
    BY <1>5 DEF Listen, WorkerAnswers, AnswerTimesOut, ListenReturns, AskWorker, StopWorker,
       CloseAll, AcceptorScanned, StopServer, BeginDestroy, WorkerJoined, Terminated, vars,
       calls
  <2>3. \/ UNCHANGED box
        \/ box' = PostAll(<<"unlisten">>) \/ box' = PostAll(<<"closeAll">>)
        \/ \E v \in Worker : box' = [box EXCEPT ![v] = Append(@, <<"listen">>)]
    BY <1>3, <1>5 DEF Listen, WorkerAnswers, AnswerTimesOut, ListenGivesUp, ListenReturns,
       AskWorker, StopWorker, CloseAll, AcceptorScanned, StopServer, BeginDestroy,
       WorkerJoined, Terminated, vars, works
  <2>4. \A w \in Worker : Moved(w)
    BY <1>1, <1>2, <2>3 DEF PostAll
  <2>. QED
    BY <1>3, <2>1, <2>2, <2>4
<1>6. CASE \/ \E w \in Worker, ok \in BOOLEAN : ListenTask(w, ok)
           \/ \E w \in Worker : UnlistenTask(w) \/ CloseAllTask(w)
           \/ \E w \in Worker, c \in Conn, a \in Answers : HandoffTask(w, c, a)
           \/ \E w \in Worker, c \in Conn : HandoffRefused(w, c)
  <2>1. PICK w \in Worker, t \in Tasks : Runs(w, t) /\ Pop(w)
    BY <1>6 DEF ListenTask, UnlistenTask, CloseAllTask, HandoffTask, HandoffRefused, Tasks
  <2>2. \A v \in Worker : Moved(v)
    BY <2>1, PopSeen
  <2>3. UNCHANGED <<wk, srv>>
    BY <1>6 DEF ListenTask, UnlistenTask, CloseAllTask, HandoffTask, HandoffRefused, calls
  <2>. QED
    BY <1>3, <2>2, <2>3
<1>7. CASE \E w \in Worker : WorkerScanned(w) \/ ExitHook(w) \/ WorkerEnds(w)
  <2>1. UNCHANGED <<wk, srv, box>>
    BY <1>1, <1>4, <1>7 DEF WorkerScanned, ExitHook, WorkerEnds, calls
  <2>. QED
    BY <1>1, <1>3, <2>1
<1>8. CASE \E w \in Worker, c \in Conn : AcceptAndHandoff(w, c)
  <2>1. UNCHANGED <<wk, srv>>
    BY <1>8 DEF AcceptAndHandoff, calls
  <2>2. \/ UNCHANGED box
        \/ \E v \in Worker, c \in Conn : box' = [box EXCEPT ![v] = Append(@, <<"hand", c>>)]
    BY <1>8 DEF AcceptAndHandoff
  <2>3. \A w \in Worker : Moved(w)
    BY <1>1, <1>2, <2>2
  <2>. QED
    BY <1>3, <2>1, <2>3
<1>9. CASE \/ \E l \in Loop, c \in Conn, a \in Answers : Accept(l, c, a)
           \/ \E c \in Conn : Ends(c) \/ Taking(c)
           \/ \E c \in Conn, a \in Answers : Served(c, a)
           \/ \E l \in Loop, c \in Conn : ScanClient(l, c)
  <2>1. UNCHANGED <<wk, srv, box>>
    BY <1>9, CallbacksKeep DEF Accept, ScanClient, works, calls
  <2>. QED
    BY <1>1, <1>3, <2>1
<1>10. CASE \E w \in Worker : StopTask(w)
  <2>1. PICK w \in Worker : Runs(w, <<"stop">>)
    BY <1>10 DEF StopTask
  <2>2. Holds(w, 1, <<"stop">>)
    BY <1>1, <2>1 DEF Runs, Holds
  <2>. QED
    BY <1>4, <2>2
<1>11. CASE Destroy
  BY <1>3, <1>11 DEF Destroy
<1>. QED
  BY <1>5, <1>6, <1>7, <1>8, <1>9, <1>10, <1>11, Steps DEF Bystanders

\* After the failure only tasks touch the listeners of work loops.
LEMMA FailedStep ==
  ASSUME TypeOK, Next, srv = "failed", srv' = "failed", Acceptor \notin lsn,
         \A w \in Worker : wk[w] = "run" /\ \A i \in Nat : ~Holds(w, i, <<"stop">>),
         \A w \in Worker : WillNotListen(w)
  PROVE  Acceptor \notin lsn' /\ \A w \in Worker : WillNotListen(w)'
<1>1. box \in [Worker -> Seq(Tasks)] /\ Acceptor \notin Worker
  BY LoopAssumption DEF TypeOK
<1>2. ASSUME UNCHANGED box, lsn' = lsn
      PROVE  Acceptor \notin lsn' /\ \A w \in Worker : WillNotListen(w)'
  BY <1>2 DEF WillNotListen, Undone, Holds
<1>3. CASE \/ Listen \/ WorkerAnswers \/ AnswerTimesOut \/ ListenGivesUp \/ ListenReturns
           \/ \E v \in Worker : AskWorker(v) \/ StopWorker(v)
           \/ CloseAll \/ StopServer \/ BeginDestroy \/ WorkerJoined \/ Terminated
  <2>1. UNCHANGED box /\ lsn' = lsn
    BY <1>3 DEF Listen, WorkerAnswers, AnswerTimesOut, ListenGivesUp, ListenReturns,
       AskWorker, StopWorker, CloseAll, StopServer, BeginDestroy, WorkerJoined, Terminated,
       vars, works
  <2>. QED
    BY <1>2, <2>1
<1>4. CASE AcceptorScanned
  <2>1. /\ lsn' = lsn
        /\ \A w \in Worker : box'[w] = box[w] \/ box'[w] = Append(box[w], <<"closeAll">>)
    BY <1>4 DEF AcceptorScanned, PostAll
  <2>2. <<"closeAll">> \in Tasks \ {<<"listen">>}
    BY DEF Tasks
  <2>. QED
    BY <1>1, <2>1, <2>2, UndoneKept
<1>5. CASE \E v \in Worker, ok \in BOOLEAN : ListenTask(v, ok)
  <2>1. PICK v \in Worker : /\ Runs(v, <<"listen">>) /\ Pop(v)
                            /\ lsn' = lsn \cup {v} \/ lsn' = lsn
    BY <1>5 DEF ListenTask
  <2>. QED
    BY <1>1, <2>1, PopSeen, UndoneKept
<1>6. CASE \E v \in Worker : UnlistenTask(v)
  <2>1. PICK v \in Worker : Runs(v, <<"unlisten">>) /\ Pop(v) /\ lsn' = lsn \ {v}
    BY <1>6 DEF UnlistenTask
  <2>. QED
    BY <1>1, <2>1, PopSeen, UndoneKept
<1>7. CASE \/ \E v \in Worker : CloseAllTask(v)
           \/ \E v \in Worker, c \in Conn, a \in Answers : HandoffTask(v, c, a)
           \/ \E v \in Worker, c \in Conn : HandoffRefused(v, c)
  <2>1. PICK v \in Worker, t \in Tasks \ {<<"unlisten">>} : Runs(v, t) /\ Pop(v) /\ lsn' = lsn
    BY <1>7 DEF CloseAllTask, HandoffTask, HandoffRefused, Tasks
  <2>. QED
    BY <1>1, <2>1, PopSeen, UndoneKept
<1>8. CASE \E v \in Worker, c \in Conn : AcceptAndHandoff(v, c)
  BY <1>8 DEF AcceptAndHandoff
<1>9. CASE \/ \E l \in Loop, c \in Conn, a \in Answers : Accept(l, c, a)
           \/ \E c \in Conn : Ends(c) \/ Taking(c)
           \/ \E c \in Conn, a \in Answers : Served(c, a)
           \/ \E l \in Loop, c \in Conn : ScanClient(l, c)
           \/ \E v \in Worker : WorkerScanned(v) \/ ExitHook(v) \/ WorkerEnds(v)
  <2>1. UNCHANGED box /\ lsn' = lsn
    BY <1>9, CallbacksKeep DEF Accept, ScanClient, WorkerScanned, ExitHook, WorkerEnds,
       works
  <2>. QED
    BY <1>2, <2>1
<1>10. CASE \E v \in Worker : StopTask(v)
  <2>1. PICK v \in Worker : Runs(v, <<"stop">>)
    BY <1>10 DEF StopTask
  <2>2. Holds(v, 1, <<"stop">>)
    BY <1>1, <2>1 DEF Runs, Holds
  <2>. QED
    BY <2>2
<1>11. CASE Destroy
  BY <1>11 DEF Destroy
<1>. QED
  BY <1>3, <1>4, <1>5, <1>6, <1>7, <1>8, <1>9, <1>10, <1>11, Steps DEF Bystanders

LEMMA ListenInvStep ==
  ASSUME TypeOK, ListenInv, Next
  PROVE  ListenInv'
<1>1. box \in [Worker -> Seq(Tasks)]
  BY DEF TypeOK
<1>2. ASSUME srv' \notin {"dying", "gone"}
      PROVE  /\ srv \notin {"dying", "gone"} /\ UNCHANGED wk
             /\ srv # "failed" /\ srv' = "failed" => ListenGivesUp
             /\ \A w \in Worker :
                  \/ box'[w] = box[w]
                  \/ \E t \in Tasks \ {<<"stop">>} : box'[w] = Append(box[w], t)
                  \/ box[w] # << >> /\ box'[w] = Tail(box[w])
  BY <1>2, EarlyStep DEF ListenInv
<1>3. ASSUME srv' \notin {"dying", "gone"}, NEW w \in Worker, NEW i \in Nat,
             Holds(w, i, <<"stop">>)'
      PROVE  FALSE
  <2>1. \A k \in Nat : ~Holds(w, k, <<"stop">>)
    BY <1>2, <1>3 DEF ListenInv
  <2>2. CASE box'[w] = box[w]
    BY <1>3, <2>1, <2>2 DEF Holds
  <2>3. CASE \E t \in Tasks \ {<<"stop">>} : box'[w] = Append(box[w], t)
    <3>1. PICK t \in Tasks \ {<<"stop">>} : box'[w] = Append(box[w], t)
      BY <2>3
    <3>2. i \in 1..Len(box'[w]) => (i \in 1..Len(box[w]) /\ box[w][i] = box'[w][i]) \/ box'[w][i] = t
      BY <1>1, <3>1
    <3>3. i \in 1..Len(box'[w]) /\ box'[w][i] = <<"stop">>
      BY <1>3 DEF Holds
    <3>. QED
      BY <2>1, <3>1, <3>2, <3>3 DEF Holds
  <2>4. CASE box[w] # << >> /\ box'[w] = Tail(box[w])
    <3>1. Holds(w, i + 1, <<"stop">>)
      BY <1>1, <1>3, <2>4 DEF Holds
    <3>2. i + 1 \in Nat
      OBVIOUS
    <3>. QED
      BY <2>1, <3>1, <3>2
  <2>. QED
    BY <1>2, <1>3, <2>2, <2>3, <2>4
<1>4. ASSUME srv' = "failed"
      PROVE  Acceptor \notin lsn' /\ \A w \in Worker : WillNotListen(w)'
  <2>1. srv \notin {"dying", "gone"} /\ (srv # "failed" => ListenGivesUp)
    BY <1>2, <1>4
  <2>2. CASE srv = "failed"
    BY <1>4, <2>1, <2>2, FailedStep DEF ListenInv
  <2>3. CASE srv # "failed"
    <3>1. /\ Acceptor \notin lsn'
          /\ \A w \in Worker : box'[w] = Append(box[w], <<"unlisten">>)
      BY <2>1, <2>3 DEF ListenGivesUp, PostAll, Accepts, ListenInv
    <3>2. ASSUME NEW w \in Worker
          PROVE  WillNotListen(w)'
      <4>1. PICK k \in Nat : k = Len(box[w]) + 1
        BY <1>1
      <4>2. Len(box'[w]) = k /\ box'[w][k] = <<"unlisten">> /\ k \in 1..k
        BY <1>1, <3>1, <4>1
      <4>3. Holds(w, k, <<"unlisten">>)'
        BY <4>2 DEF Holds
      <4>4. \A i \in Nat : Holds(w, i, <<"listen">>)' => i < k
        BY <4>2 DEF Holds
      <4>. QED
        BY <4>3, <4>4 DEF WillNotListen, Undone
    <3>. QED
      BY <3>1, <3>2
  <2>. QED
    BY <2>2, <2>3
<1>. QED
  BY <1>2, <1>3, <1>4 DEF ListenInv

\* When listen() failed and the mailboxes are empty, nobody listens: also
\* not a loop whose listen task ran after the five seconds.
THEOREM FailureCleansUp == Spec => []FailedListenCleansUp
<1>1. Init => ListenInv
  <2>1. ASSUME Init
        PROVE  ListenInv
    <3>1. \A w \in Worker : wk[w] = "run" /\ box[w] = << >>
      BY <2>1 DEF Init
    <3>2. \A w \in Worker, i \in Nat : ~Holds(w, i, <<"stop">>)
      BY <3>1 DEF Holds
    <3>. QED
      BY <2>1, <3>1, <3>2 DEF Init, ListenInv
  <2>. QED
    BY <2>1
<1>2. TypeOK /\ ListenInv /\ [Next]_vars => ListenInv'
  <2>1. ASSUME ListenInv, UNCHANGED vars
        PROVE  ListenInv'
    BY <2>1 DEF ListenInv, WillNotListen, Undone, Holds, vars, calls, works
  <2>. QED
    BY <2>1, ListenInvStep
<1>3. TypeOK /\ ListenInv => FailedListenCleansUp
  <2>1. ASSUME TypeOK, ListenInv, srv = "failed", \A w \in Worker : box[w] = << >>
        PROVE  lsn = {}
    <3>1. \A w \in Worker : ~Undone(w)
      BY <2>1 DEF Undone, Holds
    <3>2. Acceptor \notin lsn /\ \A w \in Worker : w \notin lsn
      BY <2>1, <3>1 DEF ListenInv, WillNotListen
    <3>. QED
      BY <2>1, <3>2 DEF TypeOK, Loop
  <2>. QED
    BY <2>1 DEF FailedListenCleansUp
<1>. QED
  BY <1>1, <1>2, <1>3, TypeCorrect, PTL DEF Spec
=============================================================================
