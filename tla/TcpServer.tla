----------------------------- MODULE TcpServer -----------------------------
(***************************************************************************)
(* Who owns a connection in src/net/uvcpp_tcp_server.cpp: the acceptor's   *)
(* loop, the work loops next to it, the registry clients_ they share, and  *)
(* the user who may take a connection out of the registry and give it      *)
(* back.                                                                   *)
(*                                                                         *)
(* Threads.  The caller's thread runs the acceptor's loop and makes the    *)
(* server's API calls between two callbacks; every work loop has a thread. *)
(* A callback is one step, the user's code it calls included: it touches   *)
(* connections of its own loop and takes clients_mu_ for single operations *)
(* only.  close_clients_of_loop() is the exception, it walks a copy of the *)
(* registry while the other threads change the original, and is one step   *)
(* per element; so is take_client() on a foreign thread, in two halves.    *)
(*                                                                         *)
(* A work loop's mailbox keeps the order of acceptance and drops what is   *)
(* behind the stop task; LoopWorker shows that of the worker itself.       *)
(***************************************************************************)
EXTENDS Naturals, Sequences

CONSTANTS
  Conn,      \* connections the peers open, each once
  Worker,    \* work loops 1 .. n-1; none when set_loops() was not called
  Acceptor,  \* loop 0
  NoWorker,  \* "the caller waits for no work loop"
  May,       \* which of the cases below happen
  MaxSweeps  \* bound on calls of close_all_clients()

\* Cases in which the code breaks a property.  A run or a theorem names those
\* it leaves out.
\*   "closeThrow"      on_connection closes its client and then throws
\*   "closeInside"     close() from the read callback that is told of the end,
\*                     or from on_close or an observer that follows it
\*   "takeInside"      take_client() from on_close or an observer
\*   "takeAnywhere"    take_client() on a thread that is not the client's loop
\*   "lateTake"        take_client() of a connection whose on_connection threw
\*   "returnClosing"   return_client() of a connection still being closed
\*   "timeoutClosing"  the handshake timer of a connection being closed fires
Cases == {"closeThrow", "closeInside", "takeInside", "takeAnywhere",
          "lateTake", "returnClosing", "timeoutClosing"}

ASSUME LoopAssumption == Acceptor \notin Worker /\ NoWorker \notin Worker
ASSUME MayAssumption == May \subseteq Cases
ASSUME SweepAssumption == MaxSweeps \in Nat

Loop == Worker \cup {Acceptor}

VARIABLES
  srv,      \* where the server is
  fan,      \* fanout_: the kernel spreads connections over all loops
  tls,      \* ssl_ctx_ is set
  lsn,      \* loops with an open listening handle
  cb,       \* on_connection_fn_ is set
  todo,     \* work loops start_worker_listeners() has not asked yet
  waitFor,  \* the work loop whose answer or end the caller waits for
  answer,   \* [Worker -> the promise of the listen task]
  failed,   \* first_err of start_worker_listeners() is set
  wk,       \* [Worker -> where its thread is]
  box,      \* [Worker -> tasks in its mailbox]
  scanning, \* loops inside close_clients_of_loop()
  scan,     \* [Loop -> what is left of its snapshot]
  reg,      \* clients_
  mine,     \* connections the user holds after take_client()
  conn,     \* [Conn -> state of the connection]
  sweeps    \* calls of close_all_clients() so far

calls == <<srv, fan, tls, cb, todo, waitFor, failed, sweeps>>
works == <<wk, box, answer>>
scans == <<scanning, scan>>
owned == <<reg, mine, conn>>
vars  == <<calls, works, scans, owned, lsn>>

\* home: the loop; obj: the client object, or the bare socket on its way to
\* another loop; hdl: the handle; slot: whose close callback the handle will
\* call; mgr: the close manager is installed; shut: times the socket was
\* closed; told: the user's code has seen the client; eof: how reading ended;
\* taker: a foreign thread is between the two halves of take_client().
ConnState ==
  [home : Loop,
   obj  : {"none", "socket", "alive", "freed"},
   hdl  : {"none", "open", "closing", "closed"},
   slot : {"none", "client", "error", "user", "reclaim"},
   mgr  : BOOLEAN,
   shut : 0..2,
   told : BOOLEAN,
   eof  : {"no", "fin", "error"},
   taker : BOOLEAN]

Unborn == [home |-> Acceptor, obj |-> "none", hdl |-> "none", slot |-> "none",
           mgr |-> FALSE, shut |-> 0, told |-> FALSE, eof |-> "no",
           taker |-> FALSE]

Tasks == {<<"listen">>, <<"unlisten">>, <<"closeAll">>, <<"stop">>}
           \cup ({"hand"} \X Conn)

Init ==
  /\ srv = "bound" /\ fan \in BOOLEAN /\ tls \in BOOLEAN
  /\ fan => Worker # {}
  /\ lsn = {} /\ cb = FALSE
  /\ todo = {} /\ waitFor = NoWorker /\ failed = FALSE
  /\ answer = [w \in Worker |-> "none"]
  /\ wk = [w \in Worker |-> "run"]
  /\ box = [w \in Worker |-> << >>]
  /\ scanning = {} /\ scan = [l \in Loop |-> {}]
  /\ reg = {} /\ mine = {}
  /\ conn = [c \in Conn |-> Unborn]
  /\ sweeps = 0

-----------------------------------------------------------------------------
(* Helpers. *)

\* The loop is in uv_run and none of its callbacks is under way.  After the
\* exit hook a work loop still pumps the callbacks of handles being closed.
Polls(l) ==
  /\ l \notin scanning
  /\ IF l = Acceptor THEN srv \in {"bound", "listening", "stopped", "failed"}
                     ELSE wk[l] \in {"run", "pump"}

\* The loop runs user code other than close callbacks.
Serves(l) == Polls(l) /\ (l # Acceptor => wk[l] = "run")

\* uv_close: the socket goes at once, the callback comes later.
Closing(r, who) == [r EXCEPT !.hdl = "closing", !.slot = who, !.shut = @ + 1]

\* ~uvcpp_tcp_client() on a running loop.  A closed handle goes with the
\* object, an open one is closed with a callback that knows only the handle,
\* and one that is being closed keeps the callback it has.  What the object
\* knew goes with it.
Deleted(r) ==
  [(IF r.hdl = "open" THEN Closing(r, "reclaim") ELSE r)
     EXCEPT !.obj = "freed", !.mgr = FALSE, !.told = FALSE, !.eof = "no"]

\* post(): refused once the stop task has run; the closure goes with it.
Accepts(w) == wk[w] = "run"

PostAll(t) == [w \in Worker |-> IF Accepts(w) THEN Append(box[w], t) ELSE box[w]]

\* What on_connection may do with the client it is handed.
Answers == {"keep", "close", "take", "throw", "takeThrow"}
             \cup (May \cap {"closeThrow"})

\* close_client_on_callback_error(): nobody asks whether the handle is being
\* closed, and the new completion replaces the one it has.
ErrorClosed(r) == Closing([r EXCEPT !.mgr = FALSE], "error")

\* deliver_connection(): r is the client before the callback.  Nothing
\* happens when listen() failed and took the callback back.
Delivered(r, a) ==
  IF ~cb THEN r
  ELSE LET seen == [r EXCEPT !.told = TRUE]
       IN CASE a = "keep" -> seen
            [] a = "close" -> Closing(seen, "client")
            [] a = "throw" -> ErrorClosed(seen)
            [] a = "closeThrow" -> ErrorClosed(Closing(seen, "client"))
            [] a \in {"take", "takeThrow"} -> [seen EXCEPT !.mgr = FALSE]

Takes(a) == cb /\ a \in {"take", "takeThrow"}

\* finish_accept(): the client is registered and managed before anyone sees
\* it; with TLS the user hears of it when the handshake is through, and a
\* failed enable_tls() closes it.
FinishAccept(c, l, a) ==
  LET r == [conn[c] EXCEPT !.home = l, !.obj = "alive", !.hdl = "open",
                           !.mgr = TRUE]
      taken == ~tls /\ Takes(a)
  IN /\ reg' = IF taken THEN reg ELSE reg \cup {c}
     /\ mine' = IF taken THEN mine \cup {c} ELSE mine
     /\ conn' = [conn EXCEPT ![c] =
          IF ~tls THEN Delivered(r, a)
          ELSE IF a = "throw" THEN ErrorClosed(r)
          ELSE r]

\* Faulty: the object goes, the registry still lists it.
ReleaseKeepsEntry(c, r) ==
  /\ reg' = reg
  /\ conn' = [conn EXCEPT ![c] = Deleted(r)]

\* release_client().
Release(c, r) ==
  /\ reg' = reg \ {c}
  /\ conn' = [conn EXCEPT ![c] = Deleted(r)]

\* What the user's code does with a client in a callback on its end: look at
\* it, close() it, close the handle directly, or take_client().
Reactions == {"look", "close", "closeHandle", "take"}

Reacted(r, a) ==
  CASE a = "close" /\ r.hdl = "open" -> Closing(r, "client")
    [] a = "closeHandle" /\ r.hdl = "open" -> Closing(r, "user")
    [] a = "take" -> [r EXCEPT !.mgr = FALSE, !.told = TRUE]
    [] OTHER -> r

\* fire_close_callbacks(): the manager leaves its slot before on_close and the
\* observers do a, and is called after them: it deletes the client even if
\* they took it.  took: the user took it in this callback, here or before.
Fires(c, r, a, took) ==
  LET s == Reacted([r EXCEPT !.mgr = FALSE], a)
  IN /\ reg' = IF r.mgr \/ took THEN reg \ {c} ELSE reg
     /\ mine' = IF took THEN mine \cup {c} ELSE mine
     /\ conn' = [conn EXCEPT ![c] = IF r.mgr THEN Deleted(s) ELSE s]

-----------------------------------------------------------------------------
(* listen(). *)

\* The acceptor's handle listens first; then, when the kernel spreads, every
\* work loop has to get a listening handle of its own.
Listen ==
  /\ srv = "bound"
  /\ lsn' = {Acceptor} /\ cb' = TRUE
  /\ IF fan THEN srv' = "starting" /\ todo' = Worker
            ELSE srv' = "listening" /\ UNCHANGED todo
  /\ UNCHANGED <<fan, tls, waitFor, failed, sweeps, works, scans, owned>>

\* Faulty: the round of the work loops begins at loop 0.
AskFromZero(w) ==
  /\ srv = "starting" /\ waitFor = NoWorker /\ w \in todo
  /\ todo' = todo \ {w}
  /\ box' = [box EXCEPT ![w] = Append(@, <<"listen">>)]
  /\ waitFor' = Acceptor /\ UNCHANGED failed
  /\ UNCHANGED <<srv, fan, tls, cb, sweeps, wk, answer, scans, owned, lsn>>

\* start_worker_listeners(): the work loops are asked one after the other.
AskWorker(w) ==
  /\ srv = "starting" /\ waitFor = NoWorker /\ w \in todo
  /\ todo' = todo \ {w}
  /\ IF Accepts(w)
     THEN /\ box' = [box EXCEPT ![w] = Append(@, <<"listen">>)]
          /\ waitFor' = w /\ UNCHANGED failed
     ELSE failed' = TRUE /\ UNCHANGED <<box, waitFor>>
  /\ UNCHANGED <<srv, fan, tls, cb, sweeps, wk, answer, scans, owned, lsn>>

WorkerAnswers ==
  /\ srv = "starting" /\ waitFor # NoWorker /\ answer[waitFor] # "none"
  /\ failed' = (failed \/ answer[waitFor] = "error")
  /\ waitFor' = NoWorker
  /\ UNCHANGED <<srv, fan, tls, cb, todo, sweeps, works, scans, owned, lsn>>

\* Five seconds went by.  The task may still run, and succeed.
AnswerTimesOut ==
  /\ srv = "starting" /\ waitFor # NoWorker
  /\ failed' = TRUE /\ waitFor' = NoWorker
  /\ UNCHANGED <<srv, fan, tls, cb, todo, sweeps, works, scans, owned, lsn>>

\* Faulty: only the loops that answered are told to close their listener.
ListenGivesUpOnAnswered ==
  /\ srv = "starting" /\ todo = {} /\ waitFor = NoWorker /\ failed
  /\ srv' = "failed" /\ cb' = FALSE /\ lsn' = lsn \ {Acceptor}
  /\ box' = [w \in Worker |-> IF answer[w] = "ok"
                              THEN Append(box[w], <<"unlisten">>) ELSE box[w]]
  /\ UNCHANGED <<fan, tls, todo, waitFor, failed, sweeps, wk, answer, scans, owned>>

\* Some work loop has no listener: the others close theirs on their own
\* threads, the callback is deleted and the acceptor's handle closed.
ListenGivesUp ==
  /\ srv = "starting" /\ todo = {} /\ waitFor = NoWorker /\ failed
  /\ srv' = "failed" /\ cb' = FALSE /\ lsn' = lsn \ {Acceptor}
  /\ box' = PostAll(<<"unlisten">>)
  /\ UNCHANGED <<fan, tls, todo, waitFor, failed, sweeps, wk, answer, scans, owned>>

ListenReturns ==
  /\ srv = "starting" /\ todo = {} /\ waitFor = NoWorker /\ ~failed
  /\ srv' = "listening"
  /\ UNCHANGED <<fan, tls, cb, todo, waitFor, failed, sweeps, works, scans,
                 owned, lsn>>

-----------------------------------------------------------------------------
(* A connection arrives. *)

\* accept_on_loop(): a loop keeps what its own listener accepted.
Accept(l, c, a) ==
  /\ Serves(l) /\ l \in lsn /\ (fan \/ Worker = {})
  /\ conn[c].obj = "none"
  /\ FinishAccept(c, l, a)
  /\ UNCHANGED <<calls, works, scans, lsn>>

\* accept_and_handoff(): the socket is taken out of a temporary handle and
\* travels in a task.  Which work loop is next is the round's business.
AcceptAndHandoff(w, c) ==
  /\ Serves(Acceptor) /\ Acceptor \in lsn /\ ~fan
  /\ conn[c].obj = "none"
  /\ IF Accepts(w)
     THEN /\ box' = [box EXCEPT ![w] = Append(@, <<"hand", c>>)]
          /\ conn' = [conn EXCEPT ![c].obj = "socket", ![c].home = w]
     ELSE /\ conn' = [conn EXCEPT ![c].obj = "freed", ![c].shut = 1]
          /\ UNCHANGED box
  /\ UNCHANGED <<calls, wk, answer, scans, reg, mine, lsn>>

\* The head of a mailbox runs on its loop.
Runs(w, t) == Serves(w) /\ box[w] # << >> /\ Head(box[w]) = t

Pop(w) == box' = [box EXCEPT ![w] = Tail(@)]

\* on_handoff_task() when uv_tcp_open does not take the socket: it is closed
\* there, and the holder lets go of it all the same.
HandoffRefused(w, c) ==
  /\ Runs(w, <<"hand", c>>) /\ Pop(w)
  /\ conn' = [conn EXCEPT ![c].obj = "freed", ![c].shut = 1]
  /\ UNCHANGED <<calls, wk, answer, scans, reg, mine, lsn>>

\* on_handoff_task(): the socket becomes a client of this loop.
HandoffTask(w, c, a) ==
  /\ Runs(w, <<"hand", c>>) /\ Pop(w)
  /\ FinishAccept(c, w, a)
  /\ UNCHANGED <<calls, wk, answer, scans, lsn>>

\* on_tls_handshake_done() with status 0.
HandshakeDone(c, a) ==
  /\ Serves(conn[c].home) /\ tls /\ ~conn[c].told /\ c \in reg
  /\ conn[c].hdl = "open" /\ cb
  /\ conn' = [conn EXCEPT ![c] = Delivered(@, a)]
  /\ IF Takes(a) THEN reg' = reg \ {c} /\ mine' = mine \cup {c}
                 ELSE UNCHANGED <<reg, mine>>
  /\ UNCHANGED <<calls, works, scans, lsn>>

-----------------------------------------------------------------------------
(* Tasks of a work loop other than a connection. *)

ListenTask(w, ok) ==
  /\ Runs(w, <<"listen">>) /\ Pop(w)
  /\ lsn' = IF ok THEN lsn \cup {w} ELSE lsn
  /\ answer' = [answer EXCEPT ![w] = IF ok THEN "ok" ELSE "error"]
  /\ UNCHANGED <<calls, wk, scans, owned>>

UnlistenTask(w) ==
  /\ Runs(w, <<"unlisten">>) /\ Pop(w)
  /\ lsn' = lsn \ {w}
  /\ UNCHANGED <<calls, wk, answer, scans, owned>>

BeginScan(l) ==
  /\ scanning' = scanning \cup {l}
  /\ scan' = [scan EXCEPT ![l] = reg]

CloseAllTask(w) ==
  /\ Runs(w, <<"closeAll">>) /\ Pop(w)
  /\ BeginScan(w)
  /\ UNCHANGED <<calls, wk, answer, owned, lsn>>

\* The stop task shuts the gate; what is behind it is destroyed, and a socket
\* in it closed.
StopTask(w) ==
  /\ Runs(w, <<"stop">>)
  /\ box' = [box EXCEPT ![w] = << >>]
  /\ wk' = [wk EXCEPT ![w] = "quit"]
  /\ conn' = [c \in Conn |->
       IF conn[c].obj = "socket" /\ conn[c].home = w
       THEN [conn[c] EXCEPT !.obj = "freed", !.shut = @ + 1] ELSE conn[c]]
  /\ UNCHANGED <<calls, answer, scans, reg, mine, lsn>>

-----------------------------------------------------------------------------
(* The life of a connection on its loop. *)

\* Reading ended, or a TLS handshake failed or took too long: the read callback
\* is told and does r, then the close callbacks fire, and the manager releases
\* the client.  Without one nothing else happens, and nothing is read any more.
\* Only the handshake timer can still fire when the handle is being closed:
\* tls_fail() does not look at that.
PeerGone(c, e, r, a) ==
  LET heard == Reacted([conn[c] EXCEPT !.eof = e], r)
  IN /\ Polls(conn[c].home)
     /\ conn[c].hdl \in {"open", "closing"} /\ conn[c].obj = "alive"
     /\ conn[c].hdl = "closing" =>
          "timeoutClosing" \in May /\ tls /\ ~conn[c].told /\ conn[c].mgr
     /\ conn[c].eof = "no"
     /\ "take" \in {r, a} => c \in reg
     /\ heard.mgr /\ "close" \in {r, a} => "closeInside" \in May
     /\ heard.mgr /\ a = "take" => "takeInside" \in May
     /\ Fires(c, heard, a, "take" \in {r, a})
     /\ UNCHANGED <<calls, works, scans, lsn>>

\* close(): nothing happens when the handle is closed or being closed.
CloseClient(c) ==
  /\ Serves(conn[c].home) /\ conn[c].told /\ c \in reg \cup mine
  /\ conn[c].hdl = "open"
  /\ conn' = [conn EXCEPT ![c] = Closing(@, "client")]
  /\ UNCHANGED <<calls, works, scans, reg, mine, lsn>>

\* get_tcp()->close(cb): the user goes round the client.
CloseHandle(c) ==
  /\ Serves(conn[c].home) /\ conn[c].told /\ c \in reg \cup mine
  /\ conn[c].hdl = "open"
  /\ conn' = [conn EXCEPT ![c] = Closing(@, "user")]
  /\ UNCHANGED <<calls, works, scans, reg, mine, lsn>>

\* uv_close is through.  The handle forgets its callback, then calls it: the
\* client's own fires the close callbacks, the one of
\* close_client_on_callback_error() unregisters and deletes.
CloseDone(c, a) ==
  LET r == [conn[c] EXCEPT !.hdl = "closed", !.slot = "none"]
      own == conn[c].slot = "client"
  IN /\ Polls(conn[c].home) /\ conn[c].hdl = "closing"
     /\ a \in {"look", "take"}
     /\ a = "take" => own /\ c \in reg /\ "takeInside" \in May
     /\ IF own THEN Fires(c, r, a, a = "take")
        ELSE /\ IF conn[c].slot = "error" THEN Release(c, r)
                ELSE conn' = [conn EXCEPT ![c] = r] /\ UNCHANGED reg
             /\ UNCHANGED mine
     /\ UNCHANGED <<calls, works, scans, lsn>>

\* take_client() has two halves: out of the registry under the lock, then the
\* manager goes without it.  On the client's own loop nothing comes between.
Halves == IF "takeAnywhere" \in May THEN {"both", "erase", "clear"} ELSE {"both"}

TakeClient(c, half) ==
  /\ CASE half = "both"  -> Serves(conn[c].home)
       [] half = "erase" -> srv \notin {"dying", "gone"}
       [] half = "clear" -> conn[c].taker
  /\ half # "clear" => /\ conn[c].told /\ c \in reg
                       /\ conn[c].slot = "error" => "lateTake" \in May
  /\ reg' = reg \ {c}
  /\ IF half = "erase"
     THEN mine' = mine /\ conn' = [conn EXCEPT ![c].taker = TRUE]
     ELSE /\ mine' = mine \cup {c}
          /\ conn' = [conn EXCEPT ![c].mgr = FALSE, ![c].taker = FALSE]
  /\ UNCHANGED <<calls, works, scans, lsn>>

\* Faulty: registered again, but nobody installs the manager.
ReturnUnmanaged(c) ==
  /\ Serves(conn[c].home) /\ c \in mine
  /\ conn[c].hdl = "open" /\ conn[c].eof # "error"
  /\ mine' = mine \ {c} /\ reg' = reg \cup {c}
  /\ UNCHANGED <<calls, works, scans, conn, lsn>>

\* return_client() of a connection that still lives.
ReturnClient(c) ==
  /\ Serves(conn[c].home) /\ c \in mine
  /\ conn[c].hdl = "open" /\ conn[c].eof # "error"
  /\ mine' = mine \ {c} /\ reg' = reg \cup {c}
  /\ conn' = [conn EXCEPT ![c].mgr = TRUE]
  /\ UNCHANGED <<calls, works, scans, lsn>>

\* return_client() of a dead one: CLOSING, CLOSED, ERROR or no handle.  The
\* client is deleted on the spot.
ReturnDead(c) ==
  /\ Serves(conn[c].home) /\ c \in mine
  /\ conn[c].hdl # "open" \/ conn[c].eof = "error"
  /\ conn[c].hdl = "closing" => "returnClosing" \in May
  /\ mine' = mine \ {c}
  /\ conn' = [conn EXCEPT ![c] = Deleted(@)]
  /\ UNCHANGED <<calls, works, scans, reg, lsn>>

\* The user closed what it took and deletes it.
UserDeletes(c) ==
  /\ Serves(conn[c].home) /\ c \in mine /\ conn[c].hdl = "closed"
  /\ mine' = mine \ {c}
  /\ conn' = [conn EXCEPT ![c] = Deleted(@)]
  /\ UNCHANGED <<calls, works, scans, reg, lsn>>

-----------------------------------------------------------------------------
(* close_all_clients(), stop() and the destructor. *)

CloseAll ==
  /\ Serves(Acceptor) /\ srv \in {"listening", "stopped"} /\ sweeps < MaxSweeps
  /\ sweeps' = sweeps + 1
  /\ BeginScan(Acceptor)
  /\ UNCHANGED <<srv, fan, tls, cb, todo, waitFor, failed, works, owned, lsn>>

\* Faulty: a client another way of closing has reached is closed again.
ScanClosesTwice(l, c) ==
  /\ l \in scanning /\ c \in scan[l]
  /\ scan' = [scan EXCEPT ![l] = @ \ {c}]
  /\ IF conn[c].home # l \/ c \notin reg
     THEN UNCHANGED <<reg, conn>>
     ELSE IF conn[c].hdl = "closed"
     THEN Release(c, conn[c])
     ELSE conn' = [conn EXCEPT ![c] = Closing(@, "client")] /\ UNCHANGED reg
  /\ UNCHANGED <<calls, works, scanning, mine, lsn>>

\* Faulty: a client that is being closed is released at once.
ScanReleasesClosing(l, c) ==
  /\ l \in scanning /\ c \in scan[l]
  /\ scan' = [scan EXCEPT ![l] = @ \ {c}]
  /\ IF conn[c].home # l \/ c \notin reg
     THEN UNCHANGED <<reg, conn>>
     ELSE IF conn[c].hdl \in {"closing", "closed"}
     THEN Release(c, conn[c])
     ELSE conn' = [conn EXCEPT ![c] = Closing(@, "client")] /\ UNCHANGED reg
  /\ UNCHANGED <<calls, works, scanning, mine, lsn>>

\* close_clients_of_loop(), one client of the snapshot.  The client may be
\* gone: whatever get_loop() then reads, the registry does not list it.
ScanClient(l, c) ==
  /\ l \in scanning /\ c \in scan[l]
  /\ scan' = [scan EXCEPT ![l] = @ \ {c}]
  /\ IF conn[c].home # l \/ c \notin reg
     THEN UNCHANGED <<reg, conn>>
     ELSE IF conn[c].hdl = "closed"
     THEN Release(c, conn[c])
     ELSE IF conn[c].hdl = "open"
     THEN conn' = [conn EXCEPT ![c] = Closing(@, "client")] /\ UNCHANGED reg
     ELSE UNCHANGED <<reg, conn>>
  /\ UNCHANGED <<calls, works, scanning, mine, lsn>>

\* The acceptor's part of close_all_clients() is through: the other loops
\* get theirs as a task.
AcceptorScanned ==
  /\ Acceptor \in scanning /\ scan[Acceptor] = {}
  /\ scanning' = scanning \ {Acceptor}
  /\ box' = PostAll(<<"closeAll">>)
  /\ UNCHANGED <<calls, wk, answer, scan, owned, lsn>>

\* A closeAll task ends, or the exit hook does and the loop pumps.
WorkerScanned(w) ==
  /\ w \in scanning /\ scan[w] = {}
  /\ scanning' = scanning \ {w}
  /\ wk' = [wk EXCEPT ![w] = IF @ = "hook" THEN "pump" ELSE @]
  /\ UNCHANGED <<calls, box, answer, scan, owned, lsn>>

\* stop(): the acceptor's listening handle is closed, no other.
StopServer ==
  /\ Serves(Acceptor) /\ srv = "listening"
  /\ srv' = "stopped" /\ lsn' = lsn \ {Acceptor}
  /\ UNCHANGED <<fan, tls, cb, todo, waitFor, failed, sweeps, works, scans, owned>>

\* The destructor begins with stop_workers().
BeginDestroy ==
  /\ Serves(Acceptor) /\ srv' = "dying"
  /\ UNCHANGED <<fan, tls, cb, todo, waitFor, failed, sweeps, works, scans,
                 owned, lsn>>

\* One worker after the other is told to stop and joined.
StopWorker(w) ==
  /\ srv = "dying" /\ waitFor = NoWorker /\ wk[w] = "run"
  /\ box' = [box EXCEPT ![w] = Append(@, <<"stop">>)]
  /\ waitFor' = w
  /\ UNCHANGED <<srv, fan, tls, cb, todo, failed, sweeps, wk, answer, scans,
                 owned, lsn>>

WorkerJoined ==
  /\ srv = "dying" /\ waitFor # NoWorker /\ wk[waitFor] = "gone"
  /\ waitFor' = NoWorker
  /\ UNCHANGED <<srv, fan, tls, cb, todo, failed, sweeps, works, scans, owned, lsn>>

\* Faulty: the exit hook closes the listener only.
ExitHookKeepsClients(w) ==
  /\ wk[w] = "quit"
  /\ lsn' = lsn \ {w}
  /\ wk' = [wk EXCEPT ![w] = "hook"]
  /\ scanning' = scanning \cup {w} /\ UNCHANGED scan
  /\ UNCHANGED <<calls, box, answer, owned>>

\* uv_run returned; the exit hook closes the listener, then the clients.
ExitHook(w) ==
  /\ wk[w] = "quit"
  /\ lsn' = lsn \ {w}
  /\ wk' = [wk EXCEPT ![w] = "hook"]
  /\ BeginScan(w)
  /\ UNCHANGED <<calls, box, answer, owned>>

\* The close callbacks have run and the loop is given back.
WorkerEnds(w) ==
  /\ wk[w] = "pump"
  /\ \A c \in Conn : conn[c].home = w => conn[c].hdl # "closing"
  /\ wk' = [wk EXCEPT ![w] = "gone"]
  /\ UNCHANGED <<calls, box, answer, scans, owned, lsn>>

\* The rest of the destructor, on a loop that does not run: the listener,
\* the clients still registered, and a pump for what is being closed.
Destroy ==
  /\ srv = "dying" /\ waitFor = NoWorker /\ \A w \in Worker : wk[w] = "gone"
  /\ srv' = "gone" /\ cb' = FALSE /\ lsn' = lsn \ {Acceptor}
  /\ conn' = [c \in Conn |->
       LET r == IF c \in reg THEN Deleted(conn[c]) ELSE conn[c]
       IN IF r.home = Acceptor /\ r.hdl = "closing"
          THEN [r EXCEPT !.hdl = "closed", !.slot = "none"] ELSE r]
  /\ reg' = {}
  /\ UNCHANGED <<fan, tls, todo, waitFor, failed, sweeps, works, scans, mine>>

\* The destructor has returned and nothing is left to happen.
Terminated == srv = "gone" /\ UNCHANGED vars

-----------------------------------------------------------------------------

Callers ==
  \/ Listen \/ WorkerAnswers \/ AnswerTimesOut \/ ListenGivesUp \/ ListenReturns
  \/ \E w \in Worker : AskWorker(w) \/ StopWorker(w)
  \/ CloseAll \/ AcceptorScanned \/ StopServer
  \/ BeginDestroy \/ WorkerJoined \/ Destroy \/ Terminated

Peers ==
  \/ \E l \in Loop, c \in Conn, a \in Answers : Accept(l, c, a)
  \/ \E w \in Worker, c \in Conn : AcceptAndHandoff(w, c)
  \/ \E c \in Conn, a \in Answers : HandshakeDone(c, a)
  \/ \E c \in Conn, e \in {"fin", "error"}, r, a \in Reactions : PeerGone(c, e, r, a)

Tasked(w) ==
  \/ \E c \in Conn : HandoffRefused(w, c)
  \/ \E c \in Conn, a \in Answers : HandoffTask(w, c, a)
  \/ \E ok \in BOOLEAN : ListenTask(w, ok)
  \/ UnlistenTask(w) \/ CloseAllTask(w) \/ StopTask(w)

Users(c) ==
  \/ CloseClient(c) \/ CloseHandle(c) \/ ReturnClient(c)
  \/ ReturnDead(c) \/ UserDeletes(c)
  \/ \E half \in Halves : TakeClient(c, half)

Next ==
  \/ Callers
  \/ Peers
  \/ \E w \in Worker : Tasked(w) \/ WorkerScanned(w) \/ ExitHook(w) \/ WorkerEnds(w)
  \/ \E l \in Loop, c \in Conn : ScanClient(l, c)
  \/ \E c \in Conn : Users(c) \/ \E a \in Reactions : CloseDone(c, a)

Spec == Init /\ [][Next]_vars

-----------------------------------------------------------------------------
(* Properties. *)

TypeOK ==
  /\ srv \in {"bound", "starting", "listening", "failed", "stopped", "dying", "gone"}
  /\ fan \in BOOLEAN /\ tls \in BOOLEAN /\ cb \in BOOLEAN /\ failed \in BOOLEAN
  /\ lsn \subseteq Loop /\ todo \subseteq Worker
  /\ waitFor \in Worker \cup {NoWorker}
  /\ answer \in [Worker -> {"none", "ok", "error"}]
  /\ wk \in [Worker -> {"run", "quit", "hook", "pump", "gone"}]
  /\ box \in [Worker -> Seq(Tasks)]
  /\ scanning \subseteq Loop /\ scan \in [Loop -> SUBSET Conn]
  /\ reg \subseteq Conn /\ mine \subseteq Conn
  /\ conn \in [Conn -> ConnState]
  /\ sweeps \in 0..MaxSweeps

\* A socket is closed exactly once, whichever of the handle, the hand-over
\* task, a refused mailbox or a failed open had it last: not at all while it
\* is in use or on its way, and not twice.
SocketClosedOnce ==
  \A c \in Conn :
    conn[c].shut = IF conn[c].obj \in {"none", "socket"} \/ conn[c].hdl = "open"
                   THEN 0 ELSE 1

\* A live client has one owner: the registry or the user, who may still be
\* inside take_client().  So nobody is left to leak it, no two parties delete
\* it, and what the user took is not deleted under its hands.
OneOwner ==
  /\ reg \cap mine = {}
  /\ \A c \in Conn : conn[c].obj = "alive" <=> c \in reg \cup mine \/ conn[c].taker

\* What the comment of take_client() promises: the server does not touch a
\* client the user took, it does not close it and does not free it.
TakenIsLeftAlone == \A c \in mine : conn[c].obj = "alive"

\* A client in the registry has a way out of it: the manager is installed, or
\* its close callback is the one that deletes it.  A client the user took has
\* no such way, and none was taken for it.
WayOut ==
  /\ \A c \in reg : conn[c].mgr <=> conn[c].slot # "error"
  /\ \A c \in mine :
       conn[c].obj = "alive" /\ ~conn[c].mgr /\ conn[c].slot # "error"

\* The close callback of a client finds the client: nobody deletes the object
\* while a callback that captured it is still to come.
CallbackFindsClient ==
  \A c \in Conn :
    conn[c].hdl = "closing" /\ conn[c].slot \in {"client", "error"}
      => conn[c].obj = "alive"

\* When a work loop is given back, none of its connections is on its way,
\* registered or half closed, and none of its listeners open; the same holds
\* for the whole server when the destructor returns.  What the user took, or
\* is about to have taken, is the user's.  One client may stay registered when
\* its loop goes: the one whose handle the user was closing round the client
\* when the exit hook came by.  The hook does not close it again and nobody
\* else releases it.
NothingLeft ==
  /\ \A w \in Worker : wk[w] = "gone" =>
       /\ w \notin lsn
       /\ \A c \in Conn : conn[c].home = w =>
            /\ \/ conn[c].obj \in {"none", "freed"}
               \/ c \in mine \/ conn[c].taker
               \/ c \in reg /\ conn[c].hdl = "closed"
            /\ conn[c].hdl # "closing"
  /\ srv = "gone" =>
       /\ lsn = {}
       /\ \A c \in Conn :
            /\ \/ conn[c].obj \in {"none", "freed"}
               \/ c \in mine \/ conn[c].taker
            /\ conn[c].hdl # "closing"

\* When listen() failed half way and the mailboxes are empty, no loop listens
\* any more, not even one whose task ran after the five seconds.
FailedListenCleansUp ==
  srv = "failed" /\ (\A w \in Worker : box[w] = << >>) => lsn = {}
=============================================================================

