------------------------------- MODULE Leases -------------------------------
(***************************************************************************)
(* What a connection pool promises, whichever way its connections are      *)
(* used: the ownership rules in the header of src/db/uvcpp_db_pool.h.  A   *)
(* connection in use stays the pool's and stays alive until the one who    *)
(* uses it ends the use; nobody else uses it meanwhile, and nobody has two *)
(* at a time.  What is not in use the pool keeps, opens and frees as it    *)
(* likes.                                                                  *)
(***************************************************************************)
CONSTANTS Holder,   \* who uses connections
          Conn      \* the connections there may be

VARIABLES have,     \* connections that are alive
          lent      \* who uses which of them

vars == <<have, lent>>

Lease(h, c) == [holder |-> h, conn |-> c]

\* What the pool may do to its stock in a step: open some, and free some that
\* are not in use.
Stock ==
  /\ have' \subseteq Conn
  /\ \A x \in lent' : x.conn \in have'

Init ==
  /\ have \subseteq Conn
  /\ lent = {}

\* A connection goes to somebody who has none, and only if nobody has it.
Lend(h, c) ==
  /\ \A x \in lent : x.holder # h /\ x.conn # c
  /\ lent' = lent \cup {Lease(h, c)}
  /\ Stock

\* The use ends.
GiveBack(h, c) ==
  /\ Lease(h, c) \in lent
  /\ lent' = lent \ {Lease(h, c)}
  /\ Stock

Restock == lent' = lent /\ Stock

Next ==
  \/ \E h \in Holder, c \in Conn : Lend(h, c) \/ GiveBack(h, c)
  \/ Restock

Spec == Init /\ [][Next]_vars
=============================================================================
