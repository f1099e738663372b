------------------------------ MODULE Mailbox ------------------------------
(***************************************************************************)
(* What a work loop promises to whoever hands it a task: the header        *)
(* comments of src/net/uvcpp_loop_worker.h without threads, lock, wakeup   *)
(* or batches.  Accepted tasks form one sequence; the loop executes a      *)
(* prefix of it, in order and without gaps; the stop task is itself an     *)
(* element of that sequence and nothing behind it is ever executed.        *)
(***************************************************************************)
EXTENDS Naturals, Sequences

CONSTANTS Task,   \* the closures handed to post()
          Stop    \* the closure stop_and_join() puts in the mailbox

VARIABLES accepted,   \* everything ever taken in, in order of acceptance
          executed,   \* what ran so far
          open,       \* the mailbox takes tasks
          stopped     \* the stop task ran

vars == <<accepted, executed, open, stopped>>

Init ==
  /\ accepted = << >>
  /\ executed = << >>
  /\ open = FALSE
  /\ stopped = FALSE

Open ==
  /\ ~open
  /\ open' = TRUE
  /\ UNCHANGED <<accepted, executed, stopped>>

Accept(m) ==
  /\ open
  /\ accepted' = Append(accepted, m)
  /\ UNCHANGED <<executed, open, stopped>>

\* The oldest task not yet executed runs.
Execute ==
  /\ open
  /\ ~stopped
  /\ Len(executed) < Len(accepted)
  /\ LET m == accepted[Len(executed) + 1]
     IN  /\ executed' = Append(executed, m)
         /\ stopped' = (m = Stop)
  /\ UNCHANGED <<accepted, open>>

\* From here on nothing is accepted or executed; what did not run is dropped.
Close ==
  /\ open
  /\ open' = FALSE
  /\ UNCHANGED <<accepted, executed, stopped>>

Next ==
  \/ Open
  \/ \E m \in Task \cup {Stop} : Accept(m)
  \/ Execute
  \/ Close

Spec == Init /\ [][Next]_vars
=============================================================================
