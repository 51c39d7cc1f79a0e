----------------------------- MODULE StatusQueue -----------------------------
(***************************************************************************)
(* What queueing retrieval statuses promises, whatever rake tasks, jobs and *)
(* admins do: an owner (a rake task with a marked slice, a job) is          *)
(* responsible for rows, marks appear only together with an owner, and an   *)
(* owner lets go of its rows only after it cleared their marks -- unless it *)
(* is killed.  Retrieval implements this specification.                     *)
(***************************************************************************)
EXTENDS Naturals

CONSTANTS Row, Owner

VARIABLES
    marked, \* rows with queued_at set
    held,   \* the rows each owner is responsible for
    lost    \* how many owners were killed

vars == <<marked, held, lost>>

Init ==
    /\ marked = {}
    /\ held = [o \in Owner |-> {}]
    /\ lost = 0

\* An owner becomes responsible for rows, and may mark them.
Take(o) ==
    /\ held[o] = {}
    /\ \E S \in SUBSET Row :
         /\ held' = [held EXCEPT ![o] = S]
         /\ marked' \in {marked \cup M : M \in SUBSET S}
    /\ lost' = lost

\* Rows change hands: the rake task enqueues a job for them.
Give(o, p) ==
    /\ held[p] = {}
    /\ held' = [held EXCEPT ![p] = held[o], ![o] = {}]
    /\ UNCHANGED <<marked, lost>>

\* An owner clears the marks of its rows and is done with them.
Finish(o) ==
    /\ marked' = marked \ held[o]
    /\ held' = [held EXCEPT ![o] = {}]
    /\ lost' = lost

\* Marks are cleared by someone else: an update of the row, inactivate, reset.
Unmark ==
    /\ marked' \in SUBSET marked
    /\ UNCHANGED <<held, lost>>

Lose(o) ==
    /\ lost' = lost + 1
    /\ held' = [held EXCEPT ![o] = {}]
    /\ marked' = marked

Next ==
    \/ \E o \in Owner : Take(o) \/ Finish(o) \/ Lose(o)
    \/ \E o, p \in Owner : o # p /\ Give(o, p)
    \/ Unmark

Spec == Init /\ [][Next]_vars

TypeOK ==
    /\ marked \subseteq Row
    /\ held \in [Owner -> SUBSET Row]
    /\ lost \in Nat

\* A marked row has an owner as long as no owner was killed.
MarkHasOwner == lost = 0 => \A r \in marked : \E o \in Owner : r \in held[o]

===============================================================================
