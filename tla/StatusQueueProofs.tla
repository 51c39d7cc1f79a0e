-------------------------- MODULE StatusQueueProofs --------------------------
(***************************************************************************)
(* The abstract queue is well typed and no mark is without an owner before  *)
(* an owner is killed, for every set of rows and of owners.                 *)
(***************************************************************************)
EXTENDS StatusQueue, TLAPS

\* Marks and holdings are rows, kills are counted.
THEOREM TypeCorrect == Spec => []TypeOK
<1>1. Init => TypeOK
  BY DEF Init, TypeOK
<1>2. TypeOK /\ [Next]_vars => TypeOK'
  <2> SUFFICES ASSUME TypeOK, [Next]_vars PROVE TypeOK'
    OBVIOUS
  <2>1. ASSUME NEW o \in Owner, Take(o) PROVE TypeOK'
    BY <2>1 DEF Take, TypeOK
  <2>2. ASSUME NEW o \in Owner, Finish(o) PROVE TypeOK'
    BY <2>2 DEF Finish, TypeOK
  <2>3. ASSUME NEW o \in Owner, Lose(o) PROVE TypeOK'
    BY <2>3 DEF Lose, TypeOK
  <2>4. ASSUME NEW o \in Owner, NEW p \in Owner, Give(o, p) PROVE TypeOK'
    BY <2>4 DEF Give, TypeOK
  <2>5. CASE Unmark
    BY <2>5 DEF Unmark, TypeOK
  <2>6. CASE UNCHANGED vars
    BY <2>6 DEF vars, TypeOK
  <2> QED
    BY <2>1, <2>2, <2>3, <2>4, <2>5, <2>6 DEF Next
<1> QED
  BY <1>1, <1>2, PTL DEF Spec

\* A marked row has an owner as long as no owner was killed: the guarantee that
\* a queued_at never outlives the job that is to clear it.
THEOREM MarksOwned == Spec => []MarkHasOwner
<1>1. Init => MarkHasOwner
  BY DEF Init, MarkHasOwner
<1>2. TypeOK /\ MarkHasOwner /\ [Next]_vars => MarkHasOwner'
  <2> SUFFICES ASSUME TypeOK, MarkHasOwner, [Next]_vars PROVE MarkHasOwner'
    OBVIOUS
  <2>1. ASSUME NEW o \in Owner, Take(o) PROVE MarkHasOwner'
    BY <2>1 DEF Take, TypeOK, MarkHasOwner
  <2>2. ASSUME NEW o \in Owner, Finish(o) PROVE MarkHasOwner'
    BY <2>2 DEF Finish, TypeOK, MarkHasOwner
  <2>3. ASSUME NEW o \in Owner, Lose(o) PROVE MarkHasOwner'
    BY <2>3 DEF Lose, TypeOK, MarkHasOwner
  <2>4. ASSUME NEW o \in Owner, NEW p \in Owner, o # p, Give(o, p) PROVE MarkHasOwner'
    BY <2>4 DEF Give, TypeOK, MarkHasOwner
  <2>5. CASE Unmark
    BY <2>5 DEF Unmark, TypeOK, MarkHasOwner
  <2>6. CASE UNCHANGED vars
    BY <2>6 DEF vars, MarkHasOwner
  <2> QED
    BY <2>1, <2>2, <2>3, <2>4, <2>5, <2>6 DEF Next
<1> QED
  BY <1>1, <1>2, TypeCorrect, PTL DEF Spec

===============================================================================
