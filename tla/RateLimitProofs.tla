--------------------------- MODULE RateLimitProofs ---------------------------
(***************************************************************************)
(* What is proved of RateLimit, for every set of workers: types, and that a  *)
(* source which counts its requests itself counts no more than it has made.  *)
(***************************************************************************)
EXTENDS RateLimit, FiniteSetTheorems, TLAPS

\* Jobs that have yet to count the request that was answered.
Pending == {w \in Workers : worker[w].pc \in {"eval", "read"}}
Size == Cardinality(Pending)

\* What v leaves is what n requests allow, those included that have yet to be counted.
Covers(v, n) == n < Limit => v >= Limit - n + Size

\* The time of the reset is within the hour.
HourInv == reset \in {0, 1, None} /\ (part = "last" => reset # 1)

\* Each job that has yet to count made one of the requests.
PendingInv == Covers(Limit, made) /\ Covers(Limit, recent)

\* What remains, and what a job is about to store.
CountInv == /\ Covers(rate_limit_remaining, made)
            /\ \A w \in Workers : worker[w].pc = "write" => Covers(worker[w].val, made)

\* Once the reset is reached the limit is stored before the next time of reset, unless a
\* job was counting when it was reached.
ReachedInv ==
    rate_limit_reset = 0 =>
        \/ recent = made
        \/ \A w \in Workers :
              /\ worker[w].pc # "read"
              /\ worker[w].pc = "write" => worker[w].val = Limit
              /\ worker[w].pc = "reset" => rate_limit_remaining = Limit

\* All of it, for a source that counts its requests itself.
SafeInv == HourInv /\ PendingInv /\ CountInv /\ ReachedInv
CountsInv == headers = {} => SafeInv

-------------------------------------------------------------------------------
\* What a step of a job does to the jobs.

Only(w, pc, val) ==
    /\ worker' \in [Workers -> WorkerRec]
    /\ worker'[w].pc = pc /\ worker'[w].val = val
    /\ \A x \in Workers : x # w => worker'[x] = worker[x]

\* A job moves on.
LEMMA GotoOnly ==
    ASSUME TypeOK, NEW w \in Workers, NEW pc, Goto(w, pc), pc \in {"check", "wait", "request", "reset"}
    PROVE  Only(w, pc, worker[w].val)
<1>. DEFINE rec == [worker[w] EXCEPT !.pc = pc]
<1>1. worker \in [Workers -> WorkerRec] /\ worker[w] \in WorkerRec
  BY DEF TypeOK
<1>2. worker' = [worker EXCEPT ![w] = rec]
  BY DEF Goto
<1>3. rec \in WorkerRec /\ rec.pc = pc /\ rec.val = worker[w].val
  BY <1>1 DEF WorkerRec
<1>. HIDE DEF rec
<1>. QED
  BY <1>1, <1>2, <1>3 DEF Only

\* A job starts anew, fails or ends.
LEMMA FreshOnly ==
    ASSUME TypeOK, NEW w \in Workers, NEW pc \in {"queued", "failed", "done", "rescued"},
           NEW error \in Error \cup {None},
           worker' = [worker EXCEPT ![w] = [pc |-> pc, val |-> 0, error |-> error]]
    PROVE  Only(w, pc, 0)
<1>. DEFINE rec == [pc |-> pc, val |-> 0, error |-> error]
<1>1. worker \in [Workers -> WorkerRec]
  BY DEF TypeOK
<1>2. rec \in WorkerRec /\ rec.pc = pc /\ rec.val = 0
  BY DEF WorkerRec
<1>. HIDE DEF rec
<1>. QED
  BY <1>1, <1>2 DEF Only, rec

\* A job fails.
LEMMA FailOnly ==
    ASSUME TypeOK, NEW w \in Workers, NEW error \in Error, Fail(w, error)
    PROVE  Only(w, "failed", 0)
<1>. DEFINE r == [pc |-> "failed", val |-> 0, error |-> None]
<1>2. [Fresh EXCEPT !.pc = "failed"] = r
  BY DEF Fresh
<1>3. [r EXCEPT !.error = error] = [pc |-> "failed", val |-> 0, error |-> error]
  OBVIOUS
<1>. HIDE DEF r
<1>1. [Fresh EXCEPT !.pc = "failed", !.error = error] = [pc |-> "failed", val |-> 0, error |-> error]
  BY Zenon, <1>2, <1>3
<1>. QED
  BY Zenon, <1>1, FreshOnly DEF Fail

\* A job ends, or is put back in the queue.
LEMMA EndOnly ==
    ASSUME TypeOK, NEW w \in Workers, NEW pc \in {"queued", "done", "rescued"},
           worker' = [worker EXCEPT ![w] = [Fresh EXCEPT !.pc = pc]]
    PROVE  Only(w, pc, 0)
<1>1. [Fresh EXCEPT !.pc = pc] = [pc |-> pc, val |-> 0, error |-> None]
  BY DEF Fresh
<1>. QED
  BY Zenon, <1>1, FreshOnly

\* A job moves on with a new value.
LEMMA ValueOnly ==
    ASSUME TypeOK, NEW w \in Workers, NEW pc \in {"sleep", "eval", "read", "write"}, NEW val \in Int,
           worker' = [worker EXCEPT ![w].pc = pc, ![w].val = val]
    PROVE  Only(w, pc, val)
<1>. DEFINE rec == [worker[w] EXCEPT !.pc = pc, !.val = val]
<1>1. worker \in [Workers -> WorkerRec] /\ worker[w] \in WorkerRec
  BY DEF TypeOK
<1>2. worker' = [worker EXCEPT ![w] = rec]
  BY Zenon, <1>1
<1>3. rec \in WorkerRec /\ rec.pc = pc /\ rec.val = val
  BY Zenon, <1>1 DEF WorkerRec
<1>. HIDE DEF rec
<1>. QED
  BY Zenon, <1>1, <1>2, <1>3 DEF Only

-------------------------------------------------------------------------------
\* Types.

\* What is left of the limit and the parts until the reset are numbers.
LEMMA Numbers ==
    ASSUME TypeOK
    PROVE  rate_limit_remaining \in Int /\ rate_limit_reset \in 0..2 /\ end_of_hour \in 0..1
BY RateLimitAssumption DEF TypeOK, rate_limit_remaining, rate_limit_reset, end_of_hour

\* The initial state has the types.
LEMMA TypeInit ==
    ASSUME Init
    PROVE  TypeOK
<1>1. Fresh \in WorkerRec
  BY DEF Fresh, WorkerRec
<1>2. worker \in [Workers -> WorkerRec] /\ disabled \in BOOLEAN
  BY Zenon, <1>1 DEF Init
<1>. QED
  BY <1>2, RateLimitAssumption DEF Init, TypeOK

\* Each step of a job keeps the types of the jobs.
LEMMA WorkerType ==
    ASSUME TypeOK, NEW w \in Workers, Work(w)
    PROVE  worker' \in [Workers -> WorkerRec]
<1>1. CASE Start(w)
  BY <1>1, GotoOnly DEF Start, Only
<1>2. CASE Check(w)
  <2>1. CASE Fail(w, "SourceInactiveError")
    BY <2>1, FailOnly DEF Error, Only
  <2>2. CASE Goto(w, "wait")
    BY <2>2, GotoOnly DEF Only
  <2>. QED
    BY <1>2, <2>1, <2>2 DEF Check
<1>3. CASE Wait(w)
  <2>1. CASE Fail(w, "TooManyRequestsError")
    BY <2>1, FailOnly DEF Error, Only
  <2>2. CASE Goto(w, "request")
    BY <2>2, GotoOnly DEF Only
  <2>3. CASE worker' = [worker EXCEPT ![w].pc = "sleep", ![w].val = rate_limit_reset]
    <3>. DEFINE val == rate_limit_reset
    <3>1. val \in Int /\ worker' = [worker EXCEPT ![w].pc = "sleep", ![w].val = val]
      BY <2>3, Numbers
    <3>. HIDE DEF val
    <3>. QED
      BY Zenon, <3>1, ValueOnly DEF Only
  <2>. QED
    BY <1>3, <2>1, <2>2, <2>3 DEF Wait
<1>4. CASE Sleep(w)
  BY <1>4, GotoOnly DEF Sleep, Only
<1>5. CASE Respond(w)
  <2>. DEFINE pc == IF "remaining" \in headers THEN "write" ELSE "eval"
              val == IF "remaining" \in headers THEN quota - 1 ELSE 0
  <2>1. pc \in {"eval", "write"} /\ val \in Int
    BY RateLimitAssumption DEF TypeOK
  <2>2. worker' = [worker EXCEPT ![w].pc = pc, ![w].val = val]
    BY <1>5 DEF Respond
  <2>. HIDE DEF pc, val
  <2>. QED
    BY Zenon, <2>1, <2>2, ValueOnly DEF Only
<1>6. CASE RequestFails(w)
  BY Zenon, <1>6, EndOnly DEF RequestFails, Only
<1>7. CASE Evaluate(w)
  <2>. DEFINE pc == IF rate_limit_reset > 0 THEN "read" ELSE "write"
              val == IF rate_limit_reset > 0 THEN 0 ELSE Limit
  <2>1. pc \in {"read", "write"} /\ val \in Int
    BY RateLimitAssumption
  <2>2. worker' = [worker EXCEPT ![w].pc = pc, ![w].val = val]
    BY <1>7 DEF Evaluate
  <2>. HIDE DEF pc, val
  <2>. QED
    BY Zenon, <2>1, <2>2, ValueOnly DEF Only
<1>8. CASE ReadRemaining(w)
  <2>. DEFINE val == rate_limit_remaining - 1
  <2>1. val \in Int /\ worker' = [worker EXCEPT ![w].pc = "write", ![w].val = val]
    BY <1>8, Numbers DEF ReadRemaining
  <2>. HIDE DEF val
  <2>. QED
    BY Zenon, <2>1, ValueOnly DEF Only
<1>9. CASE WriteRemaining(w)
  BY <1>9, GotoOnly DEF WriteRemaining, Only
<1>10. CASE WriteReset(w)
  BY Zenon, <1>10, EndOnly DEF WriteReset, Only
<1>11. CASE Rescue(w)
  <2>. DEFINE pc == IF handler_for_rescue(worker[w].error) = 2 THEN "queued" ELSE "rescued"
  <2>1. worker' = [worker EXCEPT ![w] = [Fresh EXCEPT !.pc = pc]]
    BY <1>11 DEF Rescue
  <2>2. pc \in {"queued", "rescued"}
    OBVIOUS
  <2>. HIDE DEF pc
  <2>. QED
    BY Zenon, <2>1, <2>2, EndOnly DEF Only
<1>12. CASE Requeue(w)
  BY Zenon, <1>12, FreshOnly DEF Requeue, Fresh, Only
<1>. QED
  BY Zenon, <1>1, <1>2, <1>3, <1>4, <1>5, <1>6, <1>7, <1>8, <1>9, <1>10, <1>11, <1>12 DEF Work

\* And of everything else.
LEMMA WorkType ==
    ASSUME TypeOK, NEW w \in Workers, Work(w)
    PROVE  TypeOK'
<1>1. worker' \in [Workers -> WorkerRec]
  BY WorkerType
<1>2. headers' = headers /\ part' = part /\ lost' = lost /\ late' = late
  BY Zenon DEF Work, Start, Check, Wait, Sleep, Respond, RequestFails, Evaluate, ReadRemaining,
               WriteRemaining, WriteReset, Rescue, Requeue
<1>3. disabled' \in BOOLEAN
  <2>1. CASE Check(w)
    <3>1. check_for_rate_limits \in BOOLEAN
      BY Numbers, RateLimitAssumption DEF check_for_rate_limits
    <3>. QED
      BY Zenon, <2>1, <3>1 DEF Check
  <2>2. disabled' = disabled \/ Check(w)
    BY Zenon DEF Work, Start, Wait, Sleep, Respond, RequestFails, Evaluate, ReadRemaining,
                 WriteRemaining, WriteReset, Rescue, Requeue
  <2>. QED
    BY Zenon, <2>1, <2>2 DEF TypeOK
<1>4. remaining' \in Int \cup {None}
  <2>1. CASE WriteRemaining(w)
    BY <2>1 DEF WriteRemaining, TypeOK, WorkerRec
  <2>2. remaining' = remaining \/ WriteRemaining(w)
    BY Zenon DEF Work, Start, Check, Wait, Sleep, Respond, RequestFails, Evaluate, ReadRemaining,
                 WriteReset, Rescue, Requeue
  <2>. QED
    BY <2>1, <2>2 DEF TypeOK
<1>5. reset' \in 0..2 \cup {None}
  <2>1. CASE WriteReset(w)
    BY <2>1, Numbers DEF WriteReset
  <2>2. reset' = reset \/ WriteReset(w)
    BY Zenon DEF Work, Start, Check, Wait, Sleep, Respond, RequestFails, Evaluate, ReadRemaining,
                 WriteRemaining, Rescue, Requeue
  <2>. QED
    BY <2>1, <2>2 DEF TypeOK
<1>6. quota' \in 0..Quota
  <2>1. CASE Respond(w)
    BY <2>1, RateLimitAssumption DEF Respond, TypeOK
  <2>2. quota' = quota \/ Respond(w)
    BY Zenon DEF Work, Start, Check, Wait, Sleep, RequestFails, Evaluate, ReadRemaining,
                 WriteRemaining, WriteReset, Rescue, Requeue
  <2>. QED
    BY <2>1, <2>2 DEF TypeOK
<1>7. failures' \in 0..MaxFailures
  <2>1. CASE RequestFails(w)
    BY <2>1, RateLimitAssumption DEF RequestFails, TypeOK
  <2>2. failures' = failures \/ RequestFails(w)
    BY Zenon DEF Work, Start, Check, Wait, Sleep, Respond, Evaluate, ReadRemaining,
                 WriteRemaining, WriteReset, Rescue, Requeue
  <2>. QED
    BY <2>1, <2>2 DEF TypeOK
<1>8. made' \in 0..Limit /\ recent' \in 0..Limit
  <2>1. CASE Respond(w)
    BY <2>1, RateLimitAssumption DEF Respond, Counted, TypeOK
  <2>2. CASE WriteReset(w)
    BY <2>2 DEF WriteReset, TypeOK
  <2>3. (made' = made /\ recent' = recent) \/ Respond(w) \/ WriteReset(w)
    BY Zenon DEF Work, Start, Check, Wait, Sleep, RequestFails, Evaluate, ReadRemaining,
                 WriteRemaining, Rescue, Requeue, history
  <2>. QED
    BY <2>1, <2>2, <2>3 DEF TypeOK
<1>. QED
  BY <1>1, <1>2, <1>3, <1>4, <1>5, <1>6, <1>7, <1>8 DEF TypeOK

\* Time only lets jobs that sleep go on.
LEMMA TickJobs ==
    ASSUME TypeOK, Tick
    PROVE  /\ worker' \in [Workers -> WorkerRec]
           /\ \A w \in Workers : worker'[w].pc = worker[w].pc
<1>. SUFFICES ASSUME NEW w \in Workers
              PROVE  worker'[w] \in WorkerRec /\ worker'[w].pc = worker[w].pc
  BY DEF Tick
<1>1. worker[w] \in WorkerRec
  BY DEF TypeOK
<1>2. worker'[w] = worker[w] \/ worker'[w] = [worker[w] EXCEPT !.val = worker[w].val - 1]
  BY DEF Tick
<1>. QED
  BY <1>1, <1>2 DEF WorkerRec

\* The variables have their types (configurable.rb 167-193, source.rb 146-159): whatever jobs
\* read between the writes of others, the time of the reset that they store is in this hour or
\* at the start of the next one.
THEOREM RateLimitTypeCorrect == Spec => []TypeOK
<1>1. TypeOK /\ [Next]_vars => TypeOK'
  <2>. SUFFICES ASSUME TypeOK, [Next]_vars PROVE TypeOK'
    OBVIOUS
  <2>1. CASE Tick
    BY <2>1, TickJobs, RateLimitAssumption DEF Tick, TypeOK
  <2>2. CASE Evict
    BY <2>2, RateLimitAssumption DEF Evict, TypeOK, history
  <2>3. CASE UNCHANGED vars
    BY <2>3 DEF vars, TypeOK
  <2>. QED
    BY Zenon, <2>1, <2>2, <2>3, WorkType DEF Next
<1>. QED
  BY <1>1, TypeInit, PTL DEF Spec

-------------------------------------------------------------------------------
\* The seven things that a step of a job can do to the count, for a source that counts
\* its requests itself.

Others(w) == /\ worker' \in [Workers -> WorkerRec]
             /\ \A x \in Workers : x # w => worker'[x] = worker[x]
             /\ part' = part

Same == remaining' = remaining /\ reset' = reset /\ made' = made /\ recent' = recent

Idles(w) == Same /\ ~Counting(w) /\ ~Counting(w)'

Answers(w) == /\ remaining' = remaining /\ reset' = reset
              /\ made' = (IF made < Limit THEN made + 1 ELSE made)
              /\ recent' = (IF recent < Limit THEN recent + 1 ELSE recent)
              /\ worker[w].pc = "request" /\ worker'[w].pc = "eval"

Reads(w) == /\ Same /\ rate_limit_reset > 0
            /\ worker[w].pc = "eval" /\ worker'[w].pc = "read"

Fills(w) == /\ Same /\ worker[w].pc = "eval"
            /\ worker'[w].pc = "write" /\ worker'[w].val = Limit

Counts(w) == /\ Same /\ worker[w].pc = "read"
             /\ worker'[w].pc = "write" /\ worker'[w].val = rate_limit_remaining - 1

Stores(w) == /\ remaining' = worker[w].val /\ reset' = reset
             /\ made' = made /\ recent' = recent
             /\ worker[w].pc = "write" /\ worker'[w].pc = "reset"

Sets(w) == /\ remaining' = remaining /\ reset' = end_of_hour
           /\ made' = (IF reset = 0 THEN recent ELSE made) /\ recent' = recent
           /\ worker[w].pc = "reset" /\ worker'[w].pc = "done"

\* Each step of a job is one of them.
LEMMA WorkDoes ==
    ASSUME TypeOK, headers = {}, NEW w \in Workers, Work(w)
    PROVE  /\ Others(w)
           /\ \/ Idles(w) \/ Answers(w) \/ Reads(w) \/ Fills(w) \/ Counts(w)
              \/ Stores(w) \/ Sets(w)
<1>0. part' = part
  BY Zenon DEF Work, Start, Check, Wait, Sleep, Respond, RequestFails, Evaluate, ReadRemaining,
               WriteRemaining, WriteReset, Rescue, Requeue
<1>1. CASE Start(w)
  <2>1. Only(w, "check", worker[w].val)
    BY <1>1, GotoOnly DEF Start
  <2>. QED
    BY <1>0, <1>1, <2>1 DEF Start, Only, Others, Idles, Same, Counting, history
<1>2. CASE Check(w)
  <2>1. \/ Only(w, "failed", 0)
        \/ Only(w, "wait", worker[w].val)
    BY <1>2, FailOnly, GotoOnly DEF Check, Error
  <2>. QED
    BY <1>0, <1>2, <2>1 DEF Check, Only, Others, Idles, Same, Counting, history
<1>3. CASE Wait(w)
  <2>0. worker[w].pc = "wait" /\ Same
    BY <1>3 DEF Wait, Same, history
  <2>1. CASE Fail(w, "TooManyRequestsError")
    <3>1. Only(w, "failed", 0)
      BY <2>1, FailOnly DEF Error
    <3>. QED
      BY <1>0, <2>0, <3>1 DEF Only, Others, Idles, Counting
  <2>2. CASE Goto(w, "request")
    <3>1. Only(w, "request", worker[w].val)
      BY <2>2, GotoOnly
    <3>. QED
      BY <1>0, <2>0, <3>1 DEF Only, Others, Idles, Counting
  <2>3. CASE worker' = [worker EXCEPT ![w].pc = "sleep", ![w].val = rate_limit_reset]
    <3>. DEFINE val == rate_limit_reset
    <3>1. val \in Int /\ worker' = [worker EXCEPT ![w].pc = "sleep", ![w].val = val]
      BY <2>3, Numbers
    <3>. HIDE DEF val
    <3>2. Only(w, "sleep", val)
      BY Zenon, <3>1, ValueOnly
    <3>. QED
      BY <1>0, <2>0, <3>2 DEF Only, Others, Idles, Counting
  <2>. QED
    BY Zenon, <1>3, <2>1, <2>2, <2>3 DEF Wait
<1>4. CASE Sleep(w)
  <2>1. Only(w, "request", worker[w].val)
    BY <1>4, GotoOnly DEF Sleep
  <2>. QED
    BY <1>0, <1>4, <2>1 DEF Sleep, Only, Others, Idles, Same, Counting, history
<1>5. CASE Respond(w)
  <2>. DEFINE pc == IF "remaining" \in headers THEN "write" ELSE "eval"
              val == IF "remaining" \in headers THEN quota - 1 ELSE 0
  <2>1. pc = "eval" /\ val = 0 /\ pc \in {"eval", "read"} /\ val \in Int
    OBVIOUS
  <2>2. worker' = [worker EXCEPT ![w].pc = pc, ![w].val = val]
    BY <1>5 DEF Respond
  <2>. HIDE DEF pc, val
  <2>3. Only(w, pc, val)
    BY Zenon, <2>1, <2>2, ValueOnly
  <2>. QED
    BY <1>0, <1>5, <2>1, <2>3 DEF Respond, Only, Others, Answers, Counted
<1>6. CASE RequestFails(w)
  <2>1. Only(w, "done", 0)
    BY Zenon, <1>6, EndOnly DEF RequestFails
  <2>. QED
    BY <1>0, <1>6, <2>1 DEF RequestFails, Only, Others, Idles, Same, Counting, history
<1>7. CASE Evaluate(w)
  <2>0. worker[w].pc = "eval" /\ Same
    BY <1>7 DEF Evaluate, Same, history
  <2>. DEFINE pc == IF rate_limit_reset > 0 THEN "read" ELSE "write"
              val == IF rate_limit_reset > 0 THEN 0 ELSE Limit
  <2>1. \/ rate_limit_reset > 0 /\ pc = "read" /\ val = 0
        \/ rate_limit_reset = 0 /\ pc = "write" /\ val = Limit
    BY Numbers
  <2>4. pc \in {"read", "write"} /\ val \in Int
    BY RateLimitAssumption
  <2>2. worker' = [worker EXCEPT ![w].pc = pc, ![w].val = val]
    BY <1>7 DEF Evaluate
  <2>. HIDE DEF pc, val
  <2>3. Only(w, pc, val)
    BY Zenon, <2>2, <2>4, ValueOnly
  <2>. QED
    BY <1>0, <2>0, <2>1, <2>3 DEF Only, Others, Reads, Fills
<1>8. CASE ReadRemaining(w)
  <2>. DEFINE val == rate_limit_remaining - 1
  <2>1. val \in Int /\ worker' = [worker EXCEPT ![w].pc = "write", ![w].val = val]
    BY <1>8, Numbers DEF ReadRemaining
  <2>2. Only(w, "write", val)
    <3>. HIDE DEF val
    <3>. QED
      BY Zenon, <2>1, ValueOnly
  <2>. QED
    BY <1>0, <1>8, <2>2 DEF ReadRemaining, Only, Others, Counts, Same, history
<1>9. CASE WriteRemaining(w)
  <2>1. Only(w, "reset", worker[w].val)
    BY <1>9, GotoOnly DEF WriteRemaining
  <2>. QED
    BY <1>0, <1>9, <2>1 DEF WriteRemaining, Only, Others, Stores, history
<1>10. CASE WriteReset(w)
  <2>1. Only(w, "done", 0)
    BY Zenon, <1>10, EndOnly DEF WriteReset
  <2>. QED
    BY <1>0, <1>10, <2>1 DEF WriteReset, Only, Others, Sets
<1>11. CASE Rescue(w)
  <2>. DEFINE pc == IF handler_for_rescue(worker[w].error) = 2 THEN "queued" ELSE "rescued"
  <2>1. worker' = [worker EXCEPT ![w] = [Fresh EXCEPT !.pc = pc]]
    BY <1>11 DEF Rescue
  <2>2. pc \in {"queued", "rescued"}
    OBVIOUS
  <2>. HIDE DEF pc
  <2>3. Only(w, pc, 0)
    BY Zenon, <2>1, <2>2, EndOnly
  <2>. QED
    BY <1>0, <1>11, <2>2, <2>3 DEF Rescue, Only, Others, Idles, Same, Counting, history
<1>12. CASE Requeue(w)
  <2>1. Only(w, "queued", 0)
    BY Zenon, <1>12, FreshOnly DEF Requeue, Fresh
  <2>. QED
    BY <1>0, <1>12, <2>1 DEF Requeue, Only, Others, Idles, Same, Counting, history
<1>. QED
  BY Zenon, <1>1, <1>2, <1>3, <1>4, <1>5, <1>6, <1>7, <1>8, <1>9, <1>10, <1>11, <1>12 DEF Work

-------------------------------------------------------------------------------
\* The count.

\* How many jobs have yet to count.
LEMMA SizeStep ==
    ASSUME TypeOK, NEW w \in Workers, Others(w)
    PROVE  /\ Size \in Nat
           /\ (w \in Pending <=> w \in Pending') => Size' = Size
           /\ w \in Pending' /\ w \notin Pending => Size' = Size + 1
           /\ w \in Pending /\ w \notin Pending' => Size' = Size - 1
<1>1. Pending \subseteq Workers /\ IsFiniteSet(Workers)
  BY RateLimitAssumption DEF Pending
<1>2. IsFiniteSet(Pending) /\ Size \in Nat
  BY <1>1, FS_Subset, FS_CardinalityType DEF Size
<1>3. \A x \in Workers : x # w => (x \in Pending' <=> x \in Pending)
  BY DEF Others, Pending
<1>4. Pending' \subseteq Workers
  BY DEF Pending
<1>5. ASSUME w \in Pending <=> w \in Pending'
      PROVE  Size' = Size
  <2>1. Pending' = Pending
    BY <1>1, <1>3, <1>4, <1>5
  <2>. QED
    BY <2>1 DEF Size
<1>6. ASSUME w \in Pending', w \notin Pending
      PROVE  Size' = Size + 1
  <2>1. Pending' = Pending \cup {w}
    BY <1>1, <1>3, <1>4, <1>6
  <2>. QED
    BY <1>2, <1>6, <2>1, FS_AddElement DEF Size
<1>7. ASSUME w \in Pending, w \notin Pending'
      PROVE  Size' = Size - 1
  <2>1. Pending' = Pending \ {w}
    BY <1>1, <1>3, <1>4, <1>7
  <2>. QED
    BY <1>2, <1>7, <2>1, FS_RemoveElement DEF Size
<1>. QED
  BY <1>2, <1>5, <1>6, <1>7

\* What a step leaves alone is left alone.
LEMMA SameKeys ==
    ASSUME NEW w \in Workers, Others(w)
    PROVE  /\ end_of_hour' = end_of_hour
           /\ remaining' = remaining => rate_limit_remaining' = rate_limit_remaining
           /\ reset' = reset => rate_limit_reset' = rate_limit_reset
           /\ reset' = reset /\ HourInv => HourInv'
BY DEF Others, end_of_hour, rate_limit_remaining, rate_limit_reset, HourInv

\* The numbers that the invariant compares.
LEMMA CountTypes ==
    ASSUME TypeOK
    PROVE  /\ Limit \in Nat /\ made \in 0..Limit /\ recent \in 0..Limit
           /\ rate_limit_remaining \in Int /\ \A w \in Workers : worker[w].val \in Int
BY Numbers, RateLimitAssumption DEF TypeOK, WorkerRec

\* A job that does not count.
LEMMA SafeIdles ==
    ASSUME TypeOK, SafeInv, NEW w \in Workers, Others(w), Idles(w)
    PROVE  SafeInv'
<1>0. rate_limit_remaining' = rate_limit_remaining /\ rate_limit_reset' = rate_limit_reset /\ HourInv'
  BY SameKeys DEF SafeInv, Idles, Same
<1>1. Size' = Size
  BY SizeStep DEF Pending, Idles, Counting
<1>2. \A x \in Workers : Counting(x)' => worker'[x] = worker[x]
  BY DEF Others, Idles
<1>3. PendingInv' /\ CountInv'
  BY <1>0, <1>1, <1>2 DEF SafeInv, PendingInv, CountInv, Covers, Idles, Same, Counting
<1>4. ReachedInv'
  BY <1>0, <1>2 DEF SafeInv, ReachedInv, Idles, Same, Counting
<1>. QED
  BY <1>0, <1>3, <1>4 DEF SafeInv

\* A request is answered: one more was made, and one more job has yet to count it.
LEMMA SafeAnswers ==
    ASSUME TypeOK, SafeInv, NEW w \in Workers, Others(w), Answers(w)
    PROVE  SafeInv'
<1>0. rate_limit_remaining' = rate_limit_remaining /\ rate_limit_reset' = rate_limit_reset /\ HourInv'
  BY SameKeys DEF SafeInv, Answers
<1>1. Size \in Nat /\ Size' = Size + 1
  BY SizeStep DEF Pending, Answers, Others
<1>2. \A x \in Workers : worker'[x].pc \in {"read", "write", "reset"} => worker'[x] = worker[x]
  BY DEF Others, Answers
<1>3. PendingInv' /\ CountInv'
  BY <1>0, <1>1, <1>2, CountTypes DEF SafeInv, PendingInv, CountInv, Covers, Answers
<1>4. ReachedInv'
  BY <1>0, <1>2 DEF SafeInv, ReachedInv, Answers
<1>. QED
  BY <1>0, <1>3, <1>4 DEF SafeInv

\* A job finds that the reset is not reached.
LEMMA SafeReads ==
    ASSUME TypeOK, SafeInv, NEW w \in Workers, Others(w), Reads(w)
    PROVE  SafeInv'
<1>0. rate_limit_remaining' = rate_limit_remaining /\ rate_limit_reset' = rate_limit_reset /\ HourInv'
  BY SameKeys DEF SafeInv, Reads, Same
<1>1. Size' = Size
  BY SizeStep DEF Pending, Reads, Others
<1>2. \A x \in Workers : worker'[x].pc = "write" => worker'[x] = worker[x]
  BY DEF Others, Reads
<1>3. PendingInv' /\ CountInv'
  BY <1>0, <1>1, <1>2 DEF SafeInv, PendingInv, CountInv, Covers, Reads, Same
<1>4. ReachedInv'
  BY <1>0, Numbers DEF ReachedInv, Reads
<1>. QED
  BY <1>0, <1>3, <1>4 DEF SafeInv

\* A job that finds the reset reached will store the limit.
LEMMA SafeFills ==
    ASSUME TypeOK, SafeInv, NEW w \in Workers, Others(w), Fills(w)
    PROVE  SafeInv'
<1>0. rate_limit_remaining' = rate_limit_remaining /\ rate_limit_reset' = rate_limit_reset /\ HourInv'
  BY SameKeys DEF SafeInv, Fills, Same
<1>1. Size \in Nat /\ Size' = Size - 1
  BY SizeStep DEF Pending, Fills, Others
<1>2. \A x \in Workers : /\ worker'[x].pc \in {"read", "reset"} => worker'[x] = worker[x]
                         /\ worker'[x].pc = "write" => worker'[x] = worker[x] \/ worker'[x].val = Limit
  BY DEF Others, Fills
<1>3. PendingInv' /\ CountInv'
  BY <1>0, <1>1, <1>2, CountTypes DEF SafeInv, PendingInv, CountInv, Covers, Fills, Same
<1>4. ReachedInv'
  BY <1>0, <1>2 DEF SafeInv, ReachedInv, Fills, Same
<1>. QED
  BY <1>0, <1>3, <1>4 DEF SafeInv

\* A job has read what remains, one less of which it will store: its request is counted.
LEMMA SafeCounts ==
    ASSUME TypeOK, SafeInv, NEW w \in Workers, Others(w), Counts(w)
    PROVE  SafeInv'
<1>0. rate_limit_remaining' = rate_limit_remaining /\ rate_limit_reset' = rate_limit_reset /\ HourInv'
  BY SameKeys DEF SafeInv, Counts, Same
<1>1. Size \in Nat /\ Size' = Size - 1
  BY SizeStep DEF Pending, Counts, Others
<1>2. \A x \in Workers : worker'[x].pc = "write" =>
          worker'[x] = worker[x] \/ worker'[x].val = rate_limit_remaining - 1
  BY DEF Others, Counts
<1>3. PendingInv' /\ CountInv'
  BY <1>0, <1>1, <1>2, CountTypes DEF SafeInv, PendingInv, CountInv, Covers, Counts, Same
<1>4. ReachedInv'
  BY <1>0 DEF SafeInv, ReachedInv, Counts, Same
<1>. QED
  BY <1>0, <1>3, <1>4 DEF SafeInv

\* A job stores what it has counted.
LEMMA SafeStores ==
    ASSUME TypeOK, SafeInv, NEW w \in Workers, Others(w), Stores(w)
    PROVE  SafeInv'
<1>0. rate_limit_reset' = rate_limit_reset /\ HourInv'
  BY SameKeys DEF SafeInv, Stores
<1>1. rate_limit_remaining' = worker[w].val
  BY CountTypes, RateLimitAssumption DEF Stores, rate_limit_remaining
<1>2. Size' = Size
  BY SizeStep DEF Pending, Stores, Others
<1>3. \A x \in Workers : /\ worker'[x].pc \in {"read", "write"} => worker'[x] = worker[x]
                         /\ worker'[x].pc = "reset" => worker'[x] = worker[x] \/ x = w
  BY DEF Others, Stores
<1>4. PendingInv' /\ CountInv'
  BY <1>1, <1>2, <1>3 DEF SafeInv, PendingInv, CountInv, Covers, Stores
<1>5. ReachedInv'
  BY <1>0, <1>1, <1>3 DEF SafeInv, ReachedInv, Stores
<1>. QED
  BY <1>0, <1>4, <1>5 DEF SafeInv

\* A job stores the time of the reset.  If it was reached, only the requests since then count.
LEMMA SafeSets ==
    ASSUME TypeOK, SafeInv, NEW w \in Workers, Others(w), Sets(w)
    PROVE  SafeInv'
<1>0. rate_limit_remaining' = rate_limit_remaining /\ end_of_hour' = end_of_hour
  BY SameKeys DEF Sets
<1>1. HourInv' /\ rate_limit_reset' = end_of_hour
  BY Numbers, RateLimitAssumption DEF HourInv, Sets, Others, end_of_hour, rate_limit_reset
<1>2. Size \in Nat /\ Size' = Size
  BY SizeStep DEF Pending, Sets, Others
<1>3. \A x \in Workers : Counting(x)' => worker'[x] = worker[x]
  BY DEF Others, Sets, Counting
<1>4. PendingInv'
  BY <1>2 DEF SafeInv, PendingInv, Covers, Sets
<1>5. CountInv'
  <2>1. CASE reset = 0 /\ recent # made
    <3>1. rate_limit_remaining = Limit /\ \A x \in Workers : worker[x].pc = "write" => worker[x].val = Limit
      BY <2>1, RateLimitAssumption DEF SafeInv, ReachedInv, rate_limit_reset, Sets
    <3>2. Covers(Limit, recent)
      BY DEF SafeInv, PendingInv
    <3>. QED
      BY <1>0, <1>2, <1>3, <2>1, <3>1, <3>2 DEF CountInv, Covers, Sets, Counting
  <2>2. CASE reset # 0 \/ recent = made
    <3>1. made' = made
      BY <2>2 DEF Sets
    <3>. QED
      BY <1>0, <1>2, <1>3, <3>1 DEF SafeInv, CountInv, Covers, Counting
  <2>. QED
    BY <2>1, <2>2
<1>6. ReachedInv'
  <2>. SUFFICES ASSUME end_of_hour = 0, recent' # made' PROVE ReachedInv'
    BY <1>1 DEF ReachedInv
  <2>1. reset # 0 /\ rate_limit_reset = 0 /\ recent # made
    BY RateLimitAssumption DEF SafeInv, HourInv, Sets, rate_limit_reset, end_of_hour, TypeOK
  <2>. QED
    BY <1>0, <1>3, <2>1 DEF SafeInv, ReachedInv, Sets, Counting
<1>. QED
  BY <1>1, <1>4, <1>5, <1>6 DEF SafeInv

\* Time goes on: either no job is counting, or all requests still count.
LEMMA SafeTick ==
    ASSUME TypeOK, SafeInv, Tick
    PROVE  SafeInv'
<1>1. rate_limit_remaining' = rate_limit_remaining /\ made' = made
  BY DEF Tick, rate_limit_remaining
<1>2. \A w \in Workers : /\ worker'[w].pc = worker[w].pc
                         /\ Counting(w) => worker'[w] = worker[w]
  BY TickJobs DEF Tick, Counting
<1>3. Size' = Size /\ Size \in Nat
  <2>1. Pending' = Pending
    BY <1>2 DEF Pending
  <2>2. Pending \subseteq Workers /\ IsFiniteSet(Workers)
    BY RateLimitAssumption DEF Pending
  <2>. QED
    BY <2>1, <2>2, FS_Subset, FS_CardinalityType DEF Size
<1>4. HourInv'
  BY RateLimitAssumption DEF SafeInv, HourInv, Tick, TypeOK
<1>5. CountInv'
  BY <1>1, <1>2, <1>3 DEF SafeInv, CountInv, Covers, Counting
<1>6. CASE \E w \in Workers : Counting(w)
  <2>1. recent' = made
    BY <1>6 DEF Tick
  <2>. QED
    BY <1>1, <1>3, <1>4, <1>5, <2>1 DEF SafeInv, PendingInv, ReachedInv, Covers
<1>7. CASE ~\E w \in Workers : Counting(w)
  <2>1. Size = 0
    <3>1. Pending = {}
      BY <1>7 DEF Pending, Counting
    <3>. QED
      BY <3>1, FS_EmptySet DEF Size
  <2>2. PendingInv'
    BY <1>1, <1>3, <2>1, CountTypes, <1>7 DEF PendingInv, Covers, Tick
  <2>3. ReachedInv'
    BY <1>2, <1>7 DEF ReachedInv, Counting
  <2>. QED
    BY <1>4, <1>5, <2>2, <2>3 DEF SafeInv
<1>. QED
  BY <1>6, <1>7

\* A key is lost: what remains is then the limit, and the reset at the end of the hour.
LEMMA SafeEvict ==
    ASSUME TypeOK, SafeInv, Evict
    PROVE  SafeInv'
<1>1. worker' = worker /\ part' = part /\ made' = made /\ recent' = recent
  BY DEF Evict, history
<1>2. Size' = Size
  BY <1>1 DEF Size, Pending
<1>3. rate_limit_remaining' = rate_limit_remaining \/ rate_limit_remaining' = Limit
  BY DEF Evict, rate_limit_remaining
<1>4. HourInv'
  BY <1>1, RateLimitAssumption DEF SafeInv, HourInv, Evict
<1>5. PendingInv' /\ CountInv'
  BY <1>1, <1>2, <1>3 DEF SafeInv, PendingInv, CountInv, Covers
<1>6. rate_limit_reset' = 0 => rate_limit_reset = 0
  BY <1>1, RateLimitAssumption DEF SafeInv, HourInv, Evict, rate_limit_reset, end_of_hour, TypeOK
<1>7. ReachedInv'
  BY <1>1, <1>3, <1>6 DEF SafeInv, ReachedInv
<1>. QED
  BY <1>4, <1>5, <1>7 DEF SafeInv

\* Every step keeps the count.
LEMMA SafeStep ==
    ASSUME TypeOK, SafeInv, headers = {}, Next
    PROVE  SafeInv'
<1>1. CASE Tick
  BY <1>1, SafeTick
<1>2. CASE Evict
  BY <1>2, SafeEvict
<1>3. ASSUME NEW w \in Workers, Work(w)
      PROVE  SafeInv'
  BY Zenon, <1>3, WorkDoes, SafeIdles, SafeAnswers, SafeReads, SafeFills, SafeCounts, SafeStores, SafeSets
<1>. QED
  BY Zenon, <1>1, <1>2, <1>3 DEF Next

\* At first nothing is stored, which counts as the limit, and nothing is made.
LEMMA SafeInit ==
    ASSUME Init
    PROVE  SafeInv
<1>1. rate_limit_remaining = Limit /\ rate_limit_reset = 1 /\ Limit \in Nat
  BY RateLimitAssumption DEF Init, rate_limit_remaining, rate_limit_reset, end_of_hour
<1>2. \A w \in Workers : worker[w].pc = "queued"
  BY DEF Init, Fresh
<1>3. Size = 0
  <2>1. Pending = {}
    BY <1>2 DEF Pending
  <2>. QED
    BY <2>1, FS_EmptySet DEF Size
<1>. QED
  BY <1>1, <1>2, <1>3 DEF Init, SafeInv, HourInv, PendingInv, CountInv, ReachedInv, Covers

\* A source that counts its requests itself is disabled for its rate limit only if it made the
\* requests (source.rb 146-149, configurable.rb 167-193), for any number of jobs at a time, keys
\* that memcached loses and hours that end while jobs count: each job takes one from what some
\* job stored, so what remains covers the requests made and the jobs that have yet to count.
THEOREM LimitIsReached == Spec => []LimitReached
<1>1. Init => CountsInv
  BY SafeInit DEF CountsInv
<1>2. TypeOK /\ CountsInv /\ [Next]_vars => CountsInv'
  <2>. SUFFICES ASSUME TypeOK, CountsInv, [Next]_vars PROVE CountsInv'
    OBVIOUS
  <2>1. CASE UNCHANGED vars
    <3>1. /\ headers' = headers /\ part' = part /\ reset' = reset /\ worker' = worker
          /\ made' = made /\ recent' = recent /\ Size' = Size
          /\ rate_limit_remaining' = rate_limit_remaining
          /\ rate_limit_reset' = rate_limit_reset
      BY <2>1, Zenon DEF vars, Size, Pending, rate_limit_remaining, rate_limit_reset, end_of_hour
    <3>2. SafeInv => SafeInv'
      BY <3>1 DEF SafeInv, HourInv, PendingInv, CountInv, ReachedInv, Covers
    <3>. QED
      BY <3>1, <3>2, Zenon DEF CountsInv
  <2>2. CASE Next
    <3>1. headers' = headers
      BY Zenon, <2>2 DEF Next, Tick, Evict, Work, Start, Check, Wait, Sleep, Respond, RequestFails,
           Evaluate, ReadRemaining, WriteRemaining, WriteReset, Rescue, Requeue
    <3>. QED
      BY Zenon, <2>2, <3>1, SafeStep DEF CountsInv
  <2>. QED
    BY Zenon, <2>1, <2>2
<1>3. TypeOK /\ CountsInv => LimitReached
  <2>. SUFFICES ASSUME TypeOK, SafeInv, rate_limit_remaining < Low PROVE made > Limit - Low
    BY DEF CountsInv, LimitReached, check_for_rate_limits
  <2>1. Size \in Nat
    <3>1. Pending \subseteq Workers /\ IsFiniteSet(Workers)
      BY RateLimitAssumption DEF Pending
    <3>. QED
      BY <3>1, FS_Subset, FS_CardinalityType DEF Size
  <2>. QED
    BY <2>1, CountTypes, RateLimitAssumption DEF SafeInv, CountInv, Covers
<1>. QED
  BY <1>1, <1>2, <1>3, RateLimitTypeCorrect, PTL DEF Spec

===============================================================================
