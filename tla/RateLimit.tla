------------------------------ MODULE RateLimit ------------------------------
(***************************************************************************)
(* How jobs of one source that run at the same time observe its rate limit. *)
(* rate_limit_remaining and rate_limit_reset are two keys of memcached, read *)
(* and written one at a time and without a lock.                            *)
(*                                                                         *)
(* Time is the part of the hour: "bulk", or "last" for its last second.  The *)
(* time of a reset is kept as the number of parts until it is reached.      *)
(***************************************************************************)
EXTENDS Integers, FiniteSets

CONSTANTS
    Workers,     \* jobs of the source that run at the same time
    Limit,       \* rate_limiting
    Quota,       \* requests the service accepts in an hour
    Low,         \* 10: with fewer requests left the source is disabled
    High,        \* 50: with fewer requests left jobs wait for the reset
    Slow,        \* 3600 / rate_limiting is more than 5 seconds
    Headers,     \* what services report in their response headers
    MaxLost,     \* bound: keys that memcached drops
    MaxLate,     \* bound: times that the hour, or its last second, ends while a job counts
    None,        \* a key that memcached does not have; no error
    MaxFailures  \* bound: requests that fail

ASSUME RateLimitAssumption ==
    /\ Limit \in Nat /\ Quota \in Nat /\ Low \in Nat /\ High \in Nat
    /\ MaxFailures \in Nat /\ MaxLost \in Nat /\ MaxLate \in Nat
    /\ 0 < Low /\ Low < High
    /\ Slow \in BOOLEAN
    /\ Headers \subseteq SUBSET {"remaining", "reset"}
    /\ None \notin Int
    /\ IsFiniteSet(Workers)

VARIABLES
    headers,   \* what this service reports; never changes
    part,      \* of the hour
    remaining, \* the key rate_limit_remaining
    reset,     \* the key rate_limit_reset
    worker,    \* a job at work on one retrieval status
    disabled,  \* the state of the source is disabled
    quota,     \* requests the service accepts until the end of the hour
    failures,
    lost,      \* keys dropped so far
    late,      \* times that a job was counting when the time changed
    made,      \* requests answered since the counter was last refilled, up to Limit
    recent     \* those of them answered since the time last changed

vars == <<headers, part, remaining, reset, worker, disabled, quota, failures, lost, late, made, recent>>
history == <<made, recent>>

Error == {"SourceInactiveError", "TooManyRequestsError"}
Fresh == [pc |-> "queued", val |-> 0, error |-> None]
WorkerRec == [pc : {"queued", "check", "wait", "sleep", "request", "eval", "read", "write",
                    "reset", "failed", "done", "rescued"},
              val : Int, error : Error \cup {None}]

\* Time.zone.now.end_of_hour, in whole seconds: reached with the last second.
end_of_hour == IF part = "bulk" THEN 1 ELSE 0

rate_limit_remaining == IF remaining = None THEN Limit ELSE remaining

rate_limit_reset == IF reset = None THEN end_of_hour ELSE reset

check_for_rate_limits == rate_limit_remaining < Low

Goto(w, pc) == worker' = [worker EXCEPT ![w].pc = pc]

Fail(w, error) == worker' = [worker EXCEPT ![w] = [Fresh EXCEPT !.pc = "failed", !.error = error]]

-------------------------------------------------------------------------------
\* A job, for one retrieval status.

Start(w) ==
    /\ worker[w].pc = "queued"
    /\ Goto(w, "check")
    /\ UNCHANGED <<headers, part, remaining, reset, disabled, quota, failures, lost, late, history>>

\* work_after_check, as far as the rate limit is concerned.
Check(w) ==
    /\ worker[w].pc = "check"
    /\ disabled' = check_for_rate_limits
    /\ IF check_for_rate_limits THEN Fail(w, "SourceInactiveError") ELSE Goto(w, "wait")
    /\ UNCHANGED <<headers, part, remaining, reset, quota, failures, lost, late, history>>

\* Mutant: a job that would have to wait gives up, even once the reset was reached.
WaitRefused(w) ==
    /\ worker[w].pc = "wait"
    /\ IF rate_limit_remaining < High \/ Slow THEN Fail(w, "TooManyRequestsError") ELSE Goto(w, "request")
    /\ UNCHANGED <<headers, part, remaining, reset, disabled, quota, failures, lost, late, history>>

\* wait_time: until the reset if little remains, else the usual interval.  More
\* than 5 seconds is too long.
Wait(w) ==
    /\ worker[w].pc = "wait"
    /\ IF rate_limit_remaining < High
       THEN \/ rate_limit_reset = 0 /\ Goto(w, "request")
            \/ /\ rate_limit_reset > 0
               /\ worker' = [worker EXCEPT ![w].pc = "sleep", ![w].val = rate_limit_reset]
            \/ rate_limit_reset > 0 /\ Fail(w, "TooManyRequestsError")
       ELSE IF Slow THEN Fail(w, "TooManyRequestsError") ELSE Goto(w, "request")
    /\ UNCHANGED <<headers, part, remaining, reset, disabled, quota, failures, lost, late, history>>

Sleep(w) ==
    /\ worker[w].pc = "sleep"
    /\ worker[w].val = 0
    /\ Goto(w, "request")
    /\ UNCHANGED <<headers, part, remaining, reset, disabled, quota, failures, lost, late, history>>

\* One request more, for a source that counts them itself.
Counted(n) == IF headers = {} /\ n < Limit THEN n + 1 ELSE n

\* get_result: the service answers ...
Respond(w) ==
    /\ worker[w].pc = "request"
    /\ quota > 0
    /\ quota' = quota - 1
    /\ worker' = [worker EXCEPT ![w].pc = IF "remaining" \in headers THEN "write" ELSE "eval",
                                ![w].val = IF "remaining" \in headers THEN quota - 1 ELSE 0]
    /\ made' = Counted(made) /\ recent' = Counted(recent)
    /\ UNCHANGED <<headers, part, remaining, reset, disabled, failures, lost, late>>

\* ... or fails, and nothing is learnt about the limit.
RequestFails(w) ==
    /\ worker[w].pc = "request"
    /\ quota = 0 \/ failures < MaxFailures
    /\ failures' = IF quota = 0 THEN failures ELSE failures + 1
    /\ worker' = [worker EXCEPT ![w] = [Fresh EXCEPT !.pc = "done"]]
    /\ UNCHANGED <<headers, part, remaining, reset, disabled, quota, lost, late, history>>

\* Mutant: the counter is not refilled once the reset was reached.
EvaluateNever(w) ==
    /\ worker[w].pc = "eval"
    /\ worker' = [worker EXCEPT ![w].pc = "read", ![w].val = 0]
    /\ UNCHANGED <<headers, part, remaining, reset, disabled, quota, failures, lost, late, history>>

\* rate_limit_remaining = nil: full once the reset was reached ...
Evaluate(w) ==
    /\ worker[w].pc = "eval"
    /\ worker' = [worker EXCEPT ![w].pc = IF rate_limit_reset > 0 THEN "read" ELSE "write",
                                ![w].val = IF rate_limit_reset > 0 THEN 0 ELSE Limit]
    /\ UNCHANGED <<headers, part, remaining, reset, disabled, quota, failures, lost, late, history>>

\* ... and one less than it was until then.
ReadRemaining(w) ==
    /\ worker[w].pc = "read"
    /\ worker' = [worker EXCEPT ![w].pc = "write",
                                ![w].val = rate_limit_remaining - 1]
    /\ UNCHANGED <<headers, part, remaining, reset, disabled, quota, failures, lost, late, history>>

WriteRemaining(w) ==
    /\ worker[w].pc = "write"
    /\ remaining' = worker[w].val
    /\ Goto(w, "reset")
    /\ UNCHANGED <<headers, part, reset, disabled, quota, failures, lost, late, history>>

\* Mutant: the time of the reset is stored an hour late.
WriteResetLate(w) ==
    /\ worker[w].pc = "reset"
    /\ reset' = IF "reset" \in headers THEN end_of_hour + 3 ELSE end_of_hour + 2
    /\ worker' = [worker EXCEPT ![w] = [Fresh EXCEPT !.pc = "done"]]
    /\ made' = IF reset = 0 THEN recent ELSE made
    /\ UNCHANGED <<headers, part, remaining, disabled, quota, failures, lost, late, recent>>

\* rate_limit_reset=: the end of this hour, or the start of the next if the
\* service reports it.
WriteReset(w) ==
    /\ worker[w].pc = "reset"
    /\ reset' = IF "reset" \in headers THEN end_of_hour + 1 ELSE end_of_hour
    /\ worker' = [worker EXCEPT ![w] = [Fresh EXCEPT !.pc = "done"]]
    /\ made' = IF reset = 0 THEN recent ELSE made
    /\ UNCHANGED <<headers, part, remaining, disabled, quota, failures, lost, late, recent>>

\* The errors of the three rescue_from of SourceJob, in the order of the file.
Handlers == <<{"SourceInactiveError"}, {"TooManyRequestsError"}, Error>>

\* Rails takes the last one declared that matches.
handler_for_rescue(error) ==
    CHOOSE i \in 1..3 : error \in Handlers[i] /\ \A j \in (i + 1)..3 : error \notin Handlers[j]

\* The second handler puts the job back in the queue, the others end it.
Rescue(w) ==
    /\ worker[w].pc = "failed"
    /\ worker' = [worker EXCEPT ![w] =
                    [Fresh EXCEPT !.pc = IF handler_for_rescue(worker[w].error) = 2
                                         THEN "queued" ELSE "rescued"]]
    /\ UNCHANGED <<headers, part, remaining, reset, disabled, quota, failures, lost, late, history>>

\* queue:stale makes another job.
Requeue(w) ==
    /\ worker[w].pc \in {"done", "rescued"}
    /\ worker' = [worker EXCEPT ![w] = Fresh]
    /\ UNCHANGED <<headers, part, remaining, reset, disabled, quota, failures, lost, late, history>>

Work(w) ==
    \/ Start(w) \/ Check(w) \/ Wait(w) \/ Sleep(w) \/ Respond(w) \/ RequestFails(w)
    \/ Evaluate(w) \/ ReadRemaining(w) \/ WriteRemaining(w) \/ WriteReset(w)
    \/ Rescue(w) \/ Requeue(w)

-------------------------------------------------------------------------------
\* Time and the cache.

\* A job between the answer to its request and the end of update_attributes.
Counting(w) == worker[w].pc \in {"eval", "read", "write", "reset"}

\* A job may be counting when the time changes: then nothing is known to be refilled.
Tick ==
    /\ part' = IF part = "bulk" THEN "last" ELSE "bulk"
    /\ reset' = IF reset = None \/ reset = 0 THEN reset ELSE reset - 1
    /\ quota' = IF part = "last" THEN Quota ELSE quota
    /\ worker' = [w \in Workers |->
                    IF worker[w].pc = "sleep" /\ worker[w].val > 0
                    THEN [worker[w] EXCEPT !.val = @ - 1] ELSE worker[w]]
    /\ IF \E w \in Workers : Counting(w)
       THEN late < MaxLate /\ late' = late + 1 /\ recent' = made
       ELSE late' = late /\ recent' = 0
    /\ UNCHANGED <<headers, remaining, disabled, failures, lost, made>>

Evict ==
    /\ lost < MaxLost
    /\ lost' = lost + 1
    /\ \/ remaining # None /\ remaining' = None /\ reset' = reset
       \/ reset # None /\ reset' = None /\ remaining' = remaining
    /\ UNCHANGED <<headers, part, worker, disabled, quota, failures, late, history>>

Init ==
    /\ headers \in Headers
    /\ part = "bulk" /\ remaining = None /\ reset = None
    /\ worker = [w \in Workers |-> Fresh]
    /\ disabled = FALSE /\ quota = Quota /\ failures = 0 /\ lost = 0
    /\ late = 0 /\ made = 0 /\ recent = 0

Next == Tick \/ Evict \/ \E w \in Workers : Work(w)

Spec == Init /\ [][Next]_vars

\* Jobs go on, and so does time.
FairSpec == Spec /\ WF_vars(Tick) /\ \A w \in Workers : WF_vars(Work(w))

-------------------------------------------------------------------------------
\* Properties.

TypeOK ==
    /\ headers \in Headers
    /\ part \in {"bulk", "last"}
    /\ remaining \in Int \cup {None} /\ reset \in 0..2 \cup {None}
    /\ worker \in [Workers -> WorkerRec]
    /\ disabled \in BOOLEAN /\ quota \in 0..Quota
    /\ failures \in 0..MaxFailures /\ lost \in 0..MaxLost
    /\ late \in 0..MaxLate /\ made \in 0..Limit /\ recent \in 0..Limit

\* "disable source if rate_limiting reached" (source.rb 146-149): however many jobs
\* read and write the counter at the same time, a source that counts its requests
\* itself finds fewer than Low left only if so many were answered since the counter
\* was refilled.  It is refilled every hour unless memcached has lost the time of the
\* reset, or a job was counting when the hour ended.
LimitReached == headers = {} /\ check_for_rate_limits => made > Limit - Low

\* Waiting for the reset helps: a source that has little left gets its limit back
\* (configurable.rb 180-183, source.rb 151-158) unless it is disabled or memcached
\* lost the time of the reset, although only a response raises the counter again.
Recovers ==
    rate_limit_remaining < High ~> rate_limit_remaining >= High \/ disabled \/ reset = None

\* "reset rate_limit every full hour unless value is provided by source"
\* (configurable.rb:189): a source that reports no time of reset and is disabled
\* for its rate limit works again.
ResetEveryHour == "reset" \notin headers => (disabled ~> ~disabled)

===============================================================================
