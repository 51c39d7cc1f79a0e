------------------------------- MODULE Statable -------------------------------
(***************************************************************************)
(* The state machine of a source (concern Statable), as operators: each     *)
(* event maps the state an in-memory Source has to the state the event      *)
(* saves.  The first transition that matches wins.  Side effects of         *)
(* transitions belong to the modules that own the tables they write.        *)
(***************************************************************************)

\* The states, by name; the numeric column values only order the scopes.
State == {"available", "retired", "inactive", "disabled", "waiting", "working"}

\* active? and the scope Source.active (state > 2) select the same states.
ActiveState == {"disabled", "waiting", "working"}

active(st) == st \in ActiveState

\* Events return the state they save; the names are those of the code.
install(st, obsolete) ==
    IF st # "available" THEN st
    ELSE IF obsolete THEN "retired" ELSE "inactive"

\* all_removed is the result of the guard remove_all_retrievals.
uninstall(st, all_removed) ==
    IF st = "available" THEN st
    ELSE IF all_removed THEN "available" ELSE "retired"

\* configured: validate_config_fields finds nothing blank.  The validation
\* runs only in active states; a failed one leaves the source as it was.
activate(st, obsolete, configured) ==
    CASE st = "available" /\ obsolete                -> "retired"
      [] st = "available" /\ ~obsolete /\ configured -> "waiting"
      [] st = "inactive" /\ configured               -> "waiting"
      [] OTHER                                       -> st

inactivate(st) == "inactive"

\* Mutant: the transition that keeps an inactive source as it is was forgotten.
work_after_check_any(st, failing, limited) ==
    IF failing \/ limited THEN "disabled" ELSE "working"

work_after_check(st, failing, limited) ==
    IF ~active(st) THEN st
    ELSE IF failing \/ limited THEN "disabled" ELSE "working"

wait_after_check(st) == IF st = "disabled" THEN st ELSE "waiting"

wait(st) == "waiting"

===============================================================================
