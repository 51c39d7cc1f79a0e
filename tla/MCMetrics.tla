------------------------------ MODULE MCMetrics ------------------------------
\* Small instances of Metrics.
EXTENDS Metrics, FiniteSetsExt, TLC

MCSymmetry == Permutations(Jobs)

TotalOf(r) == r.total

\* "calculate events for current month based on past numbers" (retrieval_status.rb:291):
\* when a month gets its record, the months so far make the total that was reported.
MonthCountsEvents ==
    [][\A j \in Jobs : or_create(j) /\ ~disturbed /\ job[j].kind = "month" /\ job[j].saved
                         => MapThenSumSet(TotalOf, records'["month"]) = job[j].total]_vars

===============================================================================
