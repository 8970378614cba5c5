------------------------------ MODULE Metrics ------------------------------
(***************************************************************************)
(* The figures and charts drawn from stored deployments: those the API      *)
(* serves (workspace-metrics.ts, workspace.service.ts,                      *)
(* dashboard.service.ts) and those the pages derive on their own from the   *)
(* snapshot (lib/metrics.ts, analytics.ts, dora.ts, intelligence.ts).       *)
(* The code is pure; the state is the list of deployments it is given, as   *)
(* it grows: newest first, those of one instant in any order.               *)
(*                                                                         *)
(* Time is in ticks, DAY of them a day; RANGE, WEEK and SPAN days stand for *)
(* the 7, 30 or 90 days of a range, the 7 of a bar, and the 90 above which  *)
(* bars are weeks.  An average is its sum and its number of samples.        *)
(***************************************************************************)
EXTENDS Ordering

CONSTANTS
  Charted,             \* applications; one is its environment too
  Unobserved,          \* those whose row has no health: the others are Healthy
  Instant,             \* the times of deployments, none after NOW
  Health,              \* what Argo CD may say of the health of an application
  DAY, RANGE, WEEK, SPAN,
  NOW, MaxHistory,
  Absent

ASSUME ChartedAssumption == IsFiniteSet(Charted) /\ Unobserved \subseteq Charted
ASSUME TimeAssumption == NOW \in Nat /\ Instant \subseteq 0..NOW /\ Absent \notin Instant
ASSUME RangeAssumption == \A days \in {DAY, RANGE, WEEK, SPAN} : days \in Nat \ {0}

VARIABLE history

\* A row that no sync saw live has neither a result nor a health, one that a user wrote or
\* an operation ended unseen has one of them only.
Recorded(values) == values \cup {Absent}
Result == Recorded({"Succeeded", "Failed", "Running"})
StoredHealth == Recorded(Health)
Record == [app : Charted, deployedAt : Instant, result : Result, health : StoredHealth]

ASSUME AbsentAssumption ==
  Absent \notin Health \cup {"Succeeded", "Failed", "Running", "Healthy", "Degraded", "Unknown"}

MetricsInit == history = <<>>

MetricsNext ==
  /\ Len(history) < MaxHistory
  /\ \E r \in Record : \E i \in 1..(Len(history) + 1) :
       /\ \A j \in DOMAIN history :
            IF j < i THEN history[j].deployedAt >= r.deployedAt
            ELSE history[j].deployedAt <= r.deployedAt
       /\ history' = SubSeq(history, 1, i - 1) \o <<r>> \o SubSeq(history, i, Len(history))

-----------------------------------------------------------------------------
(* The outcome of a deployment, in the API and in the pages. *)

classifyDeployment(r) ==
  IF r.result = "Failed" THEN "failed"
  ELSE IF r.result = "Succeeded" THEN "success"
  ELSE IF r.health = "Degraded" THEN "failed"
  ELSE IF r.health = "Healthy" THEN "success"
  ELSE "unknown"

\* MUTANT: the pages go by health first.
ClassifyHealthFirst(r) ==
  IF r.health = "Degraded" \/ r.result = "Failed" THEN "failed"
  ELSE IF r.result = "Succeeded" \/ r.health = "Healthy" THEN "success"
  ELSE "unknown"

classifyOnPage(r) ==
  IF r.result = "Failed" \/ (r.result # "Succeeded" /\ r.health = "Degraded") THEN "failed"
  ELSE IF r.result = "Succeeded" \/ r.health = "Healthy" THEN "success"
  ELSE "unknown"

All == DOMAIN history
Failed == {i \in All : classifyDeployment(history[i]) = "failed"}
Succeeded == {i \in All : classifyDeployment(history[i]) = "success"}
FailedOnPage == {i \in All : classifyOnPage(history[i]) = "failed"}
SucceededOnPage == {i \in All : classifyOnPage(history[i]) = "success"}

At(i) == history[i].deployedAt
Of(a) == {i \in All : history[i].app = a}

\* latestDeploymentMap, and its copies: a later one in the list replaces it only if newer.
Newest(a) == CHOOSE i \in Of(a) : \A j \in Of(a) : At(j) < At(i) \/ (At(j) = At(i) /\ i <= j)

\* The pages ask for a newer time as the list is read, from the first.
newerOnPage(a) ==
  LET newest[n \in 0..Len(history)] ==
        IF n = 0 THEN 0
        ELSE IF history[n].app = a /\ (newest[n - 1] = 0 \/ At(n) > At(newest[n - 1])) THEN n
        ELSE newest[n - 1]
  IN  newest[Len(history)]

Seen == {a \in Charted : Of(a) # {}}
latestDeploymentMap == [a \in Seen |-> Newest(a)]
latestByApp == [a \in Seen |-> newerOnPage(a)]

-----------------------------------------------------------------------------
(* The figures of the API. *)

HealthyApplications(latest) ==
  {a \in Charted : a \in Unobserved => a \in Seen /\ history[latest[a]].health = "Healthy"}

metrics == [deployments |-> Len(history), succeeded |-> Cardinality(Succeeded),
            failed |-> Cardinality(Failed), healthy |-> HealthyApplications(latestDeploymentMap)]

HealthOf(latest) == [h \in {"Healthy", "Degraded", "Progressing"} |->
                       Cardinality({a \in Seen : history[latest[a]].health = h})]

health == HealthOf(latestDeploymentMap)

environmentMetrics ==
  [a \in {history[i].app : i \in All} |->
     [deployments |-> Cardinality(Of(a)), failures |-> Cardinality(Of(a) \cap Failed)]]

\* The dashboard of one application.
getStats(a) == [total |-> Cardinality(Of(a)), healthy |-> Cardinality(Of(a) \cap Succeeded),
                failed |-> Cardinality(Of(a) \cap Failed)]

DayOf(t) == t \div DAY
LastDays(days) == {d \in 0..DayOf(NOW) : d + days > DayOf(NOW)}
Bars(some, days) == [d \in LastDays(days) |-> Cardinality({i \in some : DayOf(At(i)) = d})]

buildActivity == Bars(All, RANGE)
buildSuccessFailure == [succeeded |-> Bars(Succeeded, RANGE), failed |-> Bars(Failed, RANGE)]

\* Sorted by time; those of one instant stay in the order of the list.
Times == [i \in All |-> At(i)]
Oldest1st == InOrder(All, Ascending(All, Times))

\* The restore intervals: from the last failure before a success to that success,
\* which may have to be later.
Recoveries(failed, succeeded, later) ==
  LET after[n \in 0..Len(history)] ==
        IF n = 0 THEN [since |-> Absent, sum |-> 0, count |-> 0]
        ELSE LET acc == after[n - 1]
                 i == Oldest1st[n]
             IN  IF i \in failed THEN [acc EXCEPT !.since = At(i)]
                 ELSE IF acc.since # Absent /\ i \in succeeded /\ (later => At(i) > acc.since)
                   THEN [since |-> Absent, sum |-> acc.sum + (At(i) - acc.since),
                         count |-> acc.count + 1]
                 ELSE acc
  IN  after[Len(history)]

averageMttrHours == Recoveries(Failed, Succeeded, FALSE)

buildDora == [recent |-> Cardinality({i \in All : At(i) + RANGE * DAY >= NOW}),
              failed |-> Cardinality(Failed), total |-> Len(history), mttr |-> averageMttrHours]

-----------------------------------------------------------------------------
(* The figures the pages derive. *)

buildWorkspaceMetrics ==
  [deployments |-> Len(history), succeeded |-> Cardinality(SucceededOnPage),
   failed |-> Cardinality(FailedOnPage), healthy |-> HealthyApplications(latestByApp)]

buildHealthBreakdown == HealthOf(latestByApp)

buildActivitySeries == Bars(All, RANGE)

buildSuccessFailureSeries ==
  [succeeded |-> Bars(SucceededOnPage, RANGE), failed |-> Bars(FailedOnPage, RANGE)]

buildEnvironmentComparison ==
  [a \in {history[i].app : i \in All} |->
     [deployments |-> Cardinality(Of(a)), failures |-> Cardinality(Of(a) \cap FailedOnPage)]]

\* Only a later success ends a failure.
estimateMttrHours == Recoveries(FailedOnPage, SucceededOnPage, TRUE)

buildDoraMetrics == [recent |-> Cardinality({i \in All : At(i) + RANGE * DAY >= NOW}),
                     failed |-> Cardinality(FailedOnPage), total |-> Len(history),
                     mttr |-> estimateMttrHours]

-----------------------------------------------------------------------------
(* The page of deployment intelligence: the rows of a window, their counts, their trend   *)
(* and its direction.  "all" is every stored row.                                         *)

\* The last RANGE times 24 hours.
inWindow(range) == {i \in All : range = "all" \/ At(i) + RANGE * DAY >= NOW}

WindowCounts(range) ==
  [succeeded |-> Cardinality(inWindow(range) \cap SucceededOnPage),
   failed |-> Cardinality(inWindow(range) \cap FailedOnPage)]

Total(bars) == SumFunction(bars)

\* A row is in the last bar that begins no later than its day.
fillWeekly(some, first, last) ==
  LET weeks == {d \in first..last : (d - first) % WEEK = 0}
  IN  [w \in weeks |-> Cardinality({i \in some : /\ w <= DayOf(At(i))
                                                 /\ \A v \in weeks : v <= w \/ v > DayOf(At(i))})]

fillDaily(some, first, last) ==
  [d \in first..last |-> Cardinality({i \in some : DayOf(At(i)) = d})]

\* MUTANT: the days between the first and the last are counted, not the days.
OutcomeSeriesShort(range, some) ==
  LET today == DayOf(NOW)
      first == DayOf(At(Len(history)))
      last == DayOf(At(1))
  IN  IF range # "all" THEN fillDaily(some, IF today < RANGE THEN 0 ELSE today - RANGE + 1, today)
      ELSE IF All = {} THEN <<>>
      ELSE IF last - first + 1 <= SPAN THEN fillDaily(some, first + 1, last)
      ELSE fillWeekly(some, first, last)

buildOutcomeSeries(range, some) ==
  LET today == DayOf(NOW)
      first == DayOf(At(Len(history)))
      last == DayOf(At(1))
  IN  IF range # "all" THEN fillDaily(some, IF today < RANGE THEN 0 ELSE today - RANGE + 1, today)
      ELSE IF All = {} THEN <<>>
      ELSE IF last - first + 1 <= SPAN THEN fillDaily(some, first, last)
      ELSE fillWeekly(some, first, last)

\* The failures of the earlier and of the later half of the time between two rows.
failureDirection(range) ==
  LET times == {At(i) : i \in inWindow(range)}
      start == CHOOSE t \in times : \A u \in times : t <= u
      end == CHOOSE t \in times : \A u \in times : t >= u
      earlier == {i \in inWindow(range) : 2 * At(i) < start + end}
  IN  IF Cardinality(times) < 2 THEN {}
      ELSE {[earlier |-> Cardinality(earlier \cap FailedOnPage),
             later |-> Cardinality((inWindow(range) \ earlier) \cap FailedOnPage)]}

-----------------------------------------------------------------------------
(* One application: what the API answers for its page, what the pages and the bell say of *)
(* it.  Its row has a health or none; so has the answer of Argo CD, when there is one, and *)
(* perhaps a revision.                                                                    *)

getArgoData == {{}} \cup {{live} : live \in StoredHealth}
Else(value, otherwise) == IF value = Absent THEN otherwise ELSE value

getTimeline(a) == Selected(history, Of(a))
getFailureRate(a) == [total |-> Cardinality(Of(a)), failed |-> Cardinality(Of(a) \cap Failed)]
getDeploymentFrequency(a) == Cardinality(Of(a))

\* What is shown as current; the dashboard's overview keeps the stored health when the
\* answer has none, the application's maps the answer, which makes it "Unknown".
dashboardHealth(stored, answer) ==
  Else(IF answer = {} THEN Absent ELSE CHOOSE live \in answer : TRUE, Else(stored, "Unknown"))

applicationHealth(stored, answer) ==
  Else(IF answer = {} THEN stored ELSE CHOOSE live \in answer : TRUE, "Unknown")

\* Of an application without deployments, a revision of Argo CD's answer is shown as one.
dashboardOverview(a, revision) ==
  [stats |-> getStats(a), failureRate |-> getFailureRate(a), frequency |-> getDeploymentFrequency(a),
   timeline |-> IF Of(a) = {} /\ revision
                  THEN <<[app |-> a, deployedAt |-> NOW, result |-> "Succeeded", health |-> Absent]>>
                  ELSE getTimeline(a)]

applicationOverview(a) ==
  LET outcomes == [i \in Of(a) |-> classifyDeployment(history[i])]
      ofOutcome(outcome) == Cardinality({i \in Of(a) : outcomes[i] = outcome})
  IN  [total |-> Cardinality(Of(a)), healthy |-> ofOutcome("success"), failed |-> ofOutcome("failed")]

\* The deployment an application's card shows: the newest, with the application's health.
enrichApplications(a, stored) ==
  IF newerOnPage(a) # 0
    THEN {[history[newerOnPage(a)] EXCEPT !.health = Else(stored, @)]}
    ELSE {[app |-> a, deployedAt |-> Absent, result |-> "Succeeded", health |-> h] :
            h \in {stored} \ {Absent}}

buildNotifications(a, stored) == \E r \in enrichApplications(a, stored) : classifyOnPage(r) = "failed"

\* The server's own notice of a failure.
syncDerivedNotifications(a) == Of(a) # {} /\ Newest(a) \in Failed

\* A project's card, and the rows of the deployments page.
projectCard(apps) ==
  LET own == {i \in All : history[i].app \in apps}
      shown(a) == IF a \in Unobserved THEN {r.health : r \in enrichApplications(a, Absent)} ELSE {"Healthy"}
  IN  [deployments |-> Cardinality(own), healthy |-> Cardinality({a \in apps : "Healthy" \in shown(a)}),
       lastActivity |-> {t \in {At(i) : i \in own} : \A i \in own : At(i) <= t}]

deploymentRows(status) ==
  {i \in All : \/ status = "all"
               \/ status = "failed" /\ i \in FailedOnPage
               \/ status = "succeeded" /\ i \in SucceededOnPage}

\* The two overviews tell the same, but for an answer without a health; the rows of the
\* timeline fail as often as the figures say; the bell and the server's notices differ only
\* where a deployment without a final result is judged by a health, which is the
\* application's at the bell and the deployment's at the server.
OneStory(a) ==
  LET o == applicationOverview(a)
  IN  /\ \A revision \in BOOLEAN :
           LET d == dashboardOverview(a, revision)
               shown(outcome) ==
                 Cardinality({n \in DOMAIN d.timeline : classifyOnPage(d.timeline[n]) = outcome})
           IN  /\ d.stats = o /\ d.frequency = o.total
               /\ d.failureRate = [total |-> o.total, failed |-> o.failed]
               /\ shown("failed") = o.failed
               /\ o.total # 0 => shown("success") = o.healthy
      /\ \A stored \in StoredHealth :
           LET failed == buildNotifications(a, stored)
           IN  \/ failed = syncDerivedNotifications(a)
               \/ /\ Of(a) # {} /\ history[Newest(a)].result \notin {"Succeeded", "Failed"} /\ stored # Absent
                  /\ failed <=> stored = "Degraded"

\* The page of deployment intelligence, of the rows of one application.
newestFirst(a) == InOrder(Of(a), Descending(Of(a), Times))

newestDeployment(a) == newestFirst(a)[1]

deploymentOutcomeSummary(a) ==
  [failed |-> Cardinality({i \in Of(a) : history[i].result = "Failed"}),
   degraded |-> Cardinality({i \in Of(a) : history[i].health = "Degraded"})]

\* What the newest deployment changed, of those that have one before.  To or from a value
\* that was not recorded nothing has changed.
concrete(value) == value # Absent

compareLatestDeployments(a) ==
  LET rows == newestFirst(a)
      value(n, k) == history[rows[n]][k]
  IN  IF Len(rows) < 2 THEN {}
      ELSE {k \in {"result", "health"} :
              concrete(value(1, k)) /\ concrete(value(2, k)) /\ value(1, k) # value(2, k)}

\* Its newest deployment is the server's; its summary leaves out no failure; and when the
\* outcome differs from that of the deployment before, a change is shown, unless one of the
\* two has no result, or both are unfinished and one has no health.
OneNewest(a) ==
  LET rows == newestFirst(a)
      summary == deploymentOutcomeSummary(a)
      latest(k) == {history[rows[n]][k] : n \in {1, 2}}
  IN  /\ newestDeployment(a) = Newest(a)
      /\ summary.failed <= getStats(a).failed /\ getStats(a).failed <= summary.failed + summary.degraded
      /\ Len(rows) > 1 /\ classifyOnPage(history[rows[1]]) # classifyOnPage(history[rows[2]]) =>
           \/ compareLatestDeployments(a) # {}
           \/ Absent \in latest("result")
           \/ latest("result") = {"Running"} /\ Absent \in latest("health")

-----------------------------------------------------------------------------
\* Whatever deployments are stored, the pages show the figures that the API serves; but a
\* failure and a success of one instant are a restore in no time for the API alone.  The
\* pages of applications, of projects and of deployments, and the bell, tell the same.
PanelsAgree ==
  history # <<>> =>
    /\ buildWorkspaceMetrics = metrics /\ buildHealthBreakdown = health
    /\ buildActivitySeries = buildActivity /\ buildSuccessFailureSeries = buildSuccessFailure
    /\ buildEnvironmentComparison = environmentMetrics
    /\ (\A i \in Failed, j \in Succeeded : At(i) # At(j)) => buildDoraMetrics = buildDora
    /\ estimateMttrHours.count <= averageMttrHours.count
    /\ metrics.failed = Total([a \in Charted |-> getStats(a).failed])
    /\ metrics.succeeded = Total([a \in Charted |-> getStats(a).healthy])
    /\ \A a \in Charted : OneStory(a)
    /\ \A a \in Seen : OneNewest(a)
    /\ \A stored \in StoredHealth, answer \in getArgoData :
         \/ dashboardHealth(stored, answer) = applicationHealth(stored, answer)
         \/ \E live \in answer : live = Absent /\ applicationHealth(stored, answer) = "Unknown"
    /\ \A apps \in SUBSET Charted :
         LET card == projectCard(apps)
         IN  /\ card.deployments = Total([a \in apps |-> getStats(a).total])
             /\ card.healthy = Cardinality(metrics.healthy \cap apps)
             /\ \A t \in card.lastActivity, a \in apps : Of(a) # {} => At(Newest(a)) <= t
    /\ Cardinality(deploymentRows("failed")) = metrics.failed
    /\ Cardinality(deploymentRows("succeeded")) = metrics.succeeded

\* The trend, the figures and the direction of the page count the same deployments: every
\* success and failure of "all time" is in one bar, be it a day or a week; those of a
\* range that are in none are of the day, RANGE days back, that the window cuts.
TrendMatches ==
  LET bars(range, some) == Total(buildOutcomeSeries(range, inWindow(range) \cap some))
      cut == {i \in inWindow("range") : DayOf(At(i)) + RANGE = DayOf(NOW)}
  IN  /\ bars("all", SucceededOnPage) = WindowCounts("all").succeeded
      /\ bars("all", FailedOnPage) = WindowCounts("all").failed
      /\ bars("range", FailedOnPage) + Cardinality(cut \cap FailedOnPage)
           = WindowCounts("range").failed
      /\ \A range \in {"all", "range"} : \A d \in failureDirection(range) :
           d.earlier + d.later = WindowCounts(range).failed
=============================================================================
