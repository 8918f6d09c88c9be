--------------------------- MODULE ResultFeedback ---------------------------
(* Grades of search results: the visitor's cards (api/static/app.js), the  *)
(* recording of a grade (api/service.py, AsyncTelemetryRepository) and the *)
(* metrics the dashboard computes from the events (postgres/metrics.py).   *)
(* A grade that takes too long is answered as not recorded while the task  *)
(* that records it goes on; another may be sent meanwhile.                 *)
(*                                                                         *)
(* Abstractions. Every card belongs to the session of its search. created_ *)
(* at, the start of the transaction, is a ticket. The wait for the query's *)
(* completion is ImageSearch's; here feedback may come before it. nDCG and *)
(* the counts that no feedback enters are left out.                        *)
EXTENDS Naturals, Sequences, FiniteSets

CONSTANTS
  Search,      \* searches
  Result,      \* artworks
  ShownOf,     \* the results each search displays, by rank
  Mark,        \* grades, a subset of FEEDBACK_RELEVANCE
  TopRanks,    \* 10 in the code
  MaxGrades,   \* bound: grades sent
  NoMark

Card == UNION {{<<q, ShownOf[q][r]>> : r \in DOMAIN ShownOf[q]} : q \in Search}
RankOf(c) == CHOOSE r \in DOMAIN ShownOf[c[1]] : ShownOf[c[1]][r] = c[2]

ASSUME FeedbackAssumption ==
  /\ ShownOf \in [Search -> Seq(Result)]
  /\ \A q \in Search : \A r, s \in DOMAIN ShownOf[q] : ShownOf[q][r] = ShownOf[q][s] => r = s
  /\ Mark \subseteq {"bad", "good", "great"} /\ NoMark \notin Mark
  /\ TopRanks \in Nat \ {0} /\ MaxGrades \in Nat

VARIABLES
  searched,  \* the status of each search's row, "shown" once its impressions are recorded
  sent,      \* grades sent: what the task that records each is doing
  saving,    \* the grade each card waits for, or 0
  events,    \* interaction_events: card, grade and created_at
  ticket,    \* the last created_at
  told,      \* what each card says is recorded
  doubted,   \* history: cards that said NOT RECORDED of a grade
  metrics    \* the dashboard's reading under way, and its last report

feedbackVars == <<searched, sent, saving, events, ticket, told, doubted, metrics>>

FeedbackInit ==
  /\ searched = [q \in Search |-> "started"]
  /\ sent = <<>> /\ saving = [c \in Card |-> 0]
  /\ events = {} /\ ticket = 0
  /\ told = [c \in Card |-> NoMark] /\ doubted = {}
  /\ metrics = [at |-> "idle", impressions |-> 0]

-----------------------------------------------------------------------------
(* The search's own telemetry, one transaction after another.              *)

\* PostgresSearchTelemetry.complete: stages, candidates, impressions.
RecordShown(q) ==
  /\ searched[q] = "started" /\ searched' = [searched EXCEPT ![q] = "shown"]
  /\ UNCHANGED <<sent, saving, events, ticket, told, doubted, metrics>>

CompleteSearch(q) ==
  /\ searched[q] = "shown" /\ searched' = [searched EXCEPT ![q] = "completed"]
  /\ UNCHANGED <<sent, saving, events, ticket, told, doubted, metrics>>

-----------------------------------------------------------------------------
(* A grade.                                                                *)

\* bindFeedback: the card's buttons are disabled until the answer.
Send(c, grade) ==
  /\ saving[c] = 0 /\ Len(sent) < MaxGrades
  /\ sent' = Append(sent, [card |-> c, grade |-> grade, at |-> "queued", created |-> 0])
  /\ saving' = [saving EXCEPT ![c] = Len(sent) + 1]
  /\ UNCHANGED <<searched, events, ticket, told, doubted, metrics>>

Over == [at |-> "ended"]
Awaits(c, n) == saving[c] = n
Unblocked(c) == [saving EXCEPT ![c] = 0]

\* record_relevance_feedback: the transaction's first statement finds the
\* result among those shown of a completed search; else the answer is 404.
OpenFeedback(n) ==
  /\ sent[n].at = "queued"
  /\ IF searched[sent[n].card[1]] = "completed"
     THEN /\ ticket' = ticket + 1
          /\ sent' = [sent EXCEPT ![n].at = "open", ![n].created = ticket + 1]
          /\ UNCHANGED <<saving, doubted>>
     ELSE /\ sent' = [sent EXCEPT ![n] = Over]
          /\ saving' = IF Awaits(sent[n].card, n) THEN Unblocked(sent[n].card) ELSE saving
          /\ UNCHANGED <<ticket, doubted>>
  /\ UNCHANGED <<searched, events, told, metrics>>

EventOf(n) == [card |-> sent[n].card, grade |-> sent[n].grade, created |-> sent[n].created]

CommitFeedback(n) ==
  /\ sent[n].at = "open"
  /\ events' = events \union {EventOf(n)}
  /\ sent' = [sent EXCEPT ![n].at = "recorded"]
  /\ UNCHANGED <<searched, saving, ticket, told, doubted, metrics>>

\* result_feedback answers; the task may have outlived its answer.
AnswerRecorded(n) ==
  /\ sent[n].at = "recorded"
  /\ sent' = [sent EXCEPT ![n] = Over]
  /\ LET c == sent[n].card IN
       /\ saving' = IF Awaits(c, n) THEN Unblocked(c) ELSE saving
       /\ told' = IF Awaits(c, n) THEN [told EXCEPT ![c] = sent[n].grade] ELSE told
  /\ UNCHANGED <<searched, events, ticket, doubted, metrics>>

\* An error of the database, or the end of the process: the commit may have
\* taken effect.
FailFeedback(n) ==
  /\ sent[n].at \in {"queued", "open"}
  /\ events' \in {events} \union (IF sent[n].at = "open" THEN {events \union {EventOf(n)}} ELSE {})
  /\ sent' = [sent EXCEPT ![n] = Over]
  /\ LET c == sent[n].card IN
       /\ saving' = IF Awaits(c, n) THEN Unblocked(c) ELSE saving
       /\ doubted' = IF Awaits(c, n) THEN doubted \union {c} ELSE doubted
  /\ UNCHANGED <<searched, ticket, told, metrics>>

\* wait_for gives up after five seconds and leaves the shielded task, or the
\* connection breaks: the card says NOT RECORDED.
TimeOut(c) ==
  /\ saving[c] # 0
  /\ saving' = Unblocked(c) /\ doubted' = doubted \union {c}
  /\ UNCHANGED <<searched, sent, events, ticket, told, metrics>>

-----------------------------------------------------------------------------
(* The metrics, statement by statement.                                    *)

\* Mutant: the first grade given counts.
EarliestGrade(c) == CHOOSE e \in events : e.card = c /\ \A f \in events : f.card = c => e.created <= f.created
\* DISTINCT ON (query_id, artwork_id) ... ORDER BY created_at DESC
LatestGrade(c) == CHOOSE e \in events : e.card = c /\ \A f \in events : f.card = c => f.created <= e.created

Judged == {c \in Card : searched[c[1]] = "completed" /\ \E e \in events : e.card = c}

\* ProductMetricsRepository.snapshot, impressions of the window's searches
ReadImpressions ==
  /\ metrics.at = "idle"
  /\ metrics' = [at |-> "counted", impressions |->
       Cardinality({c \in Card : searched[c[1]] = "completed" /\ RankOf(c) <= TopRanks})]
  /\ UNCHANGED <<searched, sent, saving, events, ticket, told, doubted>>

Expected(q) == 1 .. (IF Len(ShownOf[q]) < TopRanks THEN Len(ShownOf[q]) ELSE TopRanks)

\* calculate_feedback_metrics. A search enters precision only when each of
\* its first ten results is judged.
FeedbackMetrics(grades, impressions) ==
  LET top == {c \in DOMAIN grades : RankOf(c) <= TopRanks}
      full == {q \in Search : Expected(q) # {} /\ {RankOf(c) : c \in {d \in top : d[1] = q}} = Expected(q)}
      relevant(cards) == Cardinality({c \in cards : grades[c] # "bad"})
  IN  [judgments |-> grades, hits |-> relevant(top), misses |-> Cardinality(top) - relevant(top),
       full |-> full, relevant |-> [q \in full |-> relevant({c \in top : c[1] = q})],
       covered |-> IF Cardinality(top) < impressions THEN Cardinality(top) ELSE impressions]

\* Cards that wait for nothing and were never told that a grade was not recorded.
Settled == {c \in Card : saving[c] = 0 /\ c \notin doubted}

\* The report keeps, for the property, what the settled cards said when it was read.
ReadFeedback ==
  /\ metrics.at = "counted"
  /\ metrics' = [at |-> "idle", impressions |-> metrics.impressions,
       report |-> FeedbackMetrics([c \in Judged |-> LatestGrade(c).grade], metrics.impressions),
       said |-> [c \in Settled |-> told[c]]]
  /\ UNCHANGED <<searched, sent, saving, events, ticket, told, doubted>>

FeedbackNext ==
  \/ \E q \in Search : RecordShown(q) \/ CompleteSearch(q)
  \/ \E c \in Card : TimeOut(c) \/ \E grade \in Mark : Send(c, grade)
  \/ \E n \in DOMAIN sent :
       OpenFeedback(n) \/ CommitFeedback(n) \/ AnswerRecorded(n) \/ FailFeedback(n)
  \/ ReadImpressions \/ ReadFeedback

FeedbackSpec == FeedbackInit /\ [][FeedbackNext]_feedbackVars

-----------------------------------------------------------------------------
(* Properties.                                                             *)

FeedbackTypeOK ==
  /\ searched \in [Search -> {"started", "shown", "completed"}]
  /\ saving \in [Card -> 0 .. Len(sent)] /\ Len(sent) <= MaxGrades
  /\ \A e \in events : e.card \in Card /\ e.grade \in Mark /\ e.created \in 1 .. ticket
  /\ told \in [Card -> Mark \union {NoMark}] /\ doubted \subseteq Card

\* A report judges a result as its visitor was last told it is judged, however
\* grades were changed and tasks overlapped, and a search enters precision
\* exactly when its visitor judged all of its first ten results, by those
\* grades. A visitor who was once told NOT RECORDED is never sure: that grade
\* may have been recorded, or be recorded after the next one.
ReportSaysAsTold ==
  "report" \in DOMAIN metrics =>
    LET report == metrics.report
        said == metrics.said
    IN  /\ \A c \in DOMAIN said :
             IF said[c] = NoMark THEN c \notin DOMAIN report.judgments
             ELSE c \in DOMAIN report.judgments /\ report.judgments[c] = said[c]
        /\ \A q \in Search :
             LET cards == {c \in Card : c[1] = q /\ RankOf(c) <= TopRanks} IN
             cards # {} /\ cards \subseteq DOMAIN said =>
               /\ q \in report.full <=> \A c \in cards : said[c] # NoMark
               /\ q \in report.full =>
                    report.relevant[q] = Cardinality({c \in cards : said[c] # "bad"})
=============================================================================
