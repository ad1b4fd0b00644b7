------------------------------ MODULE Figures ------------------------------
(***************************************************************************)
(* What the dashboard computes from its data: anomaly.ts, data-quality.ts, *)
(* forecast.ts, attribution.ts, engagement-score.ts, geofencing.ts         *)
(* (analytics/lib) and the comparison and conversion pages.                *)
(*                                                                         *)
(* Then the figures at the head of its tables: campaigns, service levels,  *)
(* services, endpoints, support tickets and weeks (app/campaigns, app/sla, *)
(* app/uptime, app/api-analytics, app/support, WeeklyComparisonChart),     *)
(* moods and words of texts (lib/sentiment.ts), the first complaint about  *)
(* a field (lib/validation.ts), promoter scores (lib/nps.ts, NPSChart),    *)
(* lifetime values (lib/ltv-calc.ts, app/ltv), the onboarding funnel and   *)
(* the density of users per country. The code's tables are constants; here *)
(* a table is an input. No word is one that JavaScript objects inherit.    *)
(*                                                                         *)
(* Each is computed here as the code does it, and compared with what it    *)
(* stands for; fractions are multiplied out.                               *)
(***************************************************************************)
EXTENDS Integers, SequencesExt

CONSTANTS
  Series,   \* series of figures, none negative
  Touches,  \* sequences of [channel, at], the oldest first, at in half-lives
  Items,    \* sequences of [factor -> figure]
  Polygon, Point, \* polygons on a grid, and points [lat, lng]
  Dates,    \* days, as numbers
  Cleared,  \* a date field that was emptied
  Texts,       \* sequences of sequences of words
  Positive, Negative, Counted, \* sets of words; the words that are neither short nor stopped
  TopN,        \* words listed
  Multipliers, \* percents of the campaigns' signups and revenue
  Campaigns,   \* sequences of [signups, spent, revenue] in dollars
  Levels,      \* sequences of [target, actual, breaches] in hundredths of a percent
  Endpoints,   \* sequences of [requests, ms, rate], the error rate in hundredths of a percent
  Services,    \* sequences of [month, quarter, status]: uptimes likewise
  Tickets,     \* [opened, resolved]: sequences of counts
  Agents,      \* sequences of [resolved, tenths]: average hours
  Weeks,       \* [this, last]: sequences of counts
  Value,       \* [length, blank, email, url]
  Rules,       \* sequences of [is, bound]
  Responses, \* sequences of [score, group], a group being a segment or a month
  Arpu,      \* dollars per user and month
  Churn,     \* thousandths of the users
  Retention, \* tenths of the users
  Periods,   \* months of the retention curve
  Stages,    \* sequences of users that reach each stage
  Cohort,    \* multipliers of the cohorts, in percent
  Countries, \* sequences of [users, region]
  NaN

VARIABLES
  job,   \* what is asked
  answer \* nothing yet, or the one answer

figureVars == <<job, answer>>
Total(s) == FoldLeft(LAMBDA a, b : a + b, 0, s)
Abs(x) == IF x < 0 THEN -x ELSE x
Least(a, b) == IF a < b THEN a ELSE b
Rounded(a, b) == (2 * a + b) \div (2 * b) \* Math.round(a / b), and toFixed of an a >= 0

(* detectAnomalies: off the average by 30 % at least, or by 50 % *)
Percent(s, v) == Abs(v * Len(s) - Total(s)) * 100
Anomalies(s) ==
  IF s = << >> \/ Total(s) = 0 THEN {}
  ELSE {[at |-> i, severity |-> IF Percent(s, s[i]) >= 50 * Total(s) THEN "critical" ELSE "warning",
         direction |-> IF s[i] * Len(s) > Total(s) THEN "spike" ELSE "drop"] :
          i \in {j \in DOMAIN s : Percent(s, s[j]) >= 30 * Total(s)}}

(* analyseDataQuality: one pass finds the runs; a run ends where the figure changes *)
Passed(s, pass, i) ==
  IF i <= Len(s) /\ s[i] = s[pass.start] THEN pass
  ELSE [start |-> i, flat |-> IF i - pass.start >= 3 /\ s[pass.start] # 0
                              THEN pass.flat \cup (pass.start..(i - 1)) ELSE pass.flat]
FlatRuns(s) ==
  FoldLeft(LAMBDA pass, i : Passed(s, pass, i), [start |-> 1, flat |-> {}],
           [i \in 1..Len(s) |-> i + 1]).flat
Quality(s, daily) ==
  LET gaps == IF daily THEN Cardinality({i \in DOMAIN s : s[i] = 0}) ELSE 0
      flat == Cardinality(FlatRuns(s))
      score == 100 - Least(gaps * 10, 50) - Least((flat \div 3) * 5, 30)
  IN IF s = << >> THEN [score |-> 0, level |-> "poor", flat |-> {}]
     ELSE [score |-> score, flat |-> FlatRuns(s),
           level |-> IF score >= 80 THEN "good" ELSE IF score >= 50 THEN "warning" ELSE "poor"]

(* linearRegression and generateForecast, for the day that many days ahead *)
Forecast(s, ahead) ==
  LET n == Len(s)
      x(i) == 2 * (i - 1) - (n - 1)
      xy == Total([i \in 1..n |-> x(i) * s[i]])
      xx == Total([i \in 1..n |-> x(i) * x(i)])
  IN IF xx = 0 THEN NaN
     ELSE Rounded(Total(s) * xx + n * xy * x(n + ahead), n * xx)
Bounds(v) == IF v = NaN THEN [lower |-> NaN, upper |-> NaN]
             ELSE [lower |-> Rounded(v * 4, 5), upper |-> Rounded(v * 6, 5)]

(* computeWeights and attribute: the credits of the channels, as parts of `whole' *)
Weights(t, model) ==
  LET n == Len(t) IN
  CASE model = "first-touch" -> [i \in 1..n |-> IF i = 1 THEN 1 ELSE 0]
    [] model = "last-touch" -> [i \in 1..n |-> IF i = n THEN 1 ELSE 0]
    [] model = "linear" -> [i \in 1..n |-> 1]
    [] model = "time-decay" -> [i \in 1..n |-> 2 ^ t[i].at]
    [] model = "position-based" /\ n <= 2 -> [i \in 1..n |-> 1]
    [] OTHER -> [i \in 1..n |-> IF i \in {1, n} THEN 2 * (n - 2) ELSE 1]
FaultyCredit(t, w, c) == Total([i \in DOMAIN t |-> IF t[i].channel = c /\ i > 1 THEN w[i] ELSE 0])
Credit(t, w, c) == Total([i \in DOMAIN t |-> IF t[i].channel = c THEN w[i] ELSE 0])
Attribute(t, model) ==
  LET w == Weights(t, model) IN
  [whole |-> Total(w), credit |-> [c \in {t[i].channel : i \in DOMAIN t} |-> Credit(t, w, c)]]

(* calcEngagementScores, in hundredths of a point; the best first, ties as they came *)
FactorWeight == [views |-> 10, likes |-> 25, comments |-> 25, shares |-> 20, bookmarks |-> 10, read |-> 10]
Score(items, i) ==
  LET most(f) == Max({items[j][f] : j \in DOMAIN items})
      part(f) == IF most(f) = 0 THEN 0 ELSE Rounded(items[i][f] * 100 * FactorWeight[f], most(f))
  IN MapThenSumSet(part, DOMAIN FactorWeight)
Ranking(items) ==
  SortSeq([i \in DOMAIN items |-> i], LAMBDA i, j : \/ Score(items, i) > Score(items, j)
                                                    \/ Score(items, i) = Score(items, j) /\ i < j)

(* pointInPolygon: an edge is crossed by the ray to the right of the point *)
Crosses(p, a, b) ==
  LET left == (p.lng - a.lng) * (b.lat - a.lat)
      right == (b.lng - a.lng) * (p.lat - a.lat)
  IN /\ (a.lat > p.lat) # (b.lat > p.lat)
     /\ IF b.lat > a.lat THEN left < right ELSE left > right
PointInPolygon(p, poly) ==
  FoldLeft(LAMBDA inside, i :
             inside # Crosses(p, poly[i], poly[IF i = 1 THEN Len(poly) ELSE i - 1]),
           FALSE, [i \in DOMAIN poly |-> i])

(* The comparison page: days, metrics and their change *)
DaysBetween(a, b) == IF Cleared \in {a, b} THEN NaN ELSE Abs(b - a) + 1
Gists(a, b, offset) == IF DaysBetween(a, b) = NaN THEN NaN ELSE 120 + DaysBetween(a, b) * 4 + offset * 9
Change(d) ==
  LET now == Gists(d[1], d[2], 2)
      before == Gists(d[3], d[4], 0)
  IN IF NaN \in {now, before} THEN [delta |-> NaN, pct |-> NaN]
     ELSE [delta |-> now - before, pct |-> Rounded((now - before) * 1000, before)]

(* The conversion page: rates of a stage, in tenths of a percent *)
Rates(s) == [i \in DOMAIN s |->
  [step |-> IF i = 1 THEN 1000 ELSE IF s[i - 1] > 0 THEN Rounded(s[i] * 1000, s[i - 1]) ELSE 0,
   overall |-> IF s[1] > 0 THEN Rounded(s[i] * 1000, s[1]) ELSE 0]]

Models == {"first-touch", "last-touch", "linear", "time-decay", "position-based"}
Kinds == {"anomaly", "quality", "forecast", "attribution", "scores", "region", "compare", "funnel"}
FiguresInit ==
  /\ answer = << >>
  /\ \/ job \in [kind : {"anomaly", "forecast", "funnel"}, data : Series]
     \/ job \in [kind : {"quality"}, data : Series, daily : BOOLEAN]
     \/ job \in [kind : {"attribution"}, data : Touches, model : Models]
     \/ job \in [kind : {"scores"}, data : Items]
     \/ job \in [kind : {"region"}, data : Polygon, at : Point]
     \/ job \in [kind : {"compare"}, data : [1..4 -> Dates \cup {Cleared}]]
Result ==
  CASE job.kind = "anomaly" -> Anomalies(job.data)
    [] job.kind = "quality" -> Quality(job.data, job.daily)
    [] job.kind = "forecast" -> <<Forecast(job.data, 1), Bounds(Forecast(job.data, 1))>>
    [] job.kind = "attribution" -> Attribute(job.data, job.model)
    [] job.kind = "scores" -> Ranking(job.data)
    [] job.kind = "region" -> PointInPolygon(job.at, job.data)
    [] job.kind = "compare" -> Change(job.data)
    [] job.kind = "funnel" -> Rates(job.data)
FiguresNext == answer = << >> /\ answer' = <<Result>> /\ UNCHANGED job
-----------------------------------------------------------------------------
FiguresTypeOK == job.kind \in Kinds

Done(kind) == answer # << >> /\ job.kind = kind
Found == answer[1]

\* A figure that is called an anomaly says so of the series: a spike is set off
\* by a figure below the average, a drop by one above, the largest figure is no
\* drop, and the order of the figures does not matter.
AnomaliesBalance == Done("anomaly") =>
  /\ \A a \in Found : \E i \in DOMAIN job.data :
       IF a.direction = "spike" THEN job.data[i] < job.data[a.at] /\ job.data[i] * Len(job.data) < Total(job.data)
       ELSE job.data[i] > job.data[a.at]
  /\ {a.severity : a \in Found} = {a.severity : a \in Anomalies(Reverse(job.data))}

\* The flat points are those in three equal figures in a row that are not zero,
\* and the score never leaves 0..100.
FlatRunsAreRuns == Done("quality") =>
  /\ Found.flat = UNION {i..(i + 2) : i \in {j \in 1..(Len(job.data) - 2) :
       job.data[j] # 0 /\ job.data[j + 1] = job.data[j] /\ job.data[j + 2] = job.data[j]}}
  /\ Found.score \in 0..100

\* A series that grows evenly is continued, a forecast of a series of figures
\* between two bounds that is level stays there, and the band holds the forecast
\* unless that is negative.
ForecastContinues == Done("forecast") /\ Len(job.data) >= 2 =>
  LET s == job.data
      v == Found[1]
  IN /\ (\A i \in 1..(Len(s) - 1) : s[i + 1] - s[i] = s[2] - s[1]) => v = s[Len(s)] + s[2] - s[1]
     /\ v >= 0 => Found[2].lower <= v /\ v <= Found[2].upper

\* The credits of the channels are the whole; each channel with a touch has its
\* share, and under time decay a later touch never earns less than an earlier one.
CreditsAreTheWhole == Done("attribution") =>
  /\ MapThenSumSet(LAMBDA c : Found.credit[c], DOMAIN Found.credit) = Found.whole
  /\ Found.whole > 0
  /\ job.model = "time-decay" => \A i, j \in DOMAIN job.data :
       i < j => Weights(job.data, job.model)[i] <= Weights(job.data, job.model)[j]

\* Who is ahead in no factor is not ranked before one who is ahead in some, and
\* no score is above a hundred points.
RankingIsFair == Done("scores") =>
  /\ IsInjective(Found) /\ Range(Found) = DOMAIN job.data
  /\ \A i, j \in DOMAIN Found :
       (\A f \in DOMAIN FactorWeight : job.data[Found[i]][f] < job.data[Found[j]][f]) => j < i
  /\ \A i \in DOMAIN job.data : Score(job.data, i) \in 0..10000

\* In a triangle is what is on the same side of its three edges; off it is what
\* is on different sides. (On an edge either may be said.)
Side(p, a, b) == (b.lng - a.lng) * (p.lat - a.lat) - (b.lat - a.lat) * (p.lng - a.lng)
TrianglesAreRight == Done("region") /\ Len(job.data) = 3 =>
  LET sides == {Side(job.at, job.data[i], job.data[(i % 3) + 1]) : i \in 1..3} IN
  /\ (\A x \in sides : x > 0) \/ (\A x \in sides : x < 0) => Found
  /\ (\E x \in sides : x > 0) /\ (\E x \in sides : x < 0) => ~Found

\* The percentage has the sign of the difference; both are missing exactly when a
\* date is; and a period counts as long whichever end comes first.
ChangeIsSigned == Done("compare") =>
  /\ Found.delta = NaN <=> Cleared \in Range(job.data)
  /\ Found.delta # NaN => (Found.delta > 0 => Found.pct >= 0) /\ (Found.delta < 0 => Found.pct <= 0)
  /\ Found = Change(<<job.data[2], job.data[1], job.data[4], job.data[3]>>)

\* No rate is missing, and where no stage gains on the one before none is above
\* a hundred percent.
RatesAreBounded == Done("funnel") /\ (\A i \in 1..(Len(job.data) - 1) : job.data[i + 1] <= job.data[i]) =>
  \A i \in DOMAIN Found : Found[i].step <= 1000 /\ Found[i].overall <= 1000
-----------------------------------------------------------------------------
(* Figures of tables *)
Column(rows, field) == [i \in DOMAIN rows |-> rows[i][field]]
Mean(s) == Rounded(Total(s), Len(s))
Descending(rows, Key(_)) == \* sort() is stable
  LET order == SortSeq([i \in DOMAIN rows |-> i],
                 LAMBDA i, j : Key(rows[i]) > Key(rows[j]) \/ (Key(rows[i]) = Key(rows[j]) /\ i < j))
  IN [k \in DOMAIN rows |-> rows[order[k]]]

(* scoreSentiment, aggregateSentiments and wordFrequency *)
Hits(text, words) == Len(SelectSeq(text, LAMBDA w : w \in words))
Sentiment(text) ==
  LET pos == Hits(text, Positive)
      total == pos + Hits(text, Negative)
  IN CASE total = 0 -> "neutral"
       [] total > 0 /\ 10 * pos >= 6 * total -> "positive"
       [] total > 0 /\ 10 * pos <= 4 * total -> "negative"
       [] OTHER -> "neutral"
Sentiments(texts) ==
  [s \in {"positive", "neutral", "negative"} |->
     Len(SelectSeq(texts, LAMBDA t : Sentiment(t) = s))]
Words(texts) == SelectSeq(FlattenSeq(texts), LAMBDA w : w \in Counted)
Occurs(word, texts) == Hits(Words(texts), {word})
WordFrequency(texts) ==
  LET entry(w) == [word |-> w, count |-> Occurs(w, texts)]
      all == FoldLeft(LAMBDA seen, w : IF Contains(seen, w) THEN seen ELSE Append(seen, w),
                      << >>, Words(texts))
      ranked == Descending([i \in DOMAIN all |-> entry(all[i])], LAMBDA e : e.count)
  IN SubSeq(ranked, 1, Min({TopN, Len(ranked)}))

(* The campaigns under an attribution model; costs and returns in cents *)
Cpa(spent, signups) == IF signups = 0 THEN 0 ELSE Rounded(100 * spent, signups)
Roas(revenue, spent) == IF spent = 0 THEN 0 ELSE Rounded(100 * revenue, spent)
Adjusted(cs, multipliers) ==
  [i \in DOMAIN cs |->
     [cs[i] EXCEPT !.signups = Rounded(@ * multipliers[i], 100),
                   !.revenue = Rounded(@ * multipliers[i], 100)]]
CampaignRows(cs) ==
  [i \in DOMAIN cs |->
     LET c == cs[i]
     IN [cpa |-> Cpa(c.spent, c.signups), roas |-> Roas(c.revenue, c.spent),
         green |-> Roas(c.revenue, c.spent) >= 300]]
CampaignTotals(cs) ==
  [signups |-> Total(Column(cs, "signups")), spent |-> Total(Column(cs, "spent")),
   revenue |-> Total(Column(cs, "revenue")),
   roas |-> Roas(Total(Column(cs, "revenue")), Total(Column(cs, "spent")))]

(* Service levels; services; endpoints *)
Met(m) == m.actual >= m.target
LevelFigures(ms) ==
  LET met == Len(SelectSeq(ms, Met))
  IN [compliance |-> Rounded(100 * met, Len(ms)), breaches |-> Total(Column(ms, "breaches")),
      atRisk |-> Len(SelectSeq(ms, LAMBDA m : ~Met(m)))]
LevelCards(ms) ==
  LET f == LevelFigures(ms)
  IN [compliance |-> f.compliance, good |-> f.compliance >= 80, alarm |-> f.breaches > 0,
      warning |-> f.atRisk > 0, met |-> Len(ms) - f.atRisk]
LevelRows(ms) == [i \in DOMAIN ms |-> [met |-> Met(ms[i]), delta |-> ms[i].actual - ms[i].target]]
ServiceFigures(ss) ==
  [month |-> Mean(Column(ss, "month")), quarter |-> Mean(Column(ss, "quarter")),
   incidents |-> Len(SelectSeq(ss, LAMBDA s : s.status = "incident"))]
Failing(es) == SelectSeq(es, LAMBDA e : e.rate > 100) \* the alert and the red cells
\* The overall rate is the mean of the endpoints' rates, however many requests each has.
EndpointFigures(es) ==
  [requests |-> Total(Column(es, "requests")), ms |-> Mean(Column(es, "ms")),
   rate |-> Mean(Column(es, "rate"))]

(* Support tickets, and this week beside the last, in tenths of a percent *)
TicketFigures(t, agents) ==
  [rate |-> IF Total(t.opened) = 0 THEN NaN ELSE Rounded(1000 * Total(t.resolved), Total(t.opened)),
   hours |-> Mean(Column(agents, "tenths"))]
AgentRows(agents) == Descending(agents, LAMBDA a : a.resolved)
PctDiff(a, b) == IF b = 0 THEN 0 ELSE Rounded((a - b) * 1000, b)
WeekBadge(w) == PctDiff(Total(w.this), Total(w.last))
WeekTooltips(w) == [i \in DOMAIN w.this |-> PctDiff(w.this[i], w.last[i])]

(* validateRequired, ...MinLength, ...MaxLength, ...Email, ...Url and compose *)
Required(v) == v.length > 0 /\ ~v.blank
Holds(v, rule) ==
  CASE rule.is = "required" -> Required(v)
    [] rule.is = "min" -> v.length >= rule.bound
    [] rule.is = "max" -> v.length <= rule.bound
    [] rule.is = "email" -> v.email
    [] rule.is = "url" -> v.url
Compose(v, rules) ==
  LET broken == SelectInSeq(rules, LAMBDA r : ~Holds(v, r))
  IN IF broken = 0 THEN "valid" ELSE rules[broken].is

SummariesInit ==
  /\ answer = << >>
  /\ \/ job \in [kind : {"texts"}, data : Texts]
     \/ job \in [kind : {"campaigns"}, data : Campaigns, by : Multipliers]
     \/ job \in [kind : {"levels"}, data : Levels]
     \/ job \in [kind : {"services"}, data : Services]
     \/ job \in [kind : {"endpoints"}, data : Endpoints]
     \/ job \in [kind : {"tickets"}, data : Tickets, agents : Agents]
     \/ job \in [kind : {"weeks"}, data : Weeks]
     \/ job \in [kind : {"field"}, data : Value, rules : Rules]
SummariesResult ==
  CASE job.kind = "texts" -> [moods |-> Sentiments(job.data), top |-> WordFrequency(job.data)]
    [] job.kind = "campaigns" ->
         LET cs == Adjusted(job.data, job.by)
         IN [rows |-> CampaignRows(cs), totals |-> CampaignTotals(cs)]
    [] job.kind = "levels" -> [rows |-> LevelRows(job.data), cards |-> LevelCards(job.data)]
    [] job.kind = "services" -> ServiceFigures(job.data)
    [] job.kind = "endpoints" -> EndpointFigures(job.data) @@ [alert |-> Failing(job.data)]
    [] job.kind = "tickets" ->
         TicketFigures(job.data, job.agents) @@ [agents |-> AgentRows(job.agents)]
    [] job.kind = "weeks" -> [badge |-> WeekBadge(job.data), days |-> WeekTooltips(job.data)]
    [] job.kind = "field" -> [verdict |-> Compose(job.data, job.rules)]
SummariesNext == answer = << >> /\ answer' = <<SummariesResult>> /\ UNCHANGED job

(* calcNPS, npsBySegment and npsOverTime *)
CalcNps(rs) ==
  LET n == Len(rs)
      promoters == Len(SelectSeq(rs, LAMBDA r : r.score >= 9))
      passives == Len(SelectSeq(rs, LAMBDA r : r.score \in 7..8))
      detractors == Len(SelectSeq(rs, LAMBDA r : r.score <= 6))
  IN [promoters |-> promoters, passives |-> passives, detractors |-> detractors, total |-> n,
      nps |-> IF n = 0 THEN 0 ELSE Rounded((promoters - detractors) * 100, n)]
Groups(rs) == {rs[i].group : i \in DOMAIN rs}
NpsBy(rs) == [g \in Groups(rs) |-> CalcNps(SelectSeq(rs, LAMBDA r : r.group = g)).nps]
Overview(rs) == [overall |-> CalcNps(rs), by |-> NpsBy(rs)]

(* calcLTV, cohortLTV and calcRetentionLTV, in cents *)
CalcLtv(arpu, churn) == IF churn <= 0 THEN 0 ELSE Rounded(arpu * 100000, churn)
\* Cohort i churns 2 % of the rate less than the one before, but no less than 1 %.
CohortLtv(arpu, churn) ==
  [i \in 1..6 |->
     IF churn * (102 - 2 * i) <= 1000 THEN arpu * 10000
     ELSE Rounded(arpu * 10000000, churn * (102 - 2 * i))]
RetentionLtv(arpu, retention) ==
  [k \in 1..Periods |->
     Rounded(arpu * 100 * Total([i \in 1..k |-> (retention ^ i) * (10 ^ (Periods - i))]), 10 ^ Periods)]
Lifetime(arpu, churn, retention) ==
  [ltv |-> CalcLtv(arpu, churn), cohorts |-> CohortLtv(arpu, churn),
   curve |-> RetentionLtv(arpu, retention)]

(* OnboardingFunnel: where 0 / 0 users go on, the rate is neither below nor above *)
Scaled(s, percent) == [i \in DOMAIN s |-> Rounded(s[i] * percent, 100)]
Lost(s, i) == i > 1 /\ s[i - 1] > 0 /\ 10 * s[i] < 6 * s[i - 1]
Missing(s, i) == i > 1 /\ s[i - 1] = 0 /\ s[i] = 0
Onboarding(s) ==
  [red |-> {i \in DOMAIN s : Lost(s, i)},
   highlighted |-> {i \in DOMAIN s : Lost(s, i) \/ Missing(s, i)},
   total |-> IF Len(s) <= 1 THEN 1000 ELSE IF s[1] = 0 THEN NaN ELSE Rounded(s[Len(s)] * 1000, s[1])]

(* DensityMap: the rows of a region, the most users first; shares in tenths of a percent *)
Rows(c, region) ==
  SortSeq(SelectSeq([i \in DOMAIN c |-> i], LAMBDA i : region \in {"All", c[i].region}),
          LAMBDA i, j : \/ c[i].users > c[j].users
                        \/ c[i].users = c[j].users /\ i < j)
TotalUsers(c, region) == Total([i \in DOMAIN Rows(c, region) |-> c[Rows(c, region)[i]].users])
Share(c, region, i) == Rounded(c[i].users * 1000, TotalUsers(c, region))
MaxUsers(c) == Max({c[i].users : i \in DOMAIN c})
Density(c, i) == \* densityColor: the darker, the higher
  Cardinality({t \in {5, 20, 40, 60, 80} : c[i].users * 100 > t * MaxUsers(c)})

Regions(c) == {"All"} \cup {c[i].region : i \in DOMAIN c}
AudienceInit ==
  /\ answer = << >>
  /\ \/ job \in [kind : {"nps"}, data : Responses]
     \/ job \in [kind : {"ltv"}, data : Arpu, churn : Churn, retention : Retention]
     \/ job \in [kind : {"onboarding"}, data : Stages, cohort : Cohort]
     \/ \E c \in Countries, r \in {"All", "x", "y"} :
          r \in Regions(c) /\ job = [kind |-> "density", data |-> c, region |-> r]
AudienceResult ==
  CASE job.kind = "nps" -> Overview(job.data)
    [] job.kind = "ltv" -> Lifetime(job.data, job.churn, job.retention)
    [] job.kind = "onboarding" -> Onboarding(Scaled(job.data, job.cohort))
    [] job.kind = "density" ->
         [rows |-> Rows(job.data, job.region),
          shares |-> [i \in DOMAIN Rows(job.data, job.region) |->
                        Share(job.data, job.region, Rows(job.data, job.region)[i])]]
AudienceNext == answer = << >> /\ answer' = <<AudienceResult>> /\ UNCHANGED job
-----------------------------------------------------------------------------
Between(x, values) == (\E v \in values : v <= x) /\ (\E v \in values : x <= v)

\* Every text has one mood, texts of one mood have it put together too, and the
\* words listed are the most frequent ones, each as often as it occurs.
MoodsAddUp == Done("texts") =>
  LET texts == job.data IN
  /\ Found.moods["positive"] + Found.moods["neutral"] + Found.moods["negative"] = Len(texts)
  /\ \A s \in DOMAIN Found.moods :
       Found.moods[s] = Len(texts) /\ texts # << >> => Sentiment(FlattenSeq(texts)) = s
  /\ IsInjective(Column(Found.top, "word"))
  /\ Len(Found.top) < TopN => Total(Column(Found.top, "count")) = Len(Words(texts))
  /\ \A i \in DOMAIN Found.top, w \in Range(Words(texts)) :
       Occurs(w, texts) > Found.top[i].count => \E k \in 1..(i - 1) : Found.top[k].word = w

\* Whatever the model, as much is spent; the blended return is between those of the
\* rows, except that a campaign that cost nothing shows none and yet raises it.
ReturnsBlend == Done("campaigns") =>
  LET shown == Range(Column(Found.rows, "roas")) IN
  /\ Found.totals.spent = Total(Column(job.data, "spent"))
  /\ \E r \in shown : r <= Found.totals.roas
  /\ (\A i \in DOMAIN job.data : job.data[i].spent > 0) => Between(Found.totals.roas, shown)
  /\ (\A i \in DOMAIN Found.rows : Found.rows[i].green) => Found.totals.roas >= 300

\* Cards and rows tell the same: a level is met where its row says so, 100 % means
\* none is at risk, and a mean lies between what it is the mean of. An overall error
\* rate above 1 % never comes without the alert.
CardsTellRows ==
  /\ Done("levels") =>
       LET met == {i \in DOMAIN Found.rows : Found.rows[i].met} IN
       /\ Cardinality(met) = Found.cards.met /\ (Found.cards.warning <=> met # DOMAIN job.data)
       /\ Found.cards.compliance = 100 <=> ~Found.cards.warning
            /\ \A i \in DOMAIN Found.rows : i \in met <=> Found.rows[i].delta >= 0
  /\ Done("services") => /\ Between(Found.month, Range(Column(job.data, "month")))
                         /\ Between(Found.quarter, Range(Column(job.data, "quarter")))
                         /\ Found.incidents <= Len(job.data)
  /\ Done("endpoints") => /\ Between(Found.rate, Range(Column(job.data, "rate")))
                          /\ Between(Found.ms, Range(Column(job.data, "ms")))
                          /\ Found.rate > 100 => Found.alert # << >>

\* More are resolved than opened exactly where the rate exceeds 100 %; the agents'
\* hours lie between the quickest and the slowest; the table lists each agent once, the
\* best first. A week's change lies between its days' where last week had none at 0,
\* and is never called a rise when no day rose.
RatesTellChange ==
  /\ Done("tickets") =>
       /\ Found.rate # NaN /\ Found.rate > 1000 =>
            Total(job.data.resolved) > Total(job.data.opened)
       /\ Between(Found.hours, Range(Column(job.agents, "tenths")))
       /\ \A i \in 1..(Len(job.agents) - 1) : Found.agents[i].resolved >= Found.agents[i + 1].resolved
       /\ \A a \in Range(job.agents) :
            Len(SelectSeq(Found.agents, LAMBDA b : b = a)) = Len(SelectSeq(job.agents, LAMBDA b : b = a))
  /\ Done("weeks") =>
       /\ (\A i \in DOMAIN job.data.last : job.data.last[i] > 0) => Between(Found.badge, Range(Found.days))
       /\ (\A i \in DOMAIN job.data.this : job.data.this[i] <= job.data.last[i]) => Found.badge <= 0

\* A field is told of the first rule it breaks, and is valid only if it breaks none,
\* in whatever order the rules are given.
ComplaintsAreFirst == Done("field") =>
  LET rules == job.rules IN
  /\ (Found.verdict = "valid") = (\A i \in DOMAIN rules : Holds(job.data, rules[i]))
  /\ Found.verdict # "valid" =>
       \E i \in DOMAIN rules : /\ rules[i].is = Found.verdict /\ ~Holds(job.data, rules[i])
                               /\ \A k \in 1..(i - 1) : Holds(job.data, rules[k])
  /\ (Compose(job.data, Reverse(rules)) = "valid") = (Found.verdict = "valid")

\* Every response is in one of the three classes, and the overall score lies
\* between the lowest and the highest of the groups, rounded as they are.
NpsIsBetweenItsGroups == Done("nps") =>
  LET o == Found.overall IN
  /\ o.promoters + o.passives + o.detractors = o.total /\ o.nps \in -100..100
  /\ o.total > 0 => /\ \E g \in DOMAIN Found.by : Found.by[g] <= o.nps
                    /\ \E g \in DOMAIN Found.by : Found.by[g] >= o.nps

\* Later cohorts, which churn less, are worth no less; the first is worth the
\* value shown, which only churn below 1 % exceeds; where churn is not positive
\* (an emptied field is 0) the value shown is 0 beside cohorts that are not. What
\* is earned grows, and by no more than the revenue of a month.
LifetimesAgree == Done("ltv") =>
  /\ \A i \in 1..5 : Found.cohorts[i] <= Found.cohorts[i + 1]
  /\ job.churn >= 10 => Found.cohorts[1] = Found.ltv
  /\ job.churn \in 1..9 => Found.cohorts[1] <= Found.ltv
  /\ job.churn <= 0 => Found.ltv = 0 /\ (Found.cohorts[1] = 0 <=> job.data = 0)
  /\ \A k \in 1..(Periods - 1) :
       /\ Found.curve[k] <= Found.curve[k + 1]
       /\ job.retention <= 10 => Found.curve[k + 1] - Found.curve[k] <= job.data * 100 + 1

\* What is coloured as a loss is listed as one, and the other way round but for a
\* stage nobody reached after one nobody reached; a funnel with no loss keeps at
\* least six of ten users from each stage to the next.
LossesAreListed == Done("onboarding") =>
  LET s == Scaled(job.data, job.cohort) IN
  /\ Found.red \subseteq Found.highlighted
  /\ \A i \in Found.highlighted \ Found.red : s[i] = 0 /\ s[i - 1] = 0
  /\ Found.highlighted = {} /\ s[1] > 0 =>
       s[Len(s)] * (10 ^ (Len(s) - 1)) >= s[1] * (6 ^ (Len(s) - 1))

\* A region lists its countries once each; shares are a hundred percent up to their
\* rounding, no share is smaller than the share of all users, and more users never
\* look lighter.
SharesAreTheWhole == Done("density") =>
  LET c == job.data IN
  /\ IsInjective(Found.rows)
  /\ \A i \in DOMAIN c : i \in Range(Found.rows) <=> job.region \in {"All", c[i].region}
  /\ LET off == Total(Found.shares) - 1000 IN 2 * off \in -Len(Found.rows)..Len(Found.rows)
  /\ \A i \in DOMAIN Found.rows : Found.shares[i] >= Share(c, "All", Found.rows[i])
  /\ \A i, j \in DOMAIN Found.rows : i < j => Density(c, Found.rows[i]) >= Density(c, Found.rows[j])
=============================================================================
