-------------------------- MODULE TelemetryHistory --------------------------
(***************************************************************************)
(* The read model of telemetry: what the API answers from ClickHouse       *)
(* (packages/clickhouse/src/store.ts) while the storage writer goes on     *)
(* inserting, and the in-process store that the tests hold up as "the      *)
(* reference implementation of the query semantics ClickHouse must match"  *)
(* (packages/telemetry/src/in-memory-store.ts:45).                         *)
(*                                                                         *)
(* A table keeps copies of a record, because a redelivered batch inserts   *)
(* it again; a merge collapses them and expires what is past retention,    *)
(* whenever ClickHouse gets to it. A reader pages through the newest       *)
(* records first with a cursor, each page a request of its own: records    *)
(* arrive late, expire and are merged, and assignments change in between.  *)
(*                                                                         *)
(* Records differ in what queries tell apart: of the identity columns the  *)
(* cluster, the workload, the pod and the service, in one namespace. The   *)
(* label is the severity of a log, the name of a metric and the type of an *)
(* event. How names are ordered is left out: ClickHouse compares bytes and *)
(* the in-process store the locale, so an order by name is any order.      *)
(***************************************************************************)
EXTENDS Integers, FiniteSets, Sequences, SequencesExt, FiniteSetsExt

CONSTANTS
  Records,      \* Seq of records; the position is the eventId
  MaxCopies,    \* bound: copies of a record at one time
  MaxTime,      \* bound: the last instant
  Retention,    \* how long a table keeps a record
  MaxRange,     \* queryLimits.maxTimeRangeMs
  MaxLimit,     \* queryLimits.maxLimit
  MinBucket, DefaultBuckets, MaxBuckets,   \* minBucketMs, 60, maxBuckets
  Deployment,   \* TELEMETRY_QUERY_CLUSTER_SCOPE, {} when not configured
  Requests,     \* the searches a reader sends
  Probes        \* the queries both stores are compared on

Ids == DOMAIN Records
Clusters == {Records[e].cluster : e \in Ids}
None == "none"         \* an identity field that is absent, a filter not given
Unnamed == "unnamed"   \* a request that names no cluster
Max2(a, b) == IF a > b THEN a ELSE b
Min2(a, b) == IF a < b THEN a ELSE b

\* The set S in the order a strict order puts it in.
Sorted(S, Precedes(_, _)) ==
  [i \in 1..Cardinality(S) |->
     CHOOSE x \in S : Cardinality({y \in S : Precedes(y, x)}) = i - 1]

Tables == {"logs", "metrics", "events"}
IsRecord(r) ==
  /\ DOMAIN r = {"table", "cluster", "time", "workload", "pod", "service", "label", "value"}
  /\ r.table \in Tables /\ r.time \in 0..MaxTime /\ r.value \in Nat
  /\ "" \notin {r.workload, r.pod, r.service}   \* both stores take an empty name for none

IsSearch(q) ==
  /\ DOMAIN q = {"table", "cluster", "workload", "pod", "labels", "start", "end", "limit"}
  /\ {q.start, q.end, q.limit} \subseteq Int

IsProbe(q) ==
  /\ DOMAIN q = {"cluster", "workload", "pod", "labels", "name", "names", "bucket", "start",
                 "end", "resource", "limit"}
  /\ {q.start, q.end} \subseteq Int /\ {q.bucket, q.limit} \subseteq Nat /\ q.limit > 0
  /\ "" \notin {q.workload, q.pod, q.resource.name}

ASSUME HistoryAssumption ==
  /\ Records \in Seq(Range(Records)) /\ \A e \in Ids : IsRecord(Records[e])
  /\ \A q \in Requests : IsSearch(q)
  /\ \A q \in Probes : IsProbe(q)
  /\ {MaxCopies, MaxRange, MaxLimit, MinBucket, DefaultBuckets, MaxBuckets}
       \subseteq Nat \ {0}
  /\ {MaxTime, Retention} \subseteq Nat

VARIABLES
  now,       \* the clock
  copies,    \* ClickHouse: [Ids -> how many rows have this event_id]
  kept,      \* the in-process store: the ids in its maps
  reading    \* what the reader has asked for and been shown

historyVars == <<now, copies, kept, reading>>

-----------------------------------------------------------------------------
(* Rows: a missing identity is an empty column *)

RowOf(r) ==
  LET OrEmpty(x) == IF x = None THEN "" ELSE x
  IN  [r EXCEPT !.workload = OrEmpty(@), !.pod = OrEmpty(@), !.service = OrEmpty(@)]

RecordOf(row) ==
  LET Optional(x) == IF x = "" THEN None ELSE x
  IN  [row EXCEPT !.workload = Optional(@), !.pod = Optional(@), !.service = Optional(@)]

\* Every copy of every record, as <<id, copy>>; the copies have the same columns.
Rows == {row \in Ids \X (1..MaxCopies) : row[2] <= copies[row[1]]}
Inserted == [e \in Ids |-> RowOf(Records[e])]
Column(row) == Inserted[row[1]]

-----------------------------------------------------------------------------
(* What a request may ask: query-safety.ts, telemetry-scope.ts *)

\* "Two limits compose, and both must allow a cluster" (telemetry-scope.ts:36).
\* `assigned` is what the guard finds assigned to the user for this request.
Scope(assigned) ==
  IF Deployment = {} THEN assigned ELSE assigned \intersect Deployment

\* A single-cluster scope does not need the caller to name it.
ResolveCluster(cluster, scope) ==
  IF cluster = Unnamed /\ Cardinality(scope) = 1
  THEN CHOOSE c \in scope : TRUE
  ELSE cluster

TimeRangeIsValid(q, most) == q.end > q.start /\ q.end - q.start <= most
ParseLimit(limit) == Min2(limit, MaxLimit)

\* The bucket width a metric query gets; 0 asks for the default.
BucketWidth(q) ==
  LET duration == q.end - q.start
      slices == DefaultBuckets * MinBucket
  IN  IF q.bucket = 0
      THEN Max2(MinBucket, ((duration + slices - 1) \div slices) * MinBucket)
      ELSE q.bucket

ValidSearch(q) ==
  /\ TimeRangeIsValid(q, MaxRange)
  /\ q.cluster # Unnamed
  /\ q.limit >= 1

ValidMetricQuery(q) ==
  /\ TimeRangeIsValid(q, MaxRange)
  /\ BucketWidth(q) >= MinBucket
  /\ q.end - q.start <= MaxBuckets * BucketWidth(q)
  /\ q.limit >= 1

\* A query narrowed to the telemetry of one resource.
TimelineFilters(q, resource) ==
  [q EXCEPT
     !.workload = IF resource.scope = "workload" THEN resource.name ELSE None,
     !.pod = IF resource.scope = "pod" THEN resource.name ELSE None]

-----------------------------------------------------------------------------
(* ClickHouse: the statements and what is made of their rows *)

NoCursor == <<>>

\* identityFilters: a filter that is not given, or empty, selects nothing.
Identity(column, q) ==
  /\ q.workload = None \/ column.workload = q.workload
  /\ q.pod = None \/ column.pod = q.pod

\* Mutant of Beyond: the cursor is a timestamp only.
BeyondTime(row, cursor) == cursor = NoCursor \/ Column(row).time < cursor[1]

\* (event_timestamp, event_id) < (cursor)
Beyond(row, cursor) ==
  \/ cursor = NoCursor
  \/ Column(row).time < cursor[1]
  \/ Column(row).time = cursor[1] /\ row[1] < cursor[2]

\* scopeFilters and buildWhere: the rows a query reads.
Where(table, q, labels, cursor) ==
  {row \in Rows :
     LET column == Column(row)
     IN  /\ column.table = table
         /\ column.cluster = q.cluster
         /\ column.time >= q.start /\ column.time < q.end
         /\ Identity(column, q)
         /\ labels = {} \/ column.label \in labels
         /\ Beyond(row, cursor)}

Later(a, b) ==
  \/ Inserted[a].time > Inserted[b].time
  \/ Inserted[a].time = Inserted[b].time /\ a > b

\* ORDER BY timestamp DESC, event_id DESC, then LIMIT 1 BY event_id, which leaves
\* one of the copies of a record, then LIMIT. One row more than the page shows
\* whether another page exists.
SelectRows(table, q, labels, cursor) ==
  LET ordered == Sorted({row[1] : row \in Where(table, q, labels, cursor)}, Later)
  IN  SubSeq(ordered, 1, Min2(q.limit + 1, Len(ordered)))

\* page(): the items, and a cursor at the last of them when there are more.
PageOf(rows, limit) ==
  LET visible == SubSeq(rows, 1, Min2(limit, Len(rows)))
      last == visible[Len(visible)]
  IN  [items |-> visible,
       next |-> IF Len(rows) > limit THEN <<Inserted[last].time, last>> ELSE NoCursor]

SearchPage(table, q, cursor) ==
  PageOf(SelectRows(table, q, q.labels, cursor), q.limit)

\* An aggregated bucket, with the samples that its min, max, avg and count are of.
Bucket(start, series, samples) ==
  [start |-> start, workload |-> series.workload, pod |-> series.pod,
   service |-> series.service, samples |-> samples]

\* Mutant of SampleRows: no inner query.
SampleRowsAll(q) == Where("metrics", q, {q.name}, NoCursor)

\* The samples behind an aggregation: LIMIT 1 BY event_id in the inner query.
SampleRows(q) == {row \in Where("metrics", q, {q.name}, NoCursor) : row[2] = 1}

\* GROUP BY bucket and identity, the service included.
Buckets(q) ==
  LET width == BucketWidth(q)
      Key(row) == <<q.start + ((Column(row).time - q.start) \div width) * width,
                    Column(row).workload, Column(row).pod, Column(row).service>>
      rows == SampleRows(q)
  IN  {Bucket(k[1], RecordOf([workload |-> k[2], pod |-> k[3], service |-> k[4]]),
              {row \in rows : Key(row) = k}) : k \in {Key(row) : row \in rows}}

\* ORDER BY bucket, then names, then LIMIT: what is answered begins no later than
\* what is cut.
Limited(buckets, limit) ==
  {answer \in SUBSET buckets :
     /\ Cardinality(answer) = Min2(limit, Cardinality(buckets))
     /\ \A shown \in answer, cut \in buckets \ answer : shown.start <= cut.start}

\* Logs, events and the newest samples of the named metrics of one resource.
\* Events are recorded against the pod, so the container is not a filter.
Timeline(q) ==
  LET search == TimelineFilters(q, q.resource)
      logs == SearchPage("logs", search, NoCursor)
      events == PageOf(SelectRows("events", search, {}, NoCursor), q.limit)
      rows == IF q.names = {} THEN <<>>
              ELSE SelectRows("metrics", search, q.names, NoCursor)
  IN  [logs |-> logs.items, events |-> events.items,
       metrics |-> {rows[i] : i \in 1..Min2(q.limit, Len(rows))},
       cut |-> [logs |-> logs.next # NoCursor, events |-> events.next # NoCursor,
                metrics |-> Len(rows) > q.limit]]

-----------------------------------------------------------------------------
(* The in-process store *)

Expired(e) == Records[e].time < now - Retention

\* rows(): what is past retention is not shown, whether or not it is kept.
Retained == {e \in kept : ~Expired(e)}

MatchesIdentity(r, q) ==
  /\ q.workload = None \/ r.workload = q.workload
  /\ q.pod = None \/ r.pod = q.pod

WithinRange(r, q) == r.time >= q.start /\ r.time < q.end

Matches(table, q, labels) ==
  {e \in Retained : LET r == Records[e]
                    IN  /\ r.table = table
                        /\ r.cluster = q.cluster
                        /\ WithinRange(r, q)
                        /\ MatchesIdentity(r, q)
                        /\ labels = {} \/ r.label \in labels}

CompareDescending(a, b) ==
  \/ Records[a].time > Records[b].time
  \/ Records[a].time = Records[b].time /\ a > b

Paginate(matches, limit, cursor) ==
  LET after == {e \in matches :
                  cursor = NoCursor \/ Records[e].time < cursor[1]
                    \/ (Records[e].time = cursor[1] /\ e < cursor[2])}
      ordered == Sorted(after, CompareDescending)
      items == SubSeq(ordered, 1, Min2(limit, Len(ordered)))
      last == items[Len(items)]
  IN  [items |-> items,
       next |-> IF Len(ordered) > limit THEN <<Records[last].time, last>>
                ELSE NoCursor]

SearchInProcess(table, q, cursor) ==
  Paginate(Matches(table, q, q.labels), q.limit, cursor)

\* Grouped without the service; sorted by bucket, then names, and cut (Limited).
BucketsInProcess(q) ==
  LET width == BucketWidth(q)
      Key(e) == <<(Records[e].time - q.start) \div width,
                  Records[e].workload, Records[e].pod>>
      found == Matches("metrics", q, {q.name})
  IN  {Bucket(q.start + k[1] * width,
              [workload |-> k[2], pod |-> k[3], service |-> None],
              {<<e, 1>> : e \in {f \in found : Key(f) = k}}) :
         k \in {Key(e) : e \in found}}

\* The samples are cut per name here: which ones a cut leaves is the order of
\* their insertion, so `metrics` is right only when none was cut.
TimelineInProcess(q) ==
  LET search == TimelineFilters(q, q.resource)
      logs == SearchInProcess("logs", search, NoCursor)
      events == Paginate(Matches("events", search, {}), q.limit, NoCursor)
      Samples(name) == Matches("metrics", search, {name})
  IN  [logs |-> logs.items, events |-> events.items,
       metrics |-> UNION {Samples(name) : name \in q.names},
       cut |-> [logs |-> logs.next # NoCursor, events |-> events.next # NoCursor,
                metrics |-> \E name \in q.names :
                              Cardinality(Samples(name)) > q.limit]]

-----------------------------------------------------------------------------
(* The evidence of an incident: incident-evidence.controller.ts *)

\* Mutant of EvidenceWindow: clipped to begin at the first activity.
EvidenceWindowFromStart(incident, lead, trail) ==
  LET start == incident.first - lead
      end == (IF incident.resolved # 0 THEN incident.resolved ELSE incident.last)
               + trail
  IN  [start |-> start, end |-> Min2(end, start + MaxRange)]

\* Clipped to end at the last activity: those minutes are the ones worth reading.
EvidenceWindow(incident, lead, trail) ==
  LET end == (IF incident.resolved # 0 THEN incident.resolved ELSE incident.last)
               + trail
      start == Max2(incident.first - lead, end - MaxRange)
  IN  [start |-> Min2(start, end - 1), end |-> end]

\* Primary resource first; an incident without any is read by its namespace.
PrimaryResource(incident) ==
  LET known == {i \in DOMAIN incident.resources :
                  incident.resources[i].name # None}
  IN  IF known = {} THEN [scope |-> "namespace", name |-> "default"]
      ELSE incident.resources[Min(known)]

\* Error logs of the workload, warnings of the namespace, and the primary
\* resource's timeline, in one window.
Evidence(incident, lead, trail, limit) ==
  LET window == EvidenceWindow(incident, lead, trail)
      primary == PrimaryResource(incident)
      q == [cluster |-> incident.cluster, workload |-> None, pod |-> None,
            labels |-> {}, names |-> {"memory", "cpu"}, resource |-> primary,
            start |-> window.start, end |-> window.end,
            limit |-> ParseLimit(limit)]
      logs == [q EXCEPT !.workload =
                 IF primary.scope = "workload" THEN primary.name ELSE None]
  IN  [window |-> window,
       logs   |-> PageOf(SelectRows("logs", logs, {"error"}, NoCursor), q.limit),
       events |-> PageOf(SelectRows("events", q, {"Warning"}, NoCursor), q.limit),
       metrics |-> Timeline(q).metrics]

-----------------------------------------------------------------------------
(* Actions *)

Idle == [phase |-> "idle", query |-> <<>>, cursor |-> NoCursor, shown |-> <<>>,
         promised |-> {}]

HistoryInit ==
  /\ now = 0
  /\ copies = [e \in Ids |-> 0]
  /\ kept = {}
  /\ reading = Idle

\* write(): the in-process store skips what is past retention.
KeptWith(e) == IF Expired(e) THEN kept ELSE kept \union {e}

\* The storage writer inserts a record, for the first time or again. ClickHouse
\* takes it whatever its age.
Store(e) ==
  /\ Records[e].time <= now
  /\ copies[e] < MaxCopies
  /\ copies' = [copies EXCEPT ![e] = @ + 1]
  /\ kept' = KeptWith(e)
  /\ UNCHANGED <<now, reading>>

\* ReplacingMergeTree keeps one row per sort key, which ends with event_id.
Merge(e) ==
  /\ copies[e] > 1
  /\ copies' = [copies EXCEPT ![e] = 1]
  /\ UNCHANGED <<now, kept, reading>>

\* TTL: a merge deletes what is past retention, some time after it is. What a
\* reading was owed of it is no longer.
Expire(e) ==
  /\ copies[e] > 0
  /\ Expired(e)
  /\ copies' = [copies EXCEPT ![e] = 0]
  /\ reading' = [reading EXCEPT !.promised = @ \ {e}]
  /\ UNCHANGED <<now, kept>>

Tick ==
  /\ now < MaxTime
  /\ now' = now + 1
  /\ UNCHANGED <<copies, kept, reading>>

\* A search is answered 400 when it is not valid; the reader then follows the
\* cursor with the cluster the first answer names.
Ask(request, assigned) ==
  LET q == [request EXCEPT !.cluster = ResolveCluster(@, Scope(assigned)),
                           !.limit = ParseLimit(@)]
  IN  /\ reading.phase = "idle"
      /\ ValidSearch(q)
      /\ reading' = [Idle EXCEPT
           !.phase = "reading", !.query = q,
           !.promised = {row[1] : row \in Where(q.table, q, q.labels, NoCursor)}]
      /\ UNCHANGED <<now, copies, kept>>

\* The scope is resolved again for each page: assignments may have changed.
NextPage(assigned) ==
  LET q == reading.query
      page == SearchPage(q.table, q, reading.cursor)
  IN  /\ reading.phase = "reading"
      /\ q.cluster \in Scope(assigned)
      /\ reading' = [reading EXCEPT
           !.cursor = page.next,
           !.shown = @ \o page.items,
           !.phase = IF page.next = NoCursor THEN "done" ELSE "reading"]
      /\ UNCHANGED <<now, copies, kept>>

\* 403, or 503 for a reader that does not try again.
Refuse ==
  /\ reading.phase = "reading"
  /\ reading' = Idle
  /\ UNCHANGED <<now, copies, kept>>

Leave ==
  /\ reading.phase = "done"
  /\ reading' = Idle
  /\ UNCHANGED <<now, copies, kept>>

HistoryNext ==
  \/ \E e \in Ids : Store(e) \/ Merge(e) \/ Expire(e)
  \/ \E assigned \in SUBSET Clusters :
       \/ \E request \in Requests : Ask(request, assigned)
       \/ NextPage(assigned)
  \/ Tick \/ Refuse \/ Leave

HistorySpec == HistoryInit /\ [][HistoryNext]_historyVars

-----------------------------------------------------------------------------
(* Properties *)

\* A reading that reached the last page has shown every record that was there
\* when it began and has not expired since, whatever was inserted meanwhile.
NothingIsSkipped ==
  reading.phase = "done" => reading.promised \subseteq Range(reading.shown)

\* The buckets of one start and series, whatever their service, taken together.
Together(buckets) ==
  LET Same(a, b) == a.start = b.start /\ a.workload = b.workload /\ a.pod = b.pod
  IN  {Bucket(b.start, [workload |-> b.workload, pod |-> b.pod, service |-> None],
              UNION {c.samples : c \in {x \in buckets : Same(x, b)}}) : b \in buckets}

\* Whatever each store cuts, where the first answer shows a start whole: because
\* nothing was cut, or because it goes on to a later one.
SameAggregates(q) ==
  \A here \in Limited(Buckets(q), q.limit), there \in Limited(BucketsInProcess(q), q.limit) :
    LET Whole(b) == Cardinality(here) < q.limit \/ \E c \in here : b.start < c.start
    IN  {b \in Together(here) : Whole(b)} = {b \in there : Whole(b)}

\* "It is the reference implementation of the query semantics ClickHouse must
\* match" (in-memory-store.ts:45): page by page; bucket by bucket where a start is
\* shown whole and the services of a series are taken together; and in the timeline
\* of a resource as long as neither cuts it, for windows within retention. (The
\* answers do not depend on a reading, so they are compared between readings.)
AdaptersAgree ==
  reading.phase = "idle" =>
    \A q \in {p \in Probes : p.start >= now - Retention /\ ValidMetricQuery(p)} :
      LET first == SearchPage("logs", q, NoCursor)
          here == Timeline(q)
          there == TimelineInProcess(q)
      IN  /\ first = SearchInProcess("logs", q, NoCursor)
          /\ SearchPage("logs", q, first.next)
               = SearchInProcess("logs", q, first.next)
          /\ SameAggregates(q)
          /\ here.logs = there.logs /\ here.events = there.events
          /\ ~here.cut.metrics =>
               here.metrics = there.metrics /\ ~there.cut.metrics

\* "the minutes around the most recent activity are the ones worth reading"
\* (incident-evidence.controller.ts:195): the evidence of an incident is cut from
\* its beginning, so that what is stored of its last instant is in it unless
\* `limit` newer records are, and a window that fits is not cut at all.
EvidenceShowsTheEnd ==
  reading.phase = "idle" =>
    \A first, last \in 0..now, lead \in 0..1, trail \in 1..MaxRange :
      LET incident == [cluster |-> Records[1].cluster, first |-> first, last |-> last,
                       resolved |-> 0, resources |-> <<>>]
          found == Evidence(incident, lead, trail, 1)
          AtTheEnd(table, label) ==
            {e \in Ids : /\ copies[e] > 0
                         /\ Records[e].cluster = incident.cluster
                         /\ Records[e].time = last
                         /\ Records[e].table = table /\ Records[e].label = label}
          Newer(e, items) == \A i \in DOMAIN items : CompareDescending(items[i], e)
      IN  first <= last =>
            /\ found.window.end - found.window.start <= MaxRange
            /\ last + trail - (first - lead) <= MaxRange =>
                 found.window.start = first - lead
            /\ \A e \in AtTheEnd("logs", "error") :
                 found.logs.items # <<e>> =>
                   Len(found.logs.items) = 1 /\ Newer(e, found.logs.items)
            /\ \A e \in AtTheEnd("events", "Warning") :
                 Len(found.events.items) = 1
=============================================================================
