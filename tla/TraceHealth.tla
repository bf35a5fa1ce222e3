---------------------------- MODULE TraceHealth ----------------------------
(***************************************************************************)
(* `spark os trace` and the trace part of `spark os compile`: the compiler *)
(* reads the events Builder records, statement by statement, while Builder *)
(* goes on recording them, and tells which producers lost the trace, which *)
(* high-severity families are still open, and what to repair first.  The   *)
(* R30 gate carries an open family as "historical" on its word.            *)
(*                                                                         *)
(* An event is of a family (component, event type and what else does not   *)
(* change from an event to the next of the same producer) and of a kind:   *)
(* open and of high or critical severity, resolved and low, or neither;    *)
(* family and kind are the columns the compiler groups by.  An event names *)
(* a trace or none, and a parent event that may never have been recorded.  *)
(* No two events have the same time, and every family is one of Builder's  *)
(* own.  The row limits of the queries (10, 30, 50 and 500) are not        *)
(* reached; those of the trace groups and of the repair cards are.         *)
(***************************************************************************)
EXTENDS Naturals, Sequences, FiniteSets, FiniteSetsExt

CONSTANTS
  Family, TraceRef,
  NoTrace,             \* of an event without a trace_ref
  GroupLimit,          \* group_limit: traces a report shows
  EdgeLimit,           \* edge_sample_limit: parent links of each of them
  MissingCardLimit,    \* cards for producers that lost traces: 6
  HighCardLimit,       \* cards for rows of open events, high_rows[:4]
  MaxBuilderEvents     \* bound on the events recorded

ASSUME TraceHealthAssumption ==
  /\ NoTrace \notin TraceRef /\ {GroupLimit, EdgeLimit, MissingCardLimit, HighCardLimit, MaxBuilderEvents} \subseteq Nat
  /\ Family \cap {"telegram_join", "spawner_join", "open_high"} = {}

HighKind == {"high", "critical"}
EventKind == HighKind \cup {"resolved", "running"}
EventAge == {"hour", "day", "older"}     \* in the last hour, in the last day, before
NoParent == 0
LostParent == MaxBuilderEvents + 1       \* an event that was never recorded
BuilderEvent == [family : Family, kind : EventKind, trace : TraceRef \cup {NoTrace},
                 parent : 0..LostParent, age : EventAge]

VARIABLES
  builderEvents,    \* builder_events, by created_at
  traceReport    \* the report that is being compiled

trace_vars == <<builderEvents, traceReport>>

-----------------------------------------------------------------------------
(* What the queries of the compiler select.                                *)

EventRow == DOMAIN builderEvents
Untraced == {i \in EventRow : builderEvents[i].trace = NoTrace}
HighOpen == {i \in EventRow : builderEvents[i].kind \in HighKind}
Orphaned == {i \in EventRow : builderEvents[i].parent \notin EventRow \cup {NoParent}}
Within(window) ==
  {i \in EventRow : builderEvents[i].age \in IF window = "1h" THEN {"hour"} ELSE {"hour", "day"}}

OfFamily(f) == {i \in EventRow : builderEvents[i].family = f}
Bucket(i) == <<builderEvents[i].family, builderEvents[i].kind>>
InBucket(b) == {i \in EventRow : Bucket(i) = b}
TracedTo(t) == {i \in EventRow : builderEvents[i].trace = t}

(* The traces of a report: the newest ones, with their number of events.   *)
TraceGroups ==
  LET newer(t, u) == Max(TracedTo(t)) > Max(TracedTo(u))
      present == {t \in TraceRef : TracedTo(t) # {}}
  IN {[trace |-> t, count |-> Cardinality(TracedTo(t))] :
        t \in {u \in present : Cardinality({o \in present : newer(o, u)}) < GroupLimit}}

(* A link of the topology, and whether its parent is known and of the same *)
(* trace.                                                                  *)
Edge(i) ==
  LET p == builderEvents[i].parent
  IN [parent |-> p, child |-> i, known |-> p \in EventRow,
      same |-> p \in EventRow /\ builderEvents[p].trace = builderEvents[i].trace]

(* The topology of the traces ts in one pass over the rows of all of them: *)
(* what has been counted for each after each row.                          *)
WithRow(counts, i) ==
  IF builderEvents[i].parent = NoParent THEN [counts EXCEPT !.roots = @ + 1]
  ELSE [counts EXCEPT !.links = @ + 1, !.orphans = IF i \in Orphaned THEN @ + 1 ELSE @,
                      !.edges = IF Len(@) < EdgeLimit THEN Append(@, Edge(i)) ELSE @]
NoRows(ts) == [t \in ts |-> [roots |-> 0, links |-> 0, orphans |-> 0, edges |-> <<>>]]
RowAdded(counts, i) ==
  [t \in DOMAIN counts |-> IF builderEvents[i].trace = t THEN WithRow(counts[t], i) ELSE counts[t]]
RowByRow(ts) ==
  LET counts[n \in 0..Len(builderEvents)] == IF n = 0 THEN NoRows(ts) ELSE RowAdded(counts[n - 1], n)
  IN counts
BatchedTopology(ts) == RowByRow(ts)[Len(builderEvents)]

(* The topology of one trace, by a query of its own for each number and    *)
(* for the first links in order.                                           *)
RankedAt(n, rows) == {i \in rows : Cardinality({j \in rows : j <= i}) = n}
LinksAmong(rows) == {i \in rows : builderEvents[i].parent # NoParent}
TopologyOf(rows) ==
  LET links == LinksAmong(rows)
      shown == {n \in 1..EdgeLimit : n <= Cardinality(links)}
  IN [roots |-> Cardinality(rows \ links), links |-> Cardinality(links),
      orphans |-> Cardinality(links \cap Orphaned),
      edges |-> [n \in shown |-> Edge(CHOOSE i \in RankedAt(n, links) : TRUE)]]
Topology(t) == TopologyOf(TracedTo(t))

-----------------------------------------------------------------------------
(* What a bucket that lost traces, and a family that was open, look like   *)
(* now.                                                                    *)

TemporalState(b) ==
  LET today == InBucket(b) \cap Within("24h")
      clean == Max(InBucket(b)) \notin Untraced
  IN IF clean /\ today \cap Untraced # {} THEN "latest_clean_historical_window_debt"
     ELSE IF clean THEN "latest_clean"
     ELSE IF today = {} THEN "stale_missing_trace_ref"
     ELSE "latest_missing_trace_ref"

MissingSources ==
  {[bucket |-> b, count |-> Cardinality(InBucket(b) \cap Untraced), state |-> TemporalState(b)] :
     b \in {Bucket(i) : i \in Untraced}}

Settled(f) == builderEvents[Max(OfFamily(f))].kind = "resolved"
OpenToday(f) == OfFamily(f) \cap HighOpen \cap Within("24h") # {}

(* The rows of the open events, one for each family and kind.              *)
HighRows ==
  {[bucket |-> b, count |-> Cardinality(InBucket(b))] : b \in {Bucket(i) : i \in HighOpen}}

(* A resolution once recorded counts, though the family has opened again.  *)
HighSources_SettledOnce(rows) ==
  {[row |-> r, settled |-> \E i \in OfFamily(r.bucket[1]) : builderEvents[i].kind = "resolved",
    today |-> OpenToday(r.bucket[1])] : r \in rows}

(* With what is asked of the family of each row: resolved or not, open     *)
(* today or not.                                                           *)
HighSources(rows) ==
  {[row |-> r, settled |-> Settled(r.bucket[1]), today |-> OpenToday(r.bucket[1])] : r \in rows}

HighFlag(sources) ==
  LET unresolved == {s \in sources : ~s.settled}
  IN IF unresolved = {} THEN {}
     ELSE IF \E s \in unresolved : s.today THEN {"open_high_severity_events"}
     ELSE {"historical_open_high_severity_events"}

(* build_trace_current_health: the first window that has events decides.   *)
CurrentHealth ==
  LET window == IF Within("1h") = {} THEN "24h" ELSE "1h"
      rows == Within(window)
  IN IF rows \cap Untraced # {}
     THEN IF window = "1h" THEN "current_missing_trace_refs" ELSE "recent_missing_trace_refs"
     ELSE IF rows # {} /\ Untraced # {} THEN "current_clean_historical_backlog"
     ELSE IF rows # {} THEN "current_clean"
     ELSE IF Untraced # {} THEN "no_recent_events_historical_backlog" ELSE "clean"

Backlog == {"current_clean_historical_backlog", "no_recent_events_historical_backlog"}
RepairScope(status) ==
  IF status = "current_missing_trace_refs" THEN "current"
  ELSE IF status = "recent_missing_trace_refs" THEN "recent_backlog"
  ELSE IF status \in Backlog THEN "historical_backlog" ELSE status

-----------------------------------------------------------------------------
(* The repair queue, from what was read: one item for each family that     *)
(* lost traces, with the state of its largest bucket.                      *)

Largest(sources, s) ==
  \A o \in sources : o.bucket[1] = s.bucket[1] => o.count <= s.count
OnePerFamily(sources) ==
  {shown \in SUBSET {s \in sources : Largest(sources, s)} :
     \A f \in {s.bucket[1] : s \in sources} : Cardinality({s \in shown : s.bucket[1] = f}) = 1}

ItemFor(s, scope) ==
  [about |-> s.bucket[1], state |-> s.state,
   priority |-> IF scope = "historical_backlog" \/ s.state # "latest_missing_trace_ref"
                THEN "medium" ELSE "high"]
JoinItem(about) == [about |-> about, state |-> "none", priority |-> "critical"]

(* With the audit of Telegram's answers that names no trace, and the traces *)
(* of the missions Spawner has taken up.                                   *)
Matched(missions) == {t \in missions : TracedTo(t) # {}}
JoinItems(keyless, missions) ==
  (IF keyless THEN {JoinItem("telegram_join")} ELSE {})
  \cup (IF missions # {} /\ Matched(missions) = {} THEN {JoinItem("spawner_join")} ELSE {})
HighItems(listed) ==
  IF listed = {} THEN {} ELSE {[about |-> "open_high", state |-> "none", priority |-> "medium"]}

(* Only the first rows get a card, of those that are equal any.            *)
First(rows, limit, Before(_, _)) ==
  {chosen \in SUBSET rows :
     /\ Cardinality(chosen) = IF Cardinality(rows) <= limit THEN Cardinality(rows) ELSE limit
     /\ \A s \in chosen, o \in rows \ chosen : ~Before(o, s)}

(* The items that lack a trace by priority, then by count; the rows of open *)
(* events by count alone, before it is asked whether they were resolved.   *)
ToMissingCards(shown, scope) ==
  LET urgent(s) == ItemFor(s, scope).priority = "high"
      before(s, o) == IF urgent(s) = urgent(o) THEN s.count > o.count ELSE urgent(s)
  IN First(shown, MissingCardLimit, before)
ToHighCards(high) ==
  LET before(s, o) == s.row.count > o.row.count
  IN First(high, HighCardLimit, before)

MissingCard(item, scope) ==
  [about |-> item.about, priority |-> item.priority, category |-> "missing_trace_ref",
   status |-> IF item.state # "latest_missing_trace_ref" THEN item.state
              ELSE IF scope \in {"current", "historical_backlog"} THEN scope ELSE "unknown"]
HighCard(s) ==
  [about |-> s.row, category |-> "open_high_severity_event",
   status |-> IF s.settled THEN "latest_resolved" ELSE "open",
   priority |-> IF s.settled THEN "medium" ELSE s.row.bucket[2]]

-----------------------------------------------------------------------------
NoReport ==
  [stage |-> "none", from |-> 0, ticked |-> FALSE, groups |-> {}, topology |-> <<>>, status |-> "clean",
   flags |-> {}, sources |-> {}, listed |-> {}, queue |-> {}, cards |-> {}]

TraceInit ==
  builderEvents = <<>> /\ traceReport = NoReport

(* Builder records an event; the parent is of this trace, of another one,  *)
(* or was lost.  A behaviour ends with its report.                         *)
Record ==
  /\ Len(builderEvents) < MaxBuilderEvents /\ traceReport.stage # "done"
  /\ \E f \in Family, k \in EventKind, t \in TraceRef \cup {NoTrace}, p \in EventRow \cup {NoParent, LostParent} :
       /\ t = NoTrace => p = NoParent
       /\ builderEvents' = Append(builderEvents, [family |-> f, kind |-> k, trace |-> t, parent |-> p, age |-> "hour"])
  /\ UNCHANGED traceReport

HoursPass ==
  /\ traceReport.stage # "done" /\ \E i \in EventRow : builderEvents[i].age # "older"
  /\ builderEvents' = [i \in EventRow |-> [builderEvents[i] EXCEPT !.age = IF @ = "hour" THEN "day" ELSE "older"]]
  /\ traceReport' = [traceReport EXCEPT !.ticked = @ \/ traceReport.stage # "none"]

(* build_trace_index starts with the trace groups ...                      *)
BeginReport ==
  /\ traceReport.stage = "none"
  /\ traceReport' = [NoReport EXCEPT !.stage = "grouped", !.from = Len(builderEvents), !.groups = TraceGroups]
  /\ UNCHANGED builderEvents

(* ... and their topology, reads the counts and the windows,               *)
ReadCounts ==
  /\ traceReport.stage = "grouped"
  /\ traceReport' =
       [traceReport EXCEPT !.stage = "counted", !.status = CurrentHealth,
                           !.topology = BatchedTopology({g.trace : g \in traceReport.groups}),
                           !.flags = IF Untraced # {} THEN {"missing_trace_refs"} ELSE {}]
  /\ UNCHANGED builderEvents

(* the buckets that lost traces and, next, the rows of open events,        *)
ReadSources ==
  /\ traceReport.stage = "counted"
  /\ traceReport' = [traceReport EXCEPT !.stage = "sourced", !.sources = MissingSources]
  /\ UNCHANGED builderEvents
ListHighSources ==
  /\ traceReport.stage = "sourced"
  /\ traceReport' = [traceReport EXCEPT !.stage = "listed", !.listed = HighRows]
  /\ UNCHANGED builderEvents

(* then the state of the family of each and the lost parents; last it      *)
(* joins the audits of Spawner and Telegram, ranks the repairs and deals   *)
(* out the cards.                                                          *)
CompileReport ==
  /\ traceReport.stage = "listed"
  /\ LET scope == RepairScope(traceReport.status)
         high == HighSources(traceReport.listed)
     IN \E shown \in OnePerFamily(traceReport.sources), keyless \in BOOLEAN,
           missions \in {{}, TraceRef}, highest \in ToHighCards(high) :
        \E missing \in ToMissingCards(shown, scope) :
          traceReport' =
            [traceReport EXCEPT
              !.stage = "done", !.sources = {}, !.listed = {},
              !.flags = @ \cup HighFlag(high)
                          \cup (IF Orphaned # {} THEN {"orphan_parent_event_ids"} ELSE {}),
              !.queue = {ItemFor(s, scope) : s \in shown} \cup JoinItems(keyless, missions)
                          \cup HighItems(traceReport.listed),
              !.cards = {MissingCard(ItemFor(s, scope), scope) : s \in missing}
                          \cup {HighCard(s) : s \in highest}]
  /\ UNCHANGED builderEvents

TraceNext ==
  \/ Record \/ HoursPass
  \/ BeginReport \/ ReadCounts \/ ReadSources \/ ListHighSources \/ CompileReport

TraceSpec == TraceInit /\ [][TraceNext]_trace_vars

-----------------------------------------------------------------------------
TraceTypeOK ==
  /\ builderEvents \in Seq(BuilderEvent)
  /\ traceReport.stage \in {"none", "grouped", "counted", "sourced", "listed", "done"}
  /\ \A item \in traceReport.queue : item.priority \in {"critical", "high", "medium"}

(* Nothing of family f was recorded since the report began, and no event   *)
(* has left a window.                                                      *)
Undisturbed(f) == ~traceReport.ticked /\ \A i \in OfFamily(f) : i <= traceReport.from
Broken(f) == OfFamily(f) \cap HighOpen # {} /\ ~Settled(f)

HighCards == {c \in traceReport.cards : c.category = "open_high_severity_event"}

(* The word the R30 gate takes (cli.py, r30_builder_trace_lifecycle): a    *)
(* family that is open and was open today keeps the flag "open", however   *)
(* many others change during the read; no flag stands when every family    *)
(* was settled all the time.  Each open row of such a family has an open   *)
(* card, unless rows of no fewer events took all the cards there are; and  *)
(* its card is never one of a resolved family.                             *)
OpenFamiliesAreFlagged ==
  /\ \A f \in Family : Undisturbed(f) /\ Broken(f) =>
       /\ OpenToday(f) => "open_high_severity_events" \in traceReport.flags
       /\ traceReport.flags \cap {"open_high_severity_events", "historical_open_high_severity_events"} # {}
       /\ \A i \in OfFamily(f) \cap HighOpen :
            \/ \E c \in HighCards : c.about.bucket = Bucket(i) /\ c.status = "open"
            \/ Cardinality({c \in HighCards : c.about.count >= Cardinality(InBucket(Bucket(i)))}) = HighCardLimit
  /\ \A f \in Family, c \in HighCards : Undisturbed(f) /\ c.about.bucket[1] = f =>
       c.status = IF Broken(f) THEN "open" ELSE "latest_resolved"
  /\ (\A f \in Family : Undisturbed(f) /\ ~(Broken(f) /\ OpenToday(f))) =>
       "open_high_severity_events" \notin traceReport.flags

(* The buckets of a family that lost traces, and those whose newest event  *)
(* did within a window.                                                    *)
LostBuckets(f) == {b \in {Bucket(i) : i \in OfFamily(f)} : InBucket(b) \cap Untraced # {}}
LostLast(f, window) == {b \in LostBuckets(f) : Max(InBucket(b)) \in Untraced \cap Within(window)}

(* A producer that lost traces is in the queue; one that has them again is *)
(* never asked for a patch, and one that lost the last of each kind within *)
(* the hour always is.                                                     *)
LostTracesAreRanked ==
  \A f \in Family : Undisturbed(f) =>
    LET item == {i \in traceReport.queue : i.about = f}
    IN /\ (LostBuckets(f) # {}) <=> (Cardinality(item) = 1)
       /\ \A i \in item : /\ i.priority = "high" => LostLast(f, "24h") # {}
                          /\ i.priority = "medium" => LostBuckets(f) # LostLast(f, "1h")

(* The newest trace is shown, none of its events is missing from the       *)
(* topology, and the single pass over all the traces gives each what its   *)
(* own queries would.                                                      *)
TopologyIsWhole ==
  /\ \A g \in traceReport.groups :
       LET t == traceReport.topology[g.trace]
       IN /\ t.roots + t.links >= g.count
          /\ (\A i \in TracedTo(g.trace) : i <= traceReport.from) =>
               t = Topology(g.trace) /\ t.roots + t.links = g.count
  /\ BatchedTopology(TraceRef) = [t \in TraceRef |-> Topology(t)]

(* What a finished report says of Builder's events is so, although they    *)
(* were read one statement after the other.                                *)
TraceReportIsTrue ==
  traceReport.stage = "done" => OpenFamiliesAreFlagged /\ LostTracesAreRanked /\ TopologyIsWhole

-----------------------------------------------------------------------------
(* The inductive invariant behind the theorem: later events are younger,   *)
(* and what has been read of a family is so as long as nothing is recorded *)
(* of it and no event leaves a window.                                     *)
LaterIsYounger ==
  \A i, j \in EventRow : i <= j =>
    /\ builderEvents[i].age = "hour" => builderEvents[j].age = "hour"
    /\ builderEvents[i].age # "older" => builderEvents[j].age # "older"

SourcesOf(f, sources) == {s \in sources : s.bucket[1] = f}
LostOf(f, window) == OfFamily(f) \cap Untraced \cap Within(window)

ReadOfFamily(f) ==
  /\ traceReport.stage \in {"counted", "sourced", "listed"} /\ traceReport.status \in Backlog =>
       LostOf(f, "1h") = {}
  /\ traceReport.stage \in {"sourced", "listed"} =>
       SourcesOf(f, traceReport.sources) = SourcesOf(f, MissingSources)
  /\ traceReport.stage = "listed" => SourcesOf(f, traceReport.listed) = SourcesOf(f, HighRows)

ReportTyped ==
  /\ DOMAIN traceReport = DOMAIN NoReport
  /\ traceReport.stage \in {"none", "grouped", "counted", "sourced", "listed", "done"}
  /\ traceReport.from \in 0..Len(builderEvents)
  /\ traceReport.status \in
       {"current_missing_trace_refs", "recent_missing_trace_refs", "current_clean", "clean"} \cup Backlog
  /\ traceReport.stage # "done" => traceReport.flags \subseteq {"missing_trace_refs"}
  /\ IsFiniteSet(traceReport.sources) /\ IsFiniteSet(traceReport.listed)
  /\ traceReport.listed \subseteq [bucket : Family \X HighKind, count : Nat]

TraceIInv ==
  /\ builderEvents \in Seq(BuilderEvent) /\ LaterIsYounger /\ ReportTyped
  /\ \A f \in Family : Undisturbed(f) => ReadOfFamily(f)
  /\ traceReport.stage = "done" => OpenFamiliesAreFlagged /\ LostTracesAreRanked

(* And behind the one about the topology: a parent is an earlier event or  *)
(* lost for good, and the topology is that of the rows up to some moment   *)
(* between the begin of the report and now.                                *)
ParentsAreEarlier ==
  /\ Len(builderEvents) <= MaxBuilderEvents
  /\ \A i \in EventRow : builderEvents[i].parent < i \/ builderEvents[i].parent = LostParent

TracedUpTo(t, n) == TracedTo(t) \cap 1..n

TopologyIInv ==
  /\ ParentsAreEarlier
  /\ \A g \in traceReport.groups :
       g.trace \in TraceRef /\ g.count = Cardinality(TracedUpTo(g.trace, traceReport.from))
  /\ traceReport.stage \notin {"none", "grouped"} =>
       \E n \in traceReport.from..Len(builderEvents) :
         traceReport.topology = [t \in {g.trace : g \in traceReport.groups} |-> TopologyOf(TracedUpTo(t, n))]

=============================================================================
