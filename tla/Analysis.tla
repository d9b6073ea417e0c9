------------------------------ MODULE Analysis ------------------------------
(***************************************************************************)
(* The life of an analysis: the loop over the trace (cli/command.py:347-   *)
(* 369), the base class of the analyses (core/analysis.py) around the      *)
(* period engine, and the notifications of the automaton's state           *)
(* (linuxautomaton/automaton.py:46-62).                                    *)
(*                                                                         *)
(* An open period owns a period data object, which the state provider's    *)
(* notifications feed.  The model gives each event one notification, and   *)
(* a period data object is the set of the events it was notified of.  The  *)
(* period made without a definition is the path of a single instance of    *)
(* NoDef; whether a refresh begins it tells it from the one that the same   *)
(* event begins, and a refresh period of 0 ends at once.                   *)
(***************************************************************************)
EXTENDS PeriodEngine

CONSTANTS NoTs,           \* a timestamp which is None
          Confs           \* the configurations: refresh period, dates, registry,
                          \* with the bounds of their traces: events, last date

ASSUME ConfsAssumption ==
    /\ NoTs \notin Nat
    /\ Confs \subseteq [refresh : Nat \cup {NoTs},
                        begin   : Nat \cup {NoTs},
                        end     : Nat \cup {NoTs},
                        defs    : SUBSET Defs,
                        events  : 0 .. MaxEvents,
                        last    : Nat]

\* --refresh and --period are refused together.
ASSUME RefreshAssumption == \A c \in Confs : c.refresh # NoTs => c.defs = {}

VARIABLES conf,           \* AnalysisConfig
          pc,             \* where the loop over the events is
          stamp,          \* timestamps of the events read so far
          started,
          lastTs,         \* _last_event_ts
          data,           \* _period_data: what each period was notified of
          registered,     \* periods whose call backs the state holds
          ticks           \* history: the ticks sent to the command

loopVars     == <<conf, pc, stamp, started, lastTs>>
dataVars     == <<data, registered, ticks>>
analysisVars == <<engineVars, loopVars, dataVars>>

RegistryEmpty == conf.defs = {}
Truthy(ts)    == ts # NoTs /\ ts # 0        \* `if conf.begin_ts:`
Current       == Len(stamp)                \* number of the event being read
Now           == stamp[Current]
Defless(n, refreshed) == <<[def |-> NoDef, begin |-> n, refreshed |-> refreshed]>>
NoData        == [p \in {} |-> {}]
IsDefless(p)  == DefOf(p) = NoDef
DeflessPeriods == {p \in DOMAIN data : IsDefless(p)}

-----------------------------------------------------------------------------
\* _on_period_begin() on the data d: fresh data, registered for notifications.
WithPeriod(d, p)    == [q \in DOMAIN d \cup {p} |-> IF q = p THEN {} ELSE d[q]]
WithoutPeriod(d, p) == [q \in DOMAIN d \ {p} |-> d[q]]

OnPeriodBegin(p) ==
    /\ data' = WithPeriod(data, p)
    /\ registered' = registered \cup {p}
    /\ UNCHANGED ticks

\* What the tick of period p reports, ended by event e (None: NoEvent).
Tick(p, e) == [period |-> p, end |-> e, at |-> lastTs, counted |-> data[p]]

\* Mutants: the call backs stay registered; a period which is aborted is not
\* reported.
OnPeriodEndLeaks(p, e) ==
    /\ ticks' = Append(ticks, Tick(p, e))
    /\ data' = WithoutPeriod(data, p)
    /\ UNCHANGED registered

OnPeriodCompleted(p, e) ==
    /\ ticks' = IF p \in matched THEN Append(ticks, Tick(p, e)) ELSE ticks
    /\ registered' = registered \ {p}
    /\ data' = WithoutPeriod(data, p)

\* _on_period_end(): tick, then clear the call backs and the data.
OnPeriodEnd(p, e) ==
    /\ ticks' = Append(ticks, Tick(p, e))
    /\ registered' = registered \ {p}
    /\ data' = WithoutPeriod(data, p)

-----------------------------------------------------------------------------
Init ==
    /\ EngineInit
    /\ conf \in Confs
    /\ pc = "read"
    /\ stamp = << >>
    /\ started = FALSE
    /\ lastTs = NoTs
    /\ data = NoData
    /\ registered = {}
    /\ ticks = << >>

\* The loop takes the next event of the trace; the first one begins the
\* analysis, before it is processed.
ReadEvent(ts) ==
    /\ pc = "read"
    /\ Current < conf.events
    /\ \A i \in DOMAIN stamp : stamp[i] <= ts
    /\ stamp' = Append(stamp, ts)
    /\ pc' = "event"
    /\ IF stamp = << >> /\ RegistryEmpty /\ conf.begin = NoTs
         THEN OnPeriodBegin(Defless(1, FALSE))
         ELSE UNCHANGED dataVars
    /\ UNCHANGED <<engineVars, conf, started, lastTs>>

\* The trace is exhausted.
NoMoreEvents ==
    /\ pc = "read"
    /\ pc' = "finish"
    /\ UNCHANGED <<engineVars, conf, stamp, started, lastTs, dataVars>>

\* Mutant: the end date only counts once the analysis has started.
PastEndStarted == started /\ Truthy(conf.end) /\ Now > conf.end

PastEnd     == Truthy(conf.end) /\ Now > conf.end
BeforeBegin == ~started /\ Truthy(conf.begin) /\ Now < conf.begin

\* process_event(): the event is after the end date, the loop stops.
EventPastEnd ==
    /\ pc = "event"
    /\ PastEnd
    /\ pc' = "finish"
    /\ UNCHANGED <<engineVars, conf, stamp, started, lastTs, dataVars>>

\* process_event(): the event is before the begin date, only the automaton
\* sees it.
EventBeforeBegin ==
    /\ pc = "event"
    /\ ~PastEnd
    /\ BeforeBegin
    /\ SkipEvent
    /\ lastTs' = Now
    /\ pc' = "automaton"
    /\ UNCHANGED <<conf, stamp, started, dataVars>>

\* process_event(): start the analysis if needed, then run the period engine.
Analyse(M) ==
    /\ pc = "event"
    /\ ~PastEnd
    /\ ~BeforeBegin
    /\ lastTs' = Now
    /\ started' = TRUE
    /\ IF ~started /\ Truthy(conf.begin)
         THEN OnPeriodBegin(Defless(Current, FALSE))
         ELSE UNCHANGED dataVars
    /\ ProcessEvent(M)
    /\ pc' = "engine"
    /\ UNCHANGED <<conf, stamp>>

\* The call backs of the period engine, for an event or at the end.
PeriodEnds(p) ==
    /\ pc \in {"engine", "closing"}
    /\ EndPeriod(p)
    /\ OnPeriodEnd(p, IF pc = "engine" THEN evt ELSE NoEvent)
    /\ UNCHANGED loopVars

PeriodBegins(d, p) ==
    /\ pc = "engine"
    /\ BeginPeriod(d, p)
    /\ OnPeriodBegin(Append(p, [def |-> d, begin |-> evt]))
    /\ UNCHANGED loopVars

EndingReturns ==
    /\ pc = "engine"
    /\ EndingDone
    /\ UNCHANGED <<loopVars, dataVars>>

EngineReturns ==
    /\ pc = "engine"
    /\ EventDone
    /\ pc' = "refresh"
    /\ UNCHANGED <<conf, stamp, started, lastTs, dataVars>>

\* Mutant: the period must have lasted more than the refresh period.
RefreshOverdue == {p \in DeflessPeriods :
                     /\ conf.refresh # NoTs
                     /\ Now > stamp[BeginOf(p)] + conf.refresh}

\* The period that has lasted at least the refresh period, if any.
RefreshDue == {p \in DeflessPeriods :
                 /\ conf.refresh # NoTs
                 /\ Now >= stamp[BeginOf(p)] + conf.refresh}

\* _check_refresh() has nothing to do.
KeepPeriod ==
    /\ pc = "refresh"
    /\ RefreshDue = {}
    /\ conf.refresh # NoTs => DeflessPeriods # {}
    /\ pc' = "automaton"
    /\ UNCHANGED <<engineVars, conf, stamp, started, lastTs, dataVars>>

\* _check_refresh(): the event ends the period and begins the next one.
RefreshPeriod ==
    /\ pc = "refresh"
    /\ \E p \in RefreshDue :
         /\ ticks' = Append(ticks, Tick(p, evt))
         /\ registered' = (registered \ {p}) \cup {Defless(evt, TRUE)}
         /\ data' = WithPeriod(WithoutPeriod(data, p), Defless(evt, TRUE))
    /\ pc' = "automaton"
    /\ UNCHANGED <<engineVars, conf, stamp, started, lastTs>>

\* _check_refresh() without a period: period.begin_evt of None.
RefreshCrashes ==
    /\ pc = "refresh"
    /\ conf.refresh # NoTs
    /\ DeflessPeriods = {}
    /\ pc' = "crashed"
    /\ UNCHANGED <<engineVars, conf, stamp, started, lastTs, dataVars>>

\* Mutant: a period misses the event which begins it.
AutomatonFirst ==
    /\ pc = "automaton"
    /\ data' = [p \in DOMAIN data |->
                  IF p \in registered /\ BeginOf(p) # evt THEN data[p] \cup {evt}
                                                         ELSE data[p]]
    /\ pc' = "read"
    /\ UNCHANGED <<engineVars, conf, stamp, started, lastTs, registered, ticks>>

\* automaton.process_event(): the state notifies the registered period data.
Automaton ==
    /\ pc = "automaton"
    /\ data' = [p \in DOMAIN data |->
                  IF p \in registered THEN data[p] \cup {evt} ELSE data[p]]
    /\ pc' = "read"
    /\ UNCHANGED <<engineVars, conf, stamp, started, lastTs, registered, ticks>>

\* end_analysis() without definitions: the last period ends.
EndDeflessPeriod ==
    /\ pc = "finish"
    /\ RegistryEmpty
    /\ \/ \E p \in DOMAIN data : OnPeriodEnd(p, NoEvent)
       \/ DOMAIN data = {} /\ UNCHANGED dataVars
    /\ pc' = "done"
    /\ UNCHANGED <<engineVars, conf, stamp, started, lastTs>>

\* end_analysis() with definitions: the engine removes every period, then
\* the map is cleared.
EndAllPeriods ==
    /\ pc = "finish"
    /\ ~RegistryEmpty
    /\ RemoveAllPeriods
    /\ pc' = "closing"
    /\ UNCHANGED <<conf, stamp, started, lastTs, dataVars>>

EngineClosed ==
    /\ pc = "closing"
    /\ RemovalDone
    /\ data' = NoData
    /\ pc' = "done"
    /\ UNCHANGED <<conf, stamp, started, lastTs, registered, ticks>>

Next ==
    \/ \E ts \in 0 .. conf.last : ReadEvent(ts)
    \/ NoMoreEvents
    \/ EventPastEnd
    \/ EventBeforeBegin
    \/ \E M \in SUBSET periods : Analyse(M)
    \/ \E p \in dying : PeriodEnds(p)
    \/ \E d \in conf.defs, p \in periods \cup {Root} : PeriodBegins(d, p)
    \/ EndingReturns
    \/ EngineReturns
    \/ KeepPeriod
    \/ RefreshPeriod
    \/ RefreshCrashes
    \/ Automaton
    \/ EndDeflessPeriod
    \/ EndAllPeriods
    \/ EngineClosed

Spec == Init /\ [][Next]_analysisVars

-----------------------------------------------------------------------------
\* A notification reaches the data of every live period and of no other: the
\* registered call backs, the period data and the engine's periods agree
\* (core/analysis.py:151-189, linuxautomaton/automaton.py:46-62).  None is
\* left once the analysis is done, but the call backs of a period that a begin
\* date begins although there are definitions.
DataMatchesPeriods ==
    /\ pc = "done" => data = NoData /\ \A p \in registered : IsDefless(p) /\ ~RegistryEmpty
    /\ pc \notin {"done", "crashed"} =>
        /\ DOMAIN data \ DeflessPeriods = periods \ DeflessPeriods
        /\ {p \in periods : IsDefless(p)} = {}
        /\ registered = DOMAIN data

\* The data reported for a period is fed by exactly the events of its
\* half-open interval: its begin event counts, its end event does not, in
\* whichever order the engine, the refresh and the automaton see them.
TickCountsItsInterval ==
    \A i \in DOMAIN ticks :
        LET t == ticks[i] IN
        t.counted = {e \in 1 .. evt :
                       /\ BeginOf(t.period) <= e
                       /\ t.end # NoEvent => e < t.end}

\* A period is reported once; when the analysis is done every period the
\* engine ended has been reported, with the same end event.
EveryPeriodTicksOnce ==
    /\ \A i, j \in DOMAIN ticks : ticks[i].period = ticks[j].period => i = j
    /\ pc = "done" =>
         {<<r.period, r.end>> : r \in ended} \subseteq
             {<<ticks[i].period, ticks[i].end>> : i \in DOMAIN ticks}

\* With a refresh period the reported periods tile the analysed events: each
\* begins with the event which ended the previous one, lasts at least the
\* refresh period if another one follows, and counts no event that is a
\* refresh period or more after its beginning.
RefreshPeriodsTile ==
    conf.refresh # NoTs =>
        \A i \in DOMAIN ticks :
            LET begin == stamp[BeginOf(ticks[i].period)] IN
            /\ i > 1 => ticks[i - 1].end = BeginOf(ticks[i].period)
            /\ ticks[i].end # NoEvent =>
                 stamp[ticks[i].end] >= begin + conf.refresh
            /\ \A e \in ticks[i].counted :
                 e = BeginOf(ticks[i].period) \/ stamp[e] < begin + conf.refresh

\* Nothing outside the dates of --begin, --end or --timerange is counted, and
\* a period is reported with an end date inside them.
InsideTimeRange ==
    \A i \in DOMAIN ticks :
        /\ \A e \in ticks[i].counted :
             /\ Truthy(conf.begin) => stamp[e] >= conf.begin
             /\ Truthy(conf.end) => stamp[e] <= conf.end
        /\ (Truthy(conf.end) /\ ticks[i].at # NoTs) => ticks[i].at <= conf.end

=============================================================================
