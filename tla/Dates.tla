------------------------------- MODULE Dates -------------------------------
(***************************************************************************)
(* Dates, durations and versions on the command line                       *)
(* (common/parse_utils.py, trace_utils.py, version_utils.py), and the      *)
(* timestamps that the reports print (common/format_utils.py:116-177).     *)
(*                                                                         *)
(* Days have SecPerDay seconds and seconds NsPerSec nanoseconds.  A date   *)
(* of the user is [form, day, sec, nsec]: which pattern it has, and its    *)
(* fields; sec may be past the end of the day, as in 25:00:00.  Day 0      *)
(* begins at the epoch.  The result of a parser is a set: empty when it    *)
(* raises ValueError.                                                      *)
(***************************************************************************)
EXTENDS Integers, Sequences, SequencesExt

CONSTANTS NsPerSec, SecPerDay,
          Timezone,       \* seconds west of Greenwich (time.timezone)
          Summer,         \* seconds since the epoch with summer time,
          Saving,         \*   and by how much it shifts the clocks
          NoDate          \* None

ASSUME ScaleAssumption == {NsPerSec, SecPerDay} \subseteq Nat \ {0}
ASSUME TimezoneAssumption == Timezone \in Int /\ Saving \in Int /\ NoDate \notin Int

\* time.localtime() and datetime.fromtimestamp(), in seconds.
ToLocal(sec) == sec - Timezone + (IF sec \in Summer THEN Saving ELSE 0)

\* The instants of a local time: two when the clocks were put back to it, none
\* when they were put forward over it.
Guesses(at)  == {at + Timezone, at + Timezone - Saving}
Instants(at) == {sec \in Guesses(at) : ToLocal(sec) = at}

\* datetime.timestamp(): fold tells which of two (PEP 495).
ToEpoch(at, fold) ==
    IF Instants(at) = {}
      THEN IF fold = 0 THEN Max(Guesses(at)) ELSE Min(Guesses(at))
      ELSE IF fold = 0 THEN Min(Instants(at)) ELSE Max(Instants(at))

DateTime(at, nsec, fold) == [of |-> "datetime", at |-> at, nsec |-> nsec, fold |-> fold]
TimeOfDay(at, nsec) == [of |-> "time", at |-> at, nsec |-> nsec]

ParseFullWithNsec(d) ==
    IF d.form = "full_ns" /\ d.sec < SecPerDay
      THEN {DateTime(d.day * SecPerDay + d.sec, d.nsec, 0)} ELSE {}

ParseFull(d) ==
    IF d.form = "full" /\ d.sec < SecPerDay
      THEN {DateTime(d.day * SecPerDay + d.sec, 0, 0)} ELSE {}

ParseTimeWithNsec(d) ==
    IF d.form = "time_ns" /\ d.sec < SecPerDay
      THEN {TimeOfDay(d.sec, d.nsec)} ELSE {}

ParseTime(d) ==
    IF d.form = "time" /\ d.sec < SecPerDay THEN {TimeOfDay(d.sec, 0)} ELSE {}

\* A number of nanoseconds since the epoch.  fromtimestamp() tells by the fold
\* which instant of the local time it is.
ParseTimestamp(d) ==
    LET sec == d.day * SecPerDay + d.sec
    IN IF d.form = "timestamp"
         THEN {DateTime(ToLocal(sec), d.nsec, IF sec = ToEpoch(ToLocal(sec), 0) THEN 0 ELSE 1)}
         ELSE {}

\* The result of the first parser which does not raise.
FirstMatch(results) ==
    LET matches == {i \in DOMAIN results : results[i] # {}}
    IN IF matches = {} THEN {} ELSE results[CHOOSE i \in matches : \A j \in matches : i <= j]

ParseDate(d) ==
    FirstMatch(<<ParseFullWithNsec(d), ParseFull(d), ParseTimeWithNsec(d),
                 ParseTime(d), ParseTimestamp(d)>>)

-----------------------------------------------------------------------------
(* The trace: [begin, end, handles]; begin and end are None before         *)
(* Babeltrace 1.3.3, each handle is a trace <<begin, end>>.                *)

LocalDay(ns) == ToLocal(ns \div NsPerSec) \div SecPerDay

OldBabeltrace(trace) == NoDate \in {trace.begin, trace.end}

\* Every end is compared with the beginning of the first handle.
IsMultiDayOld(trace) ==
    \E i \in DOMAIN trace.handles :
        LocalDay(trace.handles[i][2]) # LocalDay(trace.handles[1][1])

IsMultiDay(trace) ==
    IF OldBabeltrace(trace) THEN IsMultiDayOld(trace)
    ELSE LocalDay(trace.begin) # LocalDay(trace.end)

\* The day of a time of day; with an old Babeltrace, None is divided.
TraceDate(trace) ==
    IF IsMultiDay(trace) THEN [error |-> "value"]
    ELSE IF OldBabeltrace(trace) THEN [error |-> "type"]
    ELSE [error |-> "none", day |-> LocalDay(trace.begin)]

Stamp(sec, nsec) == [error |-> "none", ns |-> sec * NsPerSec + nsec]

\* Mutant: a date in the local timezone is taken for one of Greenwich.
ParseTraceDateUtc(trace, d, gmt) ==
    IF ParseDate(d) = {} THEN [error |-> "value"]
    ELSE LET p   == CHOOSE r \in ParseDate(d) : TRUE
             day == TraceDate(trace)
         IN IF p.of = "datetime" THEN Stamp(p.at, p.nsec)
            ELSE IF day.error # "none" THEN day
            ELSE Stamp(day.day * SecPerDay + p.at, p.nsec)

\* parse_trace_collection_date(): an error, or nanoseconds since the epoch.
\* With --gmt the timezone is added, and the sum has no fold.
ParseTraceDate(trace, d, gmt) ==
    IF ParseDate(d) = {} THEN [error |-> "value"]
    ELSE LET p   == CHOOSE r \in ParseDate(d) : TRUE
             day == TraceDate(trace)
             Epoch(at, fold) == IF gmt THEN ToEpoch(at + Timezone, 0) ELSE ToEpoch(at, fold)
         IN IF p.of = "datetime" THEN Stamp(Epoch(p.at, p.fold), p.nsec)
            ELSE IF day.error # "none" THEN day
            ELSE Stamp(Epoch(day.day * SecPerDay + p.at, 0), p.nsec)

\* Two dates, or the first error.
FromTo(b, e) ==
    IF b.error # "none" THEN b
    ELSE IF e.error # "none" THEN e
    ELSE [error |-> "none", begin |-> b.ns, end |-> e.ns]

\* parse_trace_collection_time_range(): "[begin,end]".
ParseTimeRange(trace, range, gmt) ==
    IF range.form # "range" THEN [error |-> "value"]
    ELSE FromTo(ParseTraceDate(trace, range.begin, gmt), ParseTraceDate(trace, range.end, gmt))

\* format_timestamp(), as the date it prints.
FormatTimestamp(ns, printDate, gmt) ==
    LET sec == IF gmt THEN ns \div NsPerSec ELSE ToLocal(ns \div NsPerSec)
    IN [form |-> IF printDate THEN "full_ns" ELSE "time_ns",
        day  |-> IF printDate THEN sec \div SecPerDay ELSE 0,
        sec  |-> sec % SecPerDay,
        nsec |-> ns % NsPerSec]

\* format_time_range()
FormatTimeRange(begin, end, printDate, gmt) ==
    [form |-> "range", begin |-> FormatTimestamp(begin, printDate, gmt),
                       end   |-> FormatTimestamp(end, printDate, gmt)]

-----------------------------------------------------------------------------
(* Durations and versions.                                                 *)

Units == <<"ns", "us", "ms", "s">>

\* parse_duration() of [value, unit] with Base of each unit to the next;
\* no unit is seconds.  The set is empty when it raises.
ParseDuration(d, Base) ==
    LET unit == IF d.unit = "none" THEN "s" ELSE d.unit
    IN IF d.value \notin Int \/ unit \notin ToSet(Units) THEN {}
       ELSE {d.value * Base ^ ((CHOOSE i \in DOMAIN Units : Units[i] = unit) - 1)}

\* Versions are <<major, minor, patch>>; what has another form is 0.0.0.
VersionOf(text) == IF Len(text) >= 3 THEN SubSeq(text, 1, 3) ELSE <<0, 0, 0>>

VersionLess(v, w) ==
    \/ v[1] < w[1]
    \/ v[1] = w[1] /\ v[2] < w[2]
    \/ v[1] = w[1] /\ v[2] = w[2] /\ v[3] < w[3]
=============================================================================
