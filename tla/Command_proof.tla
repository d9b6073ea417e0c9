---------------------------- MODULE Command_proof ---------------------------
(***************************************************************************)
(* What a command prints.                                                  *)
(*                                                                         *)
(* The values: a date that a report printed is read back as the first that *)
(* is printed so, and a value between the bounds of a histogram is counted, in the bucket whose *)
(* bounds are on both sides of it; the bounds that the program computes    *)
(* have all the values between them, those that --freq-uniform shares too. *)
(*                                                                         *)
(* Then the life of a command, for any set of runs: every step either goes *)
(* on, and tells no error, or ends the command, and tells an error if and  *)
(* only if the status is not 0; the dates of a command that goes on are    *)
(* those of its arguments; the progress that is shown is never more than   *)
(* what was read.                                                          *)
(***************************************************************************)
EXTENDS Command, DataTheorems

-----------------------------------------------------------------------------
(* The values that the reports print.                                      *)

LEMMA Division ==
  ASSUME NEW x \in Int, NEW n \in Nat \ {0}
  PROVE  /\ x \div n \in Int
         /\ x % n \in 0 .. n - 1
         /\ x = (x \div n) * n + (x % n)
  BY SMT

\* The quotient is monotonic.
LEMMA DivisionIsMonotonic ==
  ASSUME NEW x \in Int, NEW y \in Int, NEW n \in Nat \ {0}, x <= y
  PROVE  x \div n <= y \div n
<1> DEFINE p == x \div n
           q == y \div n
           r == x % n
           s == y % n
<1>1. /\ p \in Int /\ q \in Int /\ r \in 0 .. n - 1 /\ s \in 0 .. n - 1
      /\ x = p * n + r /\ y = q * n + s
  BY Division
<1> HIDE DEF p, q, r, s
<1>2. ASSUME q < p PROVE FALSE
  <2>1. (q + 1) * n <= p * n
    BY <1>1, <1>2, SMTT(30)
  <2>2. (q + 1) * n = q * n + n
    BY <1>1, SMTT(30)
  <2>3. p * n \in Int /\ q * n \in Int
    BY <1>1, SMT
  <2> QED
    BY <1>1, <2>1, <2>2, <2>3, SMTT(30)
<1>3. p <= q
  BY <1>1, <1>2, SMT
<1> QED
  BY <1>3 DEF p, q

\* Quotient and remainder are unique.
LEMMA DivisionIsUnique ==
  ASSUME NEW q \in Int, NEW n \in Nat \ {0}, NEW r \in 0 .. n - 1
  PROVE  (q * n + r) \div n = q /\ (q * n + r) % n = r
<1> DEFINE x == q * n + r
           p == x \div n
           m == x % n
<1>0. n \in Int /\ n > 0 /\ r \in Int /\ 0 <= r /\ r < n
  BY SMT
<1>1. q * n \in Int /\ x \in Int
  BY <1>0, SMT
<1>2. p \in Int /\ m \in 0 .. n - 1 /\ x = p * n + m
  BY <1>1, Division
<1> HIDE DEF p, m
<1>3. m \in Int /\ 0 <= m /\ m < n /\ p * n \in Int /\ q * n + r = p * n + m
  BY <1>0, <1>2, SMT
<1>4. ASSUME p < q PROVE FALSE
  <2>1. (p + 1) * n <= q * n /\ (p + 1) * n = p * n + n
    BY <1>0, <1>2, <1>4, SMTT(30)
  <2> QED
    BY <1>0, <1>1, <1>3, <2>1, SMT
<1>5. ASSUME q < p PROVE FALSE
  <2>1. (q + 1) * n <= p * n /\ (q + 1) * n = q * n + n
    BY <1>0, <1>2, <1>5, SMTT(30)
  <2> QED
    BY <1>0, <1>1, <1>3, <2>1, SMT
<1>6. p = q
  BY <1>2, <1>4, <1>5, SMT
<1>7. m = r
  BY <1>0, <1>1, <1>3, <1>6, SMT
<1> QED
  BY <1>6, <1>7 DEF p, m

LEMMA ZoneTypes == /\ NsPerSec \in Nat \ {0} /\ SecPerDay \in Nat \ {0}
                   /\ Timezone \in Int /\ Saving \in Int /\ NoDate \notin Int
  BY ScaleAssumption, TimezoneAssumption

\* The instants of a local time are all that have it.
LEMMA InstantsOf ==
  ASSUME NEW at \in Int
  PROVE  /\ Guesses(at) # {} /\ IsFiniteSet(Guesses(at)) /\ \A sec \in Guesses(at) : sec \in Int
         /\ IsFiniteSet(Instants(at)) /\ \A sec \in Instants(at) : sec \in Int
         /\ \A sec \in Int : sec \in Instants(at) <=> ToLocal(sec) = at
<1>1. Timezone \in Int /\ Saving \in Int
  BY ZoneTypes
<1>2. Guesses(at) # {} /\ \A sec \in Guesses(at) : sec \in Int
  BY <1>1 DEF Guesses
<1>3. IsFiniteSet(Guesses(at))
  <2>1. Guesses(at) = {at + Timezone} \cup {at + Timezone - Saving}
    BY DEF Guesses
  <2>2. IsFiniteSet({at + Timezone}) /\ IsFiniteSet({at + Timezone - Saving})
    BY FS_Singleton
  <2>3. IsFiniteSet({at + Timezone} \cup {at + Timezone - Saving})
    BY <2>2, FS_Union
  <2> QED
    BY <2>1, <2>3
<1>4. Instants(at) \subseteq Guesses(at)
  BY DEF Instants
<1>5. IsFiniteSet(Instants(at))
  BY <1>3, <1>4, FS_Subset
<1>6. ASSUME NEW sec \in Int, ToLocal(sec) = at PROVE sec \in Guesses(at)
  BY <1>1, <1>6 DEF ToLocal, Guesses
<1>7. \A sec \in Int : sec \in Instants(at) <=> ToLocal(sec) = at
  BY <1>6 DEF Instants
<1> QED
  BY <1>2, <1>3, <1>4, <1>5, <1>7

\* A local time is read as one of its instants, the first one without a fold.
LEMMA ReadLocal ==
  ASSUME NEW at \in Int, NEW fold
  PROVE  /\ ToEpoch(at, fold) \in Int
         /\ \A sec \in Int : ToLocal(sec) = at =>
               ToLocal(ToEpoch(at, fold)) = at /\ ToEpoch(at, 0) <= sec
<1>1. /\ Guesses(at) # {} /\ IsFiniteSet(Guesses(at)) /\ \A sec \in Guesses(at) : sec \in Int
      /\ IsFiniteSet(Instants(at)) /\ \A sec \in Instants(at) : sec \in Int
      /\ \A sec \in Int : sec \in Instants(at) <=> ToLocal(sec) = at
  BY InstantsOf
<1>2. Min(Guesses(at)) \in Guesses(at) /\ Max(Guesses(at)) \in Guesses(at)
  BY <1>1, LeastAndGreatest
<1>3. CASE Instants(at) = {}
  BY <1>1, <1>2, <1>3 DEF ToEpoch
<1>4. CASE Instants(at) # {}
  <2>1. /\ Min(Instants(at)) \in Instants(at) /\ Max(Instants(at)) \in Instants(at)
        /\ \A sec \in Instants(at) : Min(Instants(at)) <= sec
    BY <1>1, <1>4, LeastAndGreatest
  <2>2. ToEpoch(at, 0) = Min(Instants(at)) /\ ToEpoch(at, fold) \in Instants(at)
    BY <1>4, <2>1 DEF ToEpoch
  <2> QED
    BY <1>1, <2>1, <2>2
<1> QED
  BY <1>3, <1>4

\* The forms exclude each other: only one parser does not raise.
LEMMA OnlyMatch ==
  ASSUME NEW results, NEW n \in Int, {i \in DOMAIN results : results[i] # {}} = {n}
  PROVE  FirstMatch(results) = results[n]
<1> DEFINE matches == {i \in DOMAIN results : results[i] # {}}
           first   == CHOOSE i \in matches : \A j \in matches : i <= j
<1>1. FirstMatch(results) = IF matches = {} THEN {} ELSE results[first]
  BY DEF FirstMatch
<1>2. matches = {n}
  OBVIOUS
<1> HIDE DEF matches
<1>3. first = n
  BY <1>2, SMT
<1> HIDE DEF first
<1> QED
  BY <1>1, <1>2, <1>3

\* A date of each of the two forms that the reports print.
LEMMA PrintedDates ==
  ASSUME NEW day \in Int, NEW sec \in 0 .. SecPerDay - 1, NEW nsec \in Int
  PROVE  /\ ParseDate([form |-> "full_ns", day |-> day, sec |-> sec, nsec |-> nsec])
               = {DateTime(day * SecPerDay + sec, nsec, 0)}
         /\ ParseDate([form |-> "time_ns", day |-> day, sec |-> sec, nsec |-> nsec])
               = {TimeOfDay(sec, nsec)}
<1> DEFINE d == [form |-> "full_ns", day |-> day, sec |-> sec, nsec |-> nsec]
           t == [form |-> "time_ns", day |-> day, sec |-> sec, nsec |-> nsec]
<1>0. SecPerDay \in Nat \ {0} /\ sec < SecPerDay
  BY ScaleAssumption, SMT
<1>1. /\ ParseFullWithNsec(d) = {DateTime(day * SecPerDay + sec, nsec, 0)}
      /\ ParseFull(d) = {} /\ ParseTimeWithNsec(d) = {}
      /\ ParseTime(d) = {} /\ ParseTimestamp(d) = {}
  BY <1>0 DEF ParseFullWithNsec, ParseFull, ParseTimeWithNsec, ParseTime, ParseTimestamp
<1>2. /\ ParseFullWithNsec(t) = {} /\ ParseFull(t) = {}
      /\ ParseTimeWithNsec(t) = {TimeOfDay(sec, nsec)}
      /\ ParseTime(t) = {} /\ ParseTimestamp(t) = {}
  BY <1>0 DEF ParseFullWithNsec, ParseFull, ParseTimeWithNsec, ParseTime, ParseTimestamp
<1>3. ParseDate(d) = {DateTime(day * SecPerDay + sec, nsec, 0)}
  <2> DEFINE rs == <<{DateTime(day * SecPerDay + sec, nsec, 0)}, {}, {}, {}, {}>>
  <2>1. ParseDate(d) = FirstMatch(rs)
    BY <1>1, Zenon DEF ParseDate
  <2>2. {i \in DOMAIN rs : rs[i] # {}} = {1} /\ rs[1] = {DateTime(day * SecPerDay + sec, nsec, 0)}
    BY SMT
  <2> HIDE DEF rs
  <2>3. 1 \in Int
    BY SMT
  <2>4. FirstMatch(rs) = rs[1]
    BY <2>2, <2>3, OnlyMatch, Zenon
  <2> QED
    BY <2>1, <2>2, <2>4
<1>4. ParseDate(t) = {TimeOfDay(sec, nsec)}
  <2> DEFINE rs == <<{}, {}, {TimeOfDay(sec, nsec)}, {}, {}>>
  <2>1. ParseDate(t) = FirstMatch(rs)
    BY <1>2, Zenon DEF ParseDate
  <2>2. {i \in DOMAIN rs : rs[i] # {}} = {3} /\ rs[3] = {TimeOfDay(sec, nsec)}
    BY SMT
  <2> HIDE DEF rs
  <2>3. 3 \in Int
    BY SMT
  <2>4. FirstMatch(rs) = rs[3]
    BY <2>2, <2>3, OnlyMatch, Zenon
  <2> QED
    BY <2>1, <2>2, <2>4
<1> QED
  BY <1>3, <1>4

\* The fields of a printed timestamp: those of its local time.
LEMMA PrintedFields ==
  ASSUME NEW ns \in Int
  PROVE  /\ LocalDay(ns) \in Int /\ ns \div NsPerSec \in Int
         /\ ToLocal(ns \div NsPerSec) \in Int
         /\ ToLocal(ns \div NsPerSec) % SecPerDay \in 0 .. SecPerDay - 1
         /\ ns % NsPerSec \in 0 .. NsPerSec - 1 /\ ns % NsPerSec \in Int
         /\ ns = (ns \div NsPerSec) * NsPerSec + (ns % NsPerSec)
         /\ LocalDay(ns) * SecPerDay + (ToLocal(ns \div NsPerSec) % SecPerDay)
              = ToLocal(ns \div NsPerSec)
<1> DEFINE sec  == ns \div NsPerSec
           loc  == ToLocal(sec)
<1>1. NsPerSec \in Nat \ {0} /\ SecPerDay \in Nat \ {0} /\ Timezone \in Int /\ Saving \in Int
  BY ZoneTypes
<1>2. sec \in Int /\ ns % NsPerSec \in 0 .. NsPerSec - 1 /\ ns = sec * NsPerSec + (ns % NsPerSec)
  BY <1>1, Division
<1> HIDE DEF sec
<1>3. loc \in Int
  BY <1>1, <1>2, SMT DEF ToLocal
<1> HIDE DEF loc
<1>4. /\ loc \div SecPerDay \in Int /\ loc % SecPerDay \in 0 .. SecPerDay - 1
      /\ loc = (loc \div SecPerDay) * SecPerDay + (loc % SecPerDay)
  BY <1>1, <1>3, Division
<1>5. LocalDay(ns) = loc \div SecPerDay
  BY DEF LocalDay, loc, sec
<1>6. ns % NsPerSec \in Int
  BY <1>2, SMT
<1> QED
  BY <1>2, <1>3, <1>4, <1>5, <1>6 DEF loc, sec

LEMMA PrintedDate ==
  ASSUME NEW ns \in Int
  PROVE  FormatTimestamp(ns, TRUE, FALSE)
           = [form |-> "full_ns", day |-> LocalDay(ns),
              sec |-> ToLocal(ns \div NsPerSec) % SecPerDay, nsec |-> ns % NsPerSec]
  BY DEF FormatTimestamp, LocalDay

\* Dates that print alike have the same local time and nanoseconds.
LEMMA PrintedAlike ==
  ASSUME NEW ns \in Int, NEW other \in Int
  PROVE  FormatTimestamp(other, TRUE, FALSE) = FormatTimestamp(ns, TRUE, FALSE)
           <=> /\ ToLocal(other \div NsPerSec) = ToLocal(ns \div NsPerSec)
               /\ other % NsPerSec = ns % NsPerSec
<1>1. /\ LocalDay(ns) * SecPerDay + (ToLocal(ns \div NsPerSec) % SecPerDay)
           = ToLocal(ns \div NsPerSec)
      /\ LocalDay(other) * SecPerDay + (ToLocal(other \div NsPerSec) % SecPerDay)
           = ToLocal(other \div NsPerSec)
  BY PrintedFields
<1> DEFINE Date(x) == [form |-> "full_ns", day |-> LocalDay(x),
                       sec |-> ToLocal(x \div NsPerSec) % SecPerDay, nsec |-> x % NsPerSec]
<1>2. FormatTimestamp(other, TRUE, FALSE) = Date(other) /\ FormatTimestamp(ns, TRUE, FALSE) = Date(ns)
  BY PrintedDate
<1>3. ASSUME Date(other) = Date(ns)
      PROVE  /\ ToLocal(other \div NsPerSec) = ToLocal(ns \div NsPerSec)
             /\ other % NsPerSec = ns % NsPerSec
  <2>1. /\ Date(other).day = Date(ns).day /\ Date(other).sec = Date(ns).sec
        /\ Date(other).nsec = Date(ns).nsec
    BY <1>3
  <2>2. /\ LocalDay(other) = LocalDay(ns)
        /\ ToLocal(other \div NsPerSec) % SecPerDay = ToLocal(ns \div NsPerSec) % SecPerDay
        /\ other % NsPerSec = ns % NsPerSec
    BY <2>1, Zenon
  <2> QED
    BY <1>1, <2>2, Zenon
<1>4. ASSUME ToLocal(other \div NsPerSec) = ToLocal(ns \div NsPerSec), other % NsPerSec = ns % NsPerSec
      PROVE  Date(other) = Date(ns)
  BY <1>4, Zenon DEF LocalDay
<1> HIDE DEF Date
<1> QED
  BY <1>2, <1>3, <1>4

\* The first of the timestamps that are printed as this one: this one itself,
\* but where the clocks were put back from it to another one.
FirstAlike(read, ns) ==
  /\ read \in Int
  /\ FormatTimestamp(read, TRUE, FALSE) = FormatTimestamp(ns, TRUE, FALSE)
  /\ \A other \in Int :
        FormatTimestamp(other, TRUE, FALSE) = FormatTimestamp(ns, TRUE, FALSE) => read <= other

LEMMA ReadFirst ==
  ASSUME NEW ns \in Int
  PROVE  FirstAlike(ToEpoch(ToLocal(ns \div NsPerSec), 0) * NsPerSec + (ns % NsPerSec), ns)
<1> DEFINE loc  == ToLocal(ns \div NsPerSec)
           sec  == ToEpoch(loc, 0)
           nsec == ns % NsPerSec
           read == sec * NsPerSec + nsec
<1>1. /\ NsPerSec \in Nat \ {0} /\ ns \div NsPerSec \in Int /\ loc \in Int
      /\ nsec \in 0 .. NsPerSec - 1
  BY ZoneTypes, PrintedFields
<1>2. /\ sec \in Int /\ ToLocal(sec) = loc
      /\ \A o \in Int : ToLocal(o) = loc => sec <= o
  <2> HIDE DEF loc
  <2>1. /\ sec \in Int
        /\ \A o \in Int : ToLocal(o) = loc => ToLocal(sec) = loc /\ sec <= o
    BY <1>1, ReadLocal
  <2>2. ToLocal(ns \div NsPerSec) = loc
    BY DEF loc
  <2> QED
    BY <1>1, <2>1, <2>2
<1> HIDE DEF sec, nsec
<1>3. read \in Int /\ read \div NsPerSec = sec /\ read % NsPerSec = nsec
  <2>1. sec * NsPerSec \in Int /\ nsec \in Int
    BY <1>1, <1>2, SMT
  <2> QED
    BY <1>1, <1>2, <2>1, DivisionIsUnique
<1>4. FormatTimestamp(read, TRUE, FALSE) = FormatTimestamp(ns, TRUE, FALSE)
  <2> HIDE DEF read
  <2> QED
    BY <1>2, <1>3, PrintedAlike DEF loc, nsec
<1>5. ASSUME NEW other \in Int,
             FormatTimestamp(other, TRUE, FALSE) = FormatTimestamp(ns, TRUE, FALSE)
      PROVE  read <= other
  <2> DEFINE o == other \div NsPerSec
  <2>1. ToLocal(o) = loc /\ other % NsPerSec = nsec
    BY <1>5, PrintedAlike DEF nsec
  <2>2. o \in Int /\ other = o * NsPerSec + (other % NsPerSec)
    BY PrintedFields
  <2> HIDE DEF o, loc
  <2>3. sec <= o
    BY <1>2, <2>1, <2>2
  <2>4. sec * NsPerSec <= o * NsPerSec
    BY <1>1, <1>2, <2>2, <2>3, SMTT(30)
  <2>5. sec * NsPerSec \in Int /\ o * NsPerSec \in Int /\ nsec \in Int
    BY <1>1, <1>2, <2>2, SMT
  <2>6. other = o * NsPerSec + nsec
    BY <2>1, <2>2
  <2> QED
    BY <2>4, <2>5, <2>6, SMT
<1>6. FirstAlike(read, ns)
  <2> HIDE DEF read
  <2> QED
    BY <1>3, <1>4, <1>5 DEF FirstAlike
<1> QED
  BY <1>6 DEF read, sec, nsec, loc

\* A timestamp that was printed with its date is read back as the first one
\* that is printed so: itself, but in an hour that summer time repeats, of
\* which the earlier is read (parse_utils.py:404-418, format_utils.py:116-147).
THEOREM FullDatesRoundTrip ==
  ASSUME NEW t, NEW ns \in Int
  PROVE  \E read \in Int :
            /\ ParseTraceDate(t, FormatTimestamp(ns, TRUE, FALSE), FALSE)
                 = [error |-> "none", ns |-> read]
            /\ FirstAlike(read, ns)
<1> DEFINE loc  == ToLocal(ns \div NsPerSec)
           sec  == loc % SecPerDay
           nsec == ns % NsPerSec
           at   == LocalDay(ns) * SecPerDay + sec
           read == ToEpoch(at, 0) * NsPerSec + nsec
<1>1. FormatTimestamp(ns, TRUE, FALSE)
         = [form |-> "full_ns", day |-> LocalDay(ns), sec |-> sec, nsec |-> nsec]
  BY PrintedDate
<1>2. LocalDay(ns) \in Int /\ sec \in 0 .. SecPerDay - 1 /\ nsec \in Int
  BY PrintedFields
<1>3. FirstAlike(read, ns)
  <2>1. at = loc
    BY PrintedFields
  <2> HIDE DEF at
  <2> QED
    BY <2>1, ReadFirst
<1> HIDE DEF loc, sec, nsec
<1>4. ParseDate([form |-> "full_ns", day |-> LocalDay(ns), sec |-> sec, nsec |-> nsec])
         = {DateTime(at, nsec, 0)}
  BY <1>2, PrintedDates, Zenon
<1>5. (CHOOSE r \in {DateTime(at, nsec, 0)} : TRUE) = DateTime(at, nsec, 0)
  OBVIOUS
<1>6. /\ DateTime(at, nsec, 0).of = "datetime" /\ DateTime(at, nsec, 0).at = at
      /\ DateTime(at, nsec, 0).nsec = nsec /\ DateTime(at, nsec, 0).fold = 0
  BY DEF DateTime
<1> HIDE DEF at
<1>7. ParseTraceDate(t, FormatTimestamp(ns, TRUE, FALSE), FALSE) = Stamp(ToEpoch(at, 0), nsec)
  BY <1>1, <1>4, <1>5, <1>6, Zenon DEF ParseTraceDate
<1>8. read \in Int
  BY <1>3 DEF FirstAlike
<1> QED
  BY <1>3, <1>7, <1>8 DEF Stamp

\* A timestamp of which only the time of day was printed, of the day when a
\* trace of one day began, is read back as the first one that is printed so
\* with its date.
THEOREM TimesRoundTrip ==
  ASSUME NEW t, t.begin \in Int, t.end \in Int, ~IsMultiDay(t),
         NEW ns \in Int, LocalDay(ns) = LocalDay(t.begin)
  PROVE  \E read \in Int :
            /\ ParseTraceDate(t, FormatTimestamp(ns, FALSE, FALSE), FALSE)
                 = [error |-> "none", ns |-> read]
            /\ FirstAlike(read, ns)
<1> DEFINE loc  == ToLocal(ns \div NsPerSec)
           sec  == loc % SecPerDay
           nsec == ns % NsPerSec
           at   == LocalDay(ns) * SecPerDay + sec
           read == ToEpoch(at, 0) * NsPerSec + nsec
<1>1. FormatTimestamp(ns, FALSE, FALSE)
         = [form |-> "time_ns", day |-> 0, sec |-> sec, nsec |-> nsec]
  BY DEF FormatTimestamp
<1>2. LocalDay(ns) \in Int /\ sec \in 0 .. SecPerDay - 1 /\ nsec \in Int
  BY PrintedFields
<1>3. FirstAlike(read, ns)
  <2>1. at = loc
    BY PrintedFields
  <2> HIDE DEF at
  <2> QED
    BY <2>1, ReadFirst
<1>4. TraceDate(t) = [error |-> "none", day |-> LocalDay(ns)]
  <2>1. ~OldBabeltrace(t)
    BY ZoneTypes DEF OldBabeltrace
  <2> QED
    BY <2>1 DEF TraceDate
<1> HIDE DEF loc, sec, nsec
<1>5. ParseDate([form |-> "time_ns", day |-> 0, sec |-> sec, nsec |-> nsec])
         = {TimeOfDay(sec, nsec)}
  <2>1. 0 \in Int
    BY SMT
  <2> QED
    BY <1>2, <2>1, PrintedDates, Zenon
<1>6. (CHOOSE r \in {TimeOfDay(sec, nsec)} : TRUE) = TimeOfDay(sec, nsec)
  OBVIOUS
<1>7. /\ TimeOfDay(sec, nsec).of = "time" /\ TimeOfDay(sec, nsec).at = sec
      /\ TimeOfDay(sec, nsec).nsec = nsec
  BY DEF TimeOfDay
<1>8. TraceDate(t).error = "none" /\ TraceDate(t).day = LocalDay(ns)
  BY <1>4
<1>9. ParseTraceDate(t, FormatTimestamp(ns, FALSE, FALSE), FALSE) = Stamp(ToEpoch(at, 0), nsec)
  BY <1>1, <1>5, <1>6, <1>7, <1>8, Zenon DEF ParseTraceDate
<1> HIDE DEF at
<1>10. read \in Int
  BY <1>3 DEF FirstAlike
<1> QED
  BY <1>3, <1>9, <1>10 DEF Stamp

\* So are the two dates of a time range (parse_utils.py:423-464,
\* format_utils.py:150-177).
THEOREM RangesRoundTrip ==
  ASSUME NEW t, NEW begin \in Int, NEW end \in Int
  PROVE  \E first \in Int, last \in Int :
            /\ ParseTimeRange(t, FormatTimeRange(begin, end, TRUE, FALSE), FALSE)
                 = [error |-> "none", begin |-> first, end |-> last]
            /\ FirstAlike(first, begin) /\ FirstAlike(last, end)
<1> DEFINE range == FormatTimeRange(begin, end, TRUE, FALSE)
<1>1. /\ range.form = "range"
      /\ range.begin = FormatTimestamp(begin, TRUE, FALSE)
      /\ range.end = FormatTimestamp(end, TRUE, FALSE)
  BY DEF FormatTimeRange
<1> HIDE DEF range
<1>2. PICK first \in Int :
         /\ ParseTraceDate(t, range.begin, FALSE) = [error |-> "none", ns |-> first]
         /\ FirstAlike(first, begin)
  BY <1>1, FullDatesRoundTrip
<1>3. PICK last \in Int :
         /\ ParseTraceDate(t, range.end, FALSE) = [error |-> "none", ns |-> last]
         /\ FirstAlike(last, end)
  BY <1>1, FullDatesRoundTrip
<1>4. ParseTimeRange(t, range, FALSE)
         = FromTo([error |-> "none", ns |-> first], [error |-> "none", ns |-> last])
  BY <1>1, <1>2, <1>3, Zenon DEF ParseTimeRange
<1>5. ParseTimeRange(t, range, FALSE) = [error |-> "none", begin |-> first, end |-> last]
  BY <1>4 DEF FromTo
<1> QED
  BY <1>2, <1>3, <1>5 DEF range

-----------------------------------------------------------------------------
(* Histograms.                                                             *)

\* What a quotient of numbers that are not negative is.
LEMMA QuotientOfNaturals ==
  ASSUME NEW a \in Nat, NEW b \in Nat \ {0}
  PROVE  /\ Quotient(a, b) \in Nat
         /\ Quotient(a, b) * b <= a
         /\ a < (Quotient(a, b) + 1) * b
<1> DEFINE q == a \div b
           r == a % b
<1>1. q \in Int /\ r \in 0 .. b - 1 /\ a = q * b + r
  BY SMT
<1>2. Quotient(a, b) = q
  BY SMT DEF Quotient, Absolute
<1> HIDE DEF q, r
<1>3. q * b \in Int
  BY <1>1, SMT
<1>4. q >= 0
  <2>1. ASSUME q <= -1 PROVE FALSE
    <3>1. q * b <= (-1) * b
      BY <1>1, <2>1, SMTT(30)
    <3> QED
      BY <1>1, <1>3, <3>1, SMT
  <2> QED
    BY <1>1, <2>1, SMT
<1>5. (q + 1) * b = q * b + b
  BY <1>1, SMTT(30)
<1> QED
  BY <1>1, <1>2, <1>3, <1>4, <1>5, SMT

\* The index of a value between the bounds.
LEMMA IndexInRange ==
  ASSUME NEW n \in Nat \ {0}, NEW range, range.min \in Int, range.max \in Int,
         NEW d \in Int, range.min < range.max, range.min <= d, d <= range.max
  PROVE  /\ Index(d, range, n) \in 0 .. n
         /\ Index(d, range, n) * (range.max - range.min) <= (d - range.min) * n
         /\ (d - range.min) * n < (Index(d, range, n) + 1) * (range.max - range.min)
         /\ Index(d, range, n) = n <=> d = range.max
<1> DEFINE a == (d - range.min) * n
           b == range.max - range.min
           i == Index(d, range, n)
<1>1. b \in Nat \ {0} /\ d - range.min \in 0 .. b
  BY SMT
<1> HIDE DEF b
<1>2. a \in Nat /\ a <= b * n
  BY <1>1, SMTT(30)
<1>3. i = Quotient(a, b)
  BY DEF Index, b
<1> HIDE DEF a, i
<1>4. i \in Nat /\ i * b <= a /\ a < (i + 1) * b
  BY <1>1, <1>2, <1>3, QuotientOfNaturals
<1>5. i <= n
  <2>1. ASSUME n + 1 <= i PROVE FALSE
    <3>1. (n + 1) * b <= i * b
      BY <1>1, <1>4, <2>1, SMTT(30)
    <3>2. (n + 1) * b = b * n + b /\ b * n \in Int /\ i * b \in Int
      BY <1>1, <1>4, SMTT(30)
    <3> QED
      BY <1>1, <1>2, <1>4, <3>1, <3>2, SMT
  <2> QED
    BY <1>4, <2>1, SMT
<1>6. ASSUME d = range.max PROVE i = n
  <2>1. a = b * n
    BY <1>6, SMT DEF a, b
  <2>2. ASSUME i + 1 <= n PROVE FALSE
    <3>1. (i + 1) * b <= b * n
      BY <1>1, <1>4, <2>2, SMTT(30)
    <3>2. (i + 1) * b \in Int /\ b * n \in Int
      BY <1>1, <1>4, SMT
    <3> QED
      BY <1>2, <1>4, <2>1, <3>1, <3>2, SMT
  <2> QED
    BY <1>4, <1>5, <2>2, SMT
<1>7. ASSUME i = n PROVE d = range.max
  <2>1. n * b <= (d - range.min) * n
    BY <1>4, <1>7 DEF a
  <2>2. ASSUME d - range.min <= b - 1 PROVE FALSE
    <3>1. (d - range.min) * n <= (b - 1) * n
      BY <1>1, <2>2, SMTT(30)
    <3>2. (b - 1) * n = n * b - n /\ n * b \in Int
      BY <1>1, SMTT(30)
    <3>3. (d - range.min) * n \in Int
      BY <1>2 DEF a
    <3> QED
      BY <2>1, <3>1, <3>2, <3>3, SMT
  <2>3. d - range.min = b
    BY <1>1, <2>2, SMT
  <2> QED
    BY <2>3, SMT DEF b
<1> QED
  BY <1>4, <1>5, <1>6, <1>7, SMT DEF a, b, i

\* The bucket of an index.
LEMMA BucketOfIndex ==
  ASSUME NEW n \in Nat \ {0}, NEW range, NEW d, Index(d, range, n) \in 0 .. n,
         Index(d, range, n) = n <=> d = range.max
  PROVE  Bucket(d, range, n) = IF Index(d, range, n) = n THEN n - 1 ELSE Index(d, range, n)
<1> DEFINE i == Index(d, range, n)
<1>0. Bucket(d, range, n) = IF i >= n THEN IF d = range.max THEN i - 1 ELSE None
                            ELSE IF i < 0 THEN i + n ELSE i
  BY Zenon DEF Bucket
<1>1. CASE i = n
  <2>1. i >= n
    BY <1>1
  <2> QED
    BY <1>0, <1>1, <2>1, Zenon
<1>2. CASE i # n
  <2>1. ~(i >= n) /\ ~(i < 0)
    BY <1>2
  <2> QED
    BY <1>0, <1>2, <2>1, Zenon
<1> QED
  BY <1>1, <1>2

\* A value between the bounds is counted, in the bucket whose own bounds are
\* on both sides of it (its lower bound is that of the row, and the upper bound
\* of the last bucket belongs to it): no index is out of range
\* (cli/sched.py:588-602, cli/irq.py:306-320, cli/io.py:776-790,
\* cli/periods.py:1574-1608).
THEOREM BucketHoldsItsValues ==
  ASSUME NEW n \in Nat \ {0}, NEW range, range.min \in Int, range.max \in Int,
         NEW d \in Int, range.min < range.max, range.min <= d, d <= range.max
  PROVE  LET k == Bucket(d, range, n)
             Lower(j) == range.min * n + j * (range.max - range.min)
         IN /\ k \in 0 .. n - 1
            /\ Lower(k) <= d * n
            /\ d * n < Lower(k + 1) \/ (d = range.max /\ k = n - 1)
<1> DEFINE i == Index(d, range, n)
           k == Bucket(d, range, n)
           b == range.max - range.min
<1>1. /\ i \in 0 .. n /\ i * b <= (d - range.min) * n /\ (d - range.min) * n < (i + 1) * b
      /\ i = n <=> d = range.max
  BY IndexInRange
<1>2. k = IF i = n THEN n - 1 ELSE i
  BY <1>1, BucketOfIndex
<1>3. b \in Nat \ {0}
  BY SMT
<1> HIDE DEF i, k, b
<1>4. (d - range.min) * n = d * n - range.min * n /\ d * n \in Int /\ range.min * n \in Int
  BY SMTT(30)
<1>5. k \in 0 .. n - 1
  BY <1>1, <1>2, SMT
<1>6. k * b <= i * b /\ k * b \in Int /\ i * b \in Int
  <2>1. k <= i
    BY <1>1, <1>2, SMT
  <2> QED
    BY <1>1, <1>3, <1>5, <2>1, SMTT(30)
<1>7. range.min * n + k * b <= d * n
  BY <1>1, <1>4, <1>6, SMT
<1>8. d * n < range.min * n + (k + 1) * b \/ (d = range.max /\ k = n - 1)
  <2>1. CASE i = n
    BY <1>1, <1>2, <2>1
  <2>2. CASE i # n
    <3>1. k = i /\ (i + 1) * b \in Int
      BY <1>1, <1>2, <1>3, <2>2, SMT
    <3> QED
      BY <1>1, <1>4, <3>1, SMT
  <2> QED
    BY <2>1, <2>2
<1> QED
  BY <1>5, <1>7, <1>8 DEF k, b

\* Counting values that are all between the bounds never fails.
THEOREM CountingDoesNotFail ==
  ASSUME NEW n \in Nat \ {0}, NEW range, range.min \in Int, range.max \in Int,
         range.min <= range.max,
         NEW list, \A i \in DOMAIN list : list[i] \in range.min .. range.max
  PROVE  ~FreqRaises(list, range, n)
<1> SUFFICES ASSUME range.min # range.max,
                    NEW j \in DOMAIN list, Index(list[j], range, n) < -n
             PROVE  FALSE
  BY DEF FreqRaises
<1>1. list[j] \in Int /\ range.min <= list[j] /\ list[j] <= range.max /\ range.min < range.max
  BY SMT
<1>2. Index(list[j], range, n) \in 0 .. n
  BY <1>1, IndexInRange
<1> QED
  BY <1>2, SMT

LEMMA RangeHolds ==
  ASSUME NEW list \in Seq(Int), list # << >>
  PROVE  LET r == RangeOf(list) IN
         /\ r.min \in Int /\ r.max \in Int /\ r.min <= r.max
         /\ \A d \in ToSet(list) : d \in Int /\ r.min <= d /\ d <= r.max
<1> DEFINE S == ToSet(list)
<1>1. S \subseteq Int /\ S # {} /\ S = {list[i] : i \in 1 .. Len(list)}
  <2>1. Len(list) \in Nat /\ DOMAIN list = 1 .. Len(list) /\ Len(list) # 0
        /\ \A i \in 1 .. Len(list) : list[i] \in Int
    BY EmptySeq
  <2>2. 1 \in DOMAIN list
    BY <2>1
  <2>3. S = {list[i] : i \in DOMAIN list}
    BY DEF ToSet
  <2> HIDE DEF S
  <2> QED
    BY <2>1, <2>2, <2>3
<1>2. IsFiniteSet(S)
  <2> DEFINE I == 1 .. Len(list)
  <2>1. IsFiniteSet(I)
    BY FS_Interval
  <2> HIDE DEF I
  <2>2. list \in Surjection(I, S)
    BY <1>1 DEF I, Surjection
  <2> QED
    BY <2>1, <2>2, FS_Surjection
<1>3. RangeOf(list) = [min |-> Min(S), max |-> Max(S)]
  BY DEF RangeOf
<1> HIDE DEF S
<1>4. /\ Min(S) \in S /\ \A x \in S : Min(S) <= x
      /\ Max(S) \in S /\ \A x \in S : x <= Max(S)
  <2>1. \A x \in S : x \in Int
    BY <1>1
  <2> QED
    BY <1>1, <1>2, <2>1, LeastAndGreatest
<1>5. RangeOf(list).min = Min(S) /\ RangeOf(list).max = Max(S)
  BY <1>3
<1> QED
  BY <1>1, <1>4, <1>5 DEF S

\* The bounds shared with --freq-uniform, whatever they were after the ticks
\* before, have all the values of this tick between them: no histogram of any
\* part of them fails, and each value is in a bucket (cli/command.py:393-431,
\* cli/sched.py:572-602, cli/irq.py:288-320).
THEOREM SharedBoundsHold ==
  ASSUME NEW shared, shared.min \in Int \cup {None}, shared.max \in Int \cup {None},
         NEW given, given.min = None, given.max = None, NEW ratio,
         NEW list \in Seq(Int), NEW part, \A i \in DOMAIN part : part[i] \in ToSet(list),
         NEW n \in Nat \ {0}
  PROVE  LET after == UniformAfter(shared, given, list, ratio) IN
         /\ after.min \in Int /\ after.max \in Int /\ after.min <= after.max
         /\ ~FreqRaises(part, after, n)
         /\ after.min # after.max =>
               \A i \in DOMAIN part : Bucket(part[i], after, n) \in 0 .. n - 1
<1> DEFINE after == UniformAfter(shared, given, list, ratio)
           range == RangeOf(list)
<1>1. /\ after.min = IF list = << >> THEN 0
                     ELSE IF shared.min = None \/ range.min < shared.min THEN range.min
                     ELSE shared.min
      /\ after.max = IF list = << >> THEN 0
                     ELSE IF shared.max = None \/ range.max > shared.max THEN range.max
                     ELSE shared.max
  BY DEF UniformAfter
<1>2. list # << >> =>
         /\ range.min \in Int /\ range.max \in Int /\ range.min <= range.max
         /\ \A d \in ToSet(list) : d \in Int /\ range.min <= d /\ d <= range.max
  BY RangeHolds
<1> HIDE DEF after, range
<1>3. after.min \in Int /\ after.max \in Int /\ after.min <= after.max
      /\ \A d \in ToSet(list) : d \in Int /\ after.min <= d /\ d <= after.max
  <2>1. CASE list = << >>
    <3>1. ToSet(list) = {}
      BY <2>1 DEF ToSet
    <3> QED
      BY <1>1, <2>1, <3>1
  <2>2. CASE list # << >>
    <3>1. after.min \in Int /\ after.min <= range.min
      <4>1. CASE shared.min = None \/ range.min < shared.min
        BY <1>1, <1>2, <2>2, <4>1
      <4>2. CASE ~(shared.min = None \/ range.min < shared.min)
        BY <1>1, <1>2, <2>2, <4>2
      <4> QED
        BY <4>1, <4>2
    <3>2. after.max \in Int /\ range.max <= after.max
      <4>1. CASE shared.max = None \/ range.max > shared.max
        BY <1>1, <1>2, <2>2, <4>1
      <4>2. CASE ~(shared.max = None \/ range.max > shared.max)
        BY <1>1, <1>2, <2>2, <4>2
      <4> QED
        BY <4>1, <4>2
    <3> QED
      BY <1>2, <2>2, <3>1, <3>2
  <2> QED
    BY <2>1, <2>2
<1>4. \A i \in DOMAIN part : part[i] \in Int /\ after.min <= part[i] /\ part[i] <= after.max
  BY <1>3
<1>5. ~FreqRaises(part, after, n)
  <2>1. \A i \in DOMAIN part : part[i] \in after.min .. after.max
    BY <1>3, <1>4
  <2> QED
    BY <1>3, <2>1, CountingDoesNotFail
<1>6. ASSUME after.min # after.max, NEW i \in DOMAIN part
      PROVE  Bucket(part[i], after, n) \in 0 .. n - 1
  <2>1. after.min < after.max
    BY <1>3, <1>6
  <2> QED
    BY <1>3, <1>4, <2>1, BucketHoldsItsValues
<1> QED
  BY <1>3, <1>5, <1>6 DEF after

\* So have the bounds of a histogram of its own: its values are all counted.
THEOREM OwnBoundsHold ==
  ASSUME NEW given, given.min = None, given.max = None,
         NEW list \in Seq(Int), list # << >>, NEW n \in Nat \ {0}, None \notin Int
  PROVE  LET own == OwnRange(given, RangeOf(list)) IN
         /\ ~FreqRaises(list, own, n)
         /\ own.min # own.max =>
               \A i \in DOMAIN list : Bucket(list[i], own, n) \in 0 .. n - 1
<1> DEFINE own   == OwnRange(given, RangeOf(list))
           range == RangeOf(list)
<1>1. /\ range.min \in Int /\ range.max \in Int /\ range.min <= range.max
      /\ \A d \in ToSet(list) : d \in Int /\ range.min <= d /\ d <= range.max
  BY RangeHolds
<1>2. own.min = OrZero(range.min) /\ own.max = OrZero(range.max)
  BY DEF OwnRange
<1> HIDE DEF own, range
<1>3. OrZero(range.min) = range.min /\ OrZero(range.max) = range.max
  BY <1>1 DEF OrZero
<1>4. /\ own.min \in Int /\ own.max \in Int /\ own.min <= own.max
      /\ \A i \in DOMAIN list : list[i] \in Int /\ own.min <= list[i] /\ list[i] <= own.max
  BY <1>1, <1>2, <1>3 DEF ToSet
<1>5. ~FreqRaises(list, own, n)
  <2>1. \A i \in DOMAIN list : list[i] \in own.min .. own.max
    BY <1>4
  <2> QED
    BY <1>4, <2>1, CountingDoesNotFail
<1>6. ASSUME own.min # own.max, NEW i \in DOMAIN list
      PROVE  Bucket(list[i], own, n) \in 0 .. n - 1
  <2>1. own.min < own.max
    BY <1>4, <1>6
  <2> QED
    BY <1>4, <2>1, BucketHoldsItsValues
<1> QED
  BY <1>5, <1>6 DEF own

-----------------------------------------------------------------------------
(* The invariants.                                                         *)

\* A sequence, of whatever.
IsList(s) == s \in Seq({s[i] : i \in DOMAIN s})

Has(s, kind) == \E i \in DOMAIN s : s[i][1] = kind

\* A command that has not exited has no status and told no error, and its
\* results are the last that it prints.
OutputInv ==
    /\ IsList(out)
    /\ stage # "exited" => status = NoDate /\ ~Has(out, "error")
    /\ stage \notin {"close", "exited"} => ~Has(out, "results")
    /\ ErrorsFail /\ ResultsOnce

\* The dates of a command that goes on are those of its arguments.
DatesInv ==
    /\ run \in Runs
    /\ stage \notin {"parse", "open", "exited"} =>
          /\ DateRange.error = "none"
          /\ conf = [begin |-> DateRange.begin, end |-> DateRange.end]

\* How far an event at ts is, if `count` were read, cut at the maximum.
Reach(p, ts, count) ==
    LET at == IF p.byTime THEN ts - trace.begin ELSE count
    IN IF at > p.max THEN p.max ELSE at

\* What may have been shown of a progress p: its beginning, a fraction of it
\* that is not more than it is now, or its end.
MayShow(p, o) ==
    \/ o = <<"progress", 0, 1>>
    \/ o = <<"progress", 1, 1>> /\ p.at = p.max
    \/ \E k \in 0 .. p.at : k <= p.max /\ o = <<"progress", k, p.max>>

ProgressTyped(p) ==
    /\ {"byTime", "at", "count", "checked", "max"} \subseteq DOMAIN p
    /\ p.at \in Int /\ p.count \in Nat /\ p.max \in Int
    /\ IF p.byTime THEN trace.begin \in Int ELSE p.max \in Nat

ProgressInv ==
    /\ stage \in {"parse", "open", "create", "setup"} =>
          lastTs.ts = NoDate /\ ~Has(out, "progress")
    /\ lastTs.ts = NoDate \/ lastTs.ts \in trace.stamps
    /\ stage = "run" /\ progress # None =>
          /\ ProgressTyped(progress)
          /\ progress.at = IF lastTs.ts = NoDate THEN 0
                           ELSE Reach(progress, lastTs.ts, progress.count)
          /\ \A i \in DOMAIN out : IsOutput("progress", i) => MayShow(progress, out[i])
    /\ ProgressAdvances

-----------------------------------------------------------------------------
(* What the steps print.                                                   *)

LEMMA Lists ==
  ASSUME NEW s, NEW t, IsList(s), IsList(t)
  PROVE  /\ IsList(s \o t)
         /\ Len(s) \in Nat /\ Len(t) \in Nat /\ Len(s \o t) = Len(s) + Len(t)
         /\ DOMAIN s = 1 .. Len(s) /\ DOMAIN t = 1 .. Len(t)
         /\ DOMAIN (s \o t) = 1 .. Len(s) + Len(t)
         /\ \A i \in DOMAIN (s \o t) :
               (s \o t)[i] = IF i <= Len(s) THEN s[i] ELSE t[i - Len(s)]
<1> DEFINE S == {s[i] : i \in DOMAIN s} \cup {t[i] : i \in DOMAIN t}
           u == s \o t
<1>1. s \in Seq(S) /\ t \in Seq(S)
  BY DEF IsList
<1>2. u \in Seq(S) /\ Len(u) = Len(s) + Len(t)
      /\ \A i \in 1 .. Len(s) + Len(t) : u[i] = IF i <= Len(s) THEN s[i] ELSE t[i - Len(s)]
  BY <1>1, ConcatProperties
<1>3. Len(s) \in Nat /\ Len(t) \in Nat /\ DOMAIN s = 1 .. Len(s) /\ DOMAIN t = 1 .. Len(t)
  BY <1>1
<1> HIDE DEF S, u
<1>4. DOMAIN u = 1 .. Len(u) /\ Len(u) \in Nat
  BY <1>2
<1>5. u \in Seq({u[i] : i \in DOMAIN u})
  BY <1>2, <1>4
<1> QED
  BY <1>2, <1>3, <1>4, <1>5 DEF IsList, u

\* What a sequence has after another one was put behind it.
LEMMA HasBoth ==
  ASSUME NEW s, NEW t, IsList(s), IsList(t), NEW kind
  PROVE  Has(s \o t, kind) <=> Has(s, kind) \/ Has(t, kind)
<1> DEFINE u == s \o t
<1>1. /\ Len(s) \in Nat /\ Len(t) \in Nat
      /\ DOMAIN s = 1 .. Len(s) /\ DOMAIN t = 1 .. Len(t) /\ DOMAIN u = 1 .. Len(s) + Len(t)
      /\ \A i \in DOMAIN u : u[i] = IF i <= Len(s) THEN s[i] ELSE t[i - Len(s)]
  BY Lists
<1> HIDE DEF u
<1>2. ASSUME NEW i \in DOMAIN u, u[i][1] = kind PROVE Has(s, kind) \/ Has(t, kind)
  <2>1. CASE i <= Len(s)
    BY <1>1, <1>2, <2>1 DEF Has
  <2>2. CASE i > Len(s)
    <3>1. i - Len(s) \in DOMAIN t /\ u[i] = t[i - Len(s)]
      BY <1>1, <2>2
    <3> QED
      BY <1>2, <3>1 DEF Has
  <2> QED
    BY <1>1, <2>1, <2>2
<1>3. ASSUME NEW i \in DOMAIN s, s[i][1] = kind PROVE Has(u, kind)
  <2>1. i \in DOMAIN u /\ u[i] = s[i]
    BY <1>1
  <2> QED
    BY <1>3, <2>1 DEF Has
<1>4. ASSUME NEW i \in DOMAIN t, t[i][1] = kind PROVE Has(u, kind)
  <2>1. i + Len(s) \in DOMAIN u /\ u[i + Len(s)] = t[(i + Len(s)) - Len(s)]
        /\ (i + Len(s)) - Len(s) = i
    BY <1>1
  <2> QED
    BY <1>4, <2>1 DEF Has
<1> QED
  BY <1>2, <1>3, <1>4 DEF Has, u

\* What is of a kind that was not put behind was there before.
LEMMA StillThere ==
  ASSUME NEW s, NEW t, IsList(s), IsList(t), NEW kind, ~Has(t, kind),
         NEW i \in DOMAIN (s \o t), (s \o t)[i][1] = kind
  PROVE  i \in DOMAIN s /\ s[i] = (s \o t)[i]
<1> DEFINE u == s \o t
<1>1. /\ Len(s) \in Nat /\ Len(t) \in Nat
      /\ DOMAIN s = 1 .. Len(s) /\ DOMAIN t = 1 .. Len(t) /\ DOMAIN u = 1 .. Len(s) + Len(t)
      /\ \A k \in DOMAIN u : u[k] = IF k <= Len(s) THEN s[k] ELSE t[k - Len(s)]
  BY Lists
<1>2. i \in DOMAIN u /\ u[i][1] = kind
  OBVIOUS
<1> HIDE DEF u
<1>3. i <= Len(s)
  <2>1. SUFFICES ASSUME ~(i <= Len(s)) PROVE FALSE
    OBVIOUS
  <2>2. i - Len(s) \in DOMAIN t /\ u[i] = t[i - Len(s)]
    BY <1>1, <1>2, <2>1
  <2> QED
    BY <1>2, <2>2 DEF Has
<1>4. i \in DOMAIN s /\ s[i] = u[i]
  BY <1>1, <1>2, <1>3
<1> QED
  BY <1>4 DEF u

LEMMA EmptyList ==
  IsList(<< >>) /\ \A kind : ~Has(<< >>, kind)
BY DEF IsList, Has

LEMMA ListOfOne ==
  ASSUME NEW x
  PROVE  IsList(<<x>>) /\ \A kind : Has(<<x>>, kind) <=> x[1] = kind
BY DEF IsList, Has

\* Outputs with which a command may end: they tell an error if and only if the
\* status says so.
Tells(o, code) ==
    /\ IsList(o) /\ ~Has(o, "results") /\ ~Has(o, "progress")
    /\ code \in Int /\ (code # 0 <=> Has(o, "error"))

SoundChecks(checks) ==
    IsList(checks) /\ \A i \in DOMAIN checks : checks[i].fails => Tells(checks[i].out, checks[i].code)

\* A step that prints o and goes on, or ends the command.
Goes(o) ==
    /\ stage # "exited" /\ stage' # "exited" /\ (stage = "close" => stage' = "close")
    /\ out' = out \o o /\ IsList(o) /\ ~Has(o, "error")
    /\ Has(o, "results") => stage # "close" /\ stage' = "close" /\ Len(o) = 1
    /\ status' = status /\ run' = run

Ends(o) ==
    /\ stage # "exited" /\ stage' = "exited"
    /\ out' = out \o o /\ IsList(o) /\ ~Has(o, "results")
    /\ status' \in Int /\ (status' # 0 <=> Has(o, "error"))
    /\ run' = run

LEMMA AnErrorTells ==
  ASSUME NEW code \in Int \ {0}
  PROVE  Tells(<<AnError>>, code)
<1>1. IsList(<<AnError>>) /\ \A kind : Has(<<AnError>>, kind) <=> AnError[1] = kind
  BY ListOfOne
<1>2. AnError[1] = "error"
  BY DEF AnError
<1> QED
  BY <1>1, <1>2 DEF Tells

LEMMA ErrorIsSound ==
  ASSUME NEW fails
  PROVE  /\ SoundChecks(<<Error(fails)>>)
         /\ Tells(Error(fails).out, Error(fails).code)
<1>1. Error(fails) = [fails |-> fails, out |-> <<AnError>>, code |-> 1]
  BY DEF Error, Check
<1>2. Tells(<<AnError>>, 1)
  BY AnErrorTells
<1>3. IsList(<<Error(fails)>>)
  BY ListOfOne
<1> QED
  BY <1>1, <1>2, <1>3 DEF SoundChecks

LEMMA JoinedAreSound ==
  ASSUME NEW s, NEW t, SoundChecks(s), SoundChecks(t)
  PROVE  SoundChecks(s \o t)
<1> DEFINE u == s \o t
<1>1. /\ IsList(u) /\ Len(s) \in Nat /\ Len(t) \in Nat
      /\ DOMAIN s = 1 .. Len(s) /\ DOMAIN t = 1 .. Len(t) /\ DOMAIN u = 1 .. Len(s) + Len(t)
      /\ \A i \in DOMAIN u : u[i] = IF i <= Len(s) THEN s[i] ELSE t[i - Len(s)]
  BY Lists DEF SoundChecks
<1> HIDE DEF u
<1>2. ASSUME NEW i \in DOMAIN u, u[i].fails PROVE Tells(u[i].out, u[i].code)
  <2>1. CASE i <= Len(s)
    <3>1. i \in DOMAIN s /\ u[i] = s[i]
      BY <1>1, <2>1
    <3> QED
      BY <1>2, <3>1 DEF SoundChecks
  <2>2. CASE i > Len(s)
    <3>1. i - Len(s) \in DOMAIN t /\ u[i] = t[i - Len(s)]
      BY <1>1, <2>2
    <3> QED
      BY <1>2, <3>1 DEF SoundChecks
  <2> QED
    BY <1>1, <2>1, <2>2
<1>3. SoundChecks(u)
  BY <1>1, <1>2 DEF SoundChecks
<1> QED
  BY <1>3 DEF u

LEMMA OneCheckIsSound ==
  ASSUME NEW c, c.fails => Tells(c.out, c.code)
  PROVE  SoundChecks(<<c>>)
<1>1. IsList(<<c>>)
  BY ListOfOne
<1> QED
  BY <1>1 DEF SoundChecks

LEMMA FourChecksAreSound ==
  ASSUME NEW a, NEW b, NEW c, NEW d, SoundChecks(<<a>>), SoundChecks(<<b>>),
         SoundChecks(<<c>>), SoundChecks(<<d>>)
  PROVE  SoundChecks(<<a, b, c, d>>)
<1>1. /\ a.fails => Tells(a.out, a.code)
      /\ b.fails => Tells(b.out, b.code)
      /\ c.fails => Tells(c.out, c.code)
      /\ d.fails => Tells(d.out, d.code)
  <2>1. ASSUME NEW c1, SoundChecks(<<c1>>) PROVE c1.fails => Tells(c1.out, c1.code)
    <3>1. 1 \in DOMAIN <<c1>> /\ <<c1>>[1] = c1
      OBVIOUS
    <3> QED
      BY <2>1, <3>1, Zenon DEF SoundChecks
  <2> QED
    BY <2>1
<1>2. /\ DOMAIN <<a, b, c, d>> = {1, 2, 3, 4} /\ IsList(<<a, b, c, d>>)
      /\ <<a, b, c, d>>[1] = a /\ <<a, b, c, d>>[2] = b
      /\ <<a, b, c, d>>[3] = c /\ <<a, b, c, d>>[4] = d
  BY DEF IsList
<1> QED
  BY <1>1, <1>2 DEF SoundChecks

\* The checks of the arguments, of which two are requests and not errors.
LEMMA ArgumentChecksAreSound ==
  SoundChecks(ValidateCommonArgs)
<1>1. ASSUME NEW fails, NEW what, what[1] \notin {"error", "results", "progress"}
      PROVE  SoundChecks(<<Check(fails, <<what>>, 0)>>)
  <2>1. IsList(<<what>>) /\ \A kind : Has(<<what>>, kind) <=> what[1] = kind
    BY ListOfOne
  <2>2. Tells(<<what>>, 0)
    BY <1>1, <2>1 DEF Tells
  <2> QED
    BY <2>2, OneCheckIsSound DEF Check
<1>2. SoundChecks(<<Check(PeriodErrors # << >>, PeriodErrors, 1)>>)
  <2>1. PeriodErrors # << >> => PeriodErrors \in {<<AnError>>, <<AnError, AnError>>}
    BY DEF PeriodErrors
  <2>2. Tells(<<AnError>>, 1) /\ Tells(<<AnError, AnError>>, 1)
    <3>1. Tells(<<AnError>>, 1) /\ IsList(<<AnError>>)
      BY AnErrorTells DEF Tells
    <3>2. <<AnError, AnError>> = <<AnError>> \o <<AnError>>
      OBVIOUS
    <3>3. IsList(<<AnError, AnError>>)
          /\ \A kind : Has(<<AnError, AnError>>, kind) <=> Has(<<AnError>>, kind)
      BY <3>1, <3>2, Lists, HasBoth
    <3> QED
      BY <3>1, <3>3 DEF Tells
  <2> QED
    BY <2>1, <2>2, OneCheckIsSound DEF Check
<1>3. SoundChecks(ValidatePeriodArgs)
  BY <1>2, ErrorIsSound, FourChecksAreSound DEF ValidatePeriodArgs
<1> DEFINE pre  == <<Error(args.refresh # NoDate /\ Refresh = {})>>
           post == << Error(args.refresh # NoDate /\ HasPeriods),
                      Check(run.mi /\ args.miVersion, << <<"version">> >>, 0),
                      Check(run.mi /\ args.metadata, << <<"metadata">> >>, 0),
                      Error(~args.path) >>
<1>4. SoundChecks(pre)
  BY ErrorIsSound
<1>5. SoundChecks(post)
  <2>1. /\ SoundChecks(<<Check(run.mi /\ args.miVersion, << <<"version">> >>, 0)>>)
        /\ SoundChecks(<<Check(run.mi /\ args.metadata, << <<"metadata">> >>, 0)>>)
    BY <1>1
  <2> QED
    BY <2>1, ErrorIsSound, FourChecksAreSound
<1>6. ValidateCommonArgs = pre \o ValidatePeriodArgs \o post
  BY DEF ValidateCommonArgs
<1> HIDE DEF pre, post
<1> QED
  BY <1>3, <1>4, <1>5, <1>6, JoinedAreSound

\* A step prints its outputs, and if a check fails those of the check.
LEMMA StepGoesOrEnds ==
  ASSUME NEW from, NEW to, NEW outputs, NEW checks, Step(from, to, outputs, checks),
         IsList(outputs), ~Has(outputs, "error"), ~Has(outputs, "results"),
         SoundChecks(checks), from \notin {"close", "exited"}, to # "exited", run' = run
  PROVE  \/ Goes(outputs) /\ stage' = to /\ Failures(checks) = {}
         \/ /\ \E o : IsList(o) /\ ~Has(o, "progress") /\ Ends(outputs \o o)
            /\ Failures(checks) # {}
<1>1. CASE Failures(checks) = {}
  BY <1>1 DEF Step, Goes
<1>2. CASE Failures(checks) # {}
  <2>1. PICK i \in Failures(checks) : Exits(outputs \o checks[i].out, checks[i].code)
    BY <1>2 DEF Step
  <2> DEFINE o == checks[i].out
  <2>2. Tells(o, checks[i].code)
    BY <2>1 DEF SoundChecks, Failures
  <2>3. IsList(o) /\ ~Has(o, "results") /\ ~Has(o, "progress")
    BY <2>2 DEF Tells
  <2>4. /\ IsList(outputs \o o) /\ ~Has(outputs \o o, "results")
        /\ Has(outputs \o o, "error") <=> Has(o, "error")
    BY <2>3, Lists, HasBoth
  <2>5. stage = from /\ stage' = "exited" /\ out' = out \o (outputs \o o)
        /\ status' = checks[i].code
    BY <1>2, <2>1 DEF Step, Exits
  <2> HIDE DEF o
  <2>6. Ends(outputs \o o)
    BY <2>2, <2>4, <2>5 DEF Ends, Tells
  <2> QED
    BY <1>2, <2>3, <2>6
<1> QED
  BY <1>1, <1>2

\* A step that prints nothing of the progress.
Silent == \E o : IsList(o) /\ ~Has(o, "progress") /\ (Goes(o) \/ Ends(o))

LEMMA EmptyIsRight ==
  ASSUME NEW s, IsList(s)
  PROVE  s \o << >> = s /\ << >> \o s = s
BY ConcatEmptySeq DEF IsList

LEMMA PutBehind ==
  ASSUME NEW s, IsList(s), NEW x
  PROVE  Append(s, x) = s \o <<x>>
<1> DEFINE S == {s[i] : i \in DOMAIN s} \cup {x}
<1>1. s \in Seq(S) /\ x \in S
  BY DEF IsList
<1> HIDE DEF S
<1> QED
  BY <1>1

LEMMA StepIsSilent ==
  ASSUME NEW from, NEW to, NEW checks, Step(from, to, << >>, checks),
         SoundChecks(checks), from \notin {"close", "exited"}, to # "exited", run' = run
  PROVE  Silent
<1>1. IsList(<< >>) /\ ~Has(<< >>, "error") /\ ~Has(<< >>, "results") /\ ~Has(<< >>, "progress")
  BY EmptyList
<1>2. CASE Goes(<< >>)
  BY <1>1, <1>2 DEF Silent
<1>3. CASE \E o : IsList(o) /\ ~Has(o, "progress") /\ Ends(<< >> \o o)
  BY <1>3, EmptyIsRight DEF Silent
<1> QED
  BY <1>1, <1>2, <1>3, StepGoesOrEnds

LEMMA ExitsSilently ==
  ASSUME NEW o, NEW code, Exits(o, code), Tells(o, code), stage # "exited", run' = run
  PROVE  Silent /\ Ends(o)
<1>1. Ends(o)
  BY DEF Ends, Exits, Tells
<1> QED
  BY <1>1 DEF Silent, Tells

LEMMA SaysNothing ==
  ASSUME IsList(out), out' = out, status' = status, run' = run,
         stage # "exited", stage' # "exited", stage = "close" => stage' = "close"
  PROVE  Silent
<1>1. /\ IsList(<< >>) /\ ~Has(<< >>, "error") /\ ~Has(<< >>, "results")
      /\ ~Has(<< >>, "progress") /\ out = out \o << >>
  BY EmptyList, EmptyIsRight
<1>2. Goes(<< >>)
  BY <1>1 DEF Goes
<1> QED
  BY <1>1, <1>2 DEF Silent

LEMMA ParseArgsIsSilent ==
  ASSUME ParseArgs
  PROVE  Silent
<1>1. Step("parse", "open", << >>, ValidateCommonArgs) /\ run' = run
  BY DEF ParseArgs
<1> QED
  BY <1>1, ArgumentChecksAreSound, StepIsSilent

LEMMA OpenTraceIsSilent ==
  ASSUME OpenTrace
  PROVE  Silent
<1> DEFINE a == Check(trace.handles = << >>, <<AnError>>, 255)
           b == Error(DateRange.error # "none")
           c == Error(trace.kernel = "malformed")
           d == Error(~SkipsValidation /\ ~trace.readable)
<1>1. Step("open", "create", << >>, <<a, b, c, d>>) /\ run' = run
  BY DEF OpenTrace
<1>2. Tells(<<AnError>>, 255)
  BY AnErrorTells
<1>3. SoundChecks(<<a>>)
  BY <1>2, OneCheckIsSound DEF Check
<1>4. SoundChecks(<<b>>) /\ SoundChecks(<<c>>) /\ SoundChecks(<<d>>)
  BY ErrorIsSound, Zenon
<1> HIDE DEF a, b, c, d
<1>5. SoundChecks(<<a, b, c, d>>)
  BY <1>3, <1>4, FourChecksAreSound
<1> QED
  BY <1>1, <1>5, StepIsSilent

LEMMA CreateAnalysisIsSilent ==
  ASSUME CreateAnalysis
  PROVE  Silent
<1> DEFINE to == IF run.mi /\ args.testCompatibility THEN "close" ELSE "setup"
<1>1. Step("create", to, << >>, << >>) /\ run' = run /\ to # "exited"
  BY DEF CreateAnalysis
<1>2. SoundChecks(<< >>)
  BY EmptyList DEF SoundChecks
<1> HIDE DEF to
<1> QED
  BY <1>1, <1>2, StepIsSilent

\* A report fails, or is printed.
LEMMA ReportIsSilent ==
  ASSUME NEW data, NEW counted, NEW to, Report(data, counted, to),
         stage \notin {"close", "exited"}, to # "exited", run' = run, IsList(out)
  PROVE  Silent /\ (stage' = "exited" \/ stage' = to)
<1>1. CASE Exits(<<AnError>>, 1)
  <2>1. Tells(<<AnError>>, 1)
    BY AnErrorTells
  <2> QED
    BY <1>1, <2>1, ExitsSilently DEF Exits
<1>2. CASE \E x : out' = out \o Said(<<"report", x>>) /\ stage' = to /\ UNCHANGED status
  <2>1. PICK x : out' = out \o Said(<<"report", x>>) /\ stage' = to /\ UNCHANGED status
    BY <1>2
  <2>2. CASE Said(<<"report", x>>) = << >>
    BY <2>1, <2>2, EmptyIsRight, SaysNothing
  <2>3. CASE Said(<<"report", x>>) = <<<<"report", x>>>>
    <3> DEFINE o == <<<<"report", x>>>>
    <3>1. IsList(o) /\ \A kind : Has(o, kind) <=> kind = "report"
      BY ListOfOne
    <3> HIDE DEF o
    <3>2. IsList(o) /\ ~Has(o, "progress") /\ ~Has(o, "error") /\ ~Has(o, "results")
      BY <3>1
    <3>3. Goes(o)
      BY <2>1, <2>3, <3>2 DEF Goes, o
    <3> QED
      BY <2>1, <3>2, <3>3 DEF Silent
  <2> QED
    BY <2>2, <2>3 DEF Said
<1> QED
  BY <1>1, <1>2 DEF Report

LEMMA TickIsSilent ==
  ASSUME NEW data, NEW endNs, Tick(data, endNs), IsList(out)
  PROVE  Silent /\ (stage' = "exited" \/ stage' = stage)
<1>1. stage \in {"run", "end"} /\ run' = run
  BY DEF Tick
<1>2. CASE endNs = NoDate \/ run.tool = "periods"
  BY <1>1, <1>2, SaysNothing DEF Tick
<1>3. CASE ~(endNs = NoDate \/ run.tool = "periods")
  <2>1. Report(data, 1, stage)
    BY <1>3 DEF Tick
  <2> QED
    BY <1>1, <2>1, ReportIsSilent
<1> QED
  BY <1>2, <1>3

LEMMA LastTickIsSilent ==
  ASSUME NEW endNs, LastTick(endNs), IsList(out)
  PROVE  Silent /\ (stage' = "exited" \/ stage' = "post")
<1>1. stage = "end" /\ run' = run
  BY DEF LastTick
<1>2. CASE endNs = NoDate \/ run.tool # "periods"
  BY <1>1, <1>2, SaysNothing DEF LastTick
<1>3. CASE ~(endNs = NoDate \/ run.tool # "periods")
  <2>1. Report(run.final, 0, "post")
    BY <1>3 DEF LastTick
  <2> QED
    BY <1>1, <2>1, ReportIsSilent
<1> QED
  BY <1>2, <1>3

LEMMA PostAnalysisIsSilent ==
  ASSUME PostAnalysis, IsList(out)
  PROVE  Silent
<1>1. stage = "post" /\ run' = run
  BY DEF PostAnalysis
<1>2. CASE ~run.mi
  BY <1>1, <1>2, SaysNothing DEF PostAnalysis
<1>3. CASE run.mi /\ SummaryRaises
  <2>1. Exits(<<AnError>>, 1)
    BY <1>3 DEF PostAnalysis
  <2>2. Tells(<<AnError>>, 1)
    BY AnErrorTells
  <2> QED
    BY <1>1, <2>1, <2>2, ExitsSilently
<1>4. CASE run.mi /\ ~SummaryRaises
  <2> DEFINE o == <<<<"results", tables'>>>>
  <2>1. out' = Append(out, <<"results", tables'>>) /\ stage' = "close" /\ status' = status
    BY <1>4 DEF PostAnalysis
  <2>2. out' = out \o o
    <3> PICK made : made = tables'
      OBVIOUS
    <3> QED
      BY <2>1, PutBehind
  <2>3. IsList(o) /\ Len(o) = 1 /\ \A kind : Has(o, kind) <=> kind = "results"
    <3> PICK made : made = tables'
      OBVIOUS
    <3> QED
      BY ListOfOne
  <2> HIDE DEF o
  <2>4. Goes(o)
    BY <1>1, <2>1, <2>2, <2>3 DEF Goes
  <2> QED
    BY <2>3, <2>4 DEF Silent
<1> QED
  BY <1>2, <1>3, <1>4

LEMMA EndIsSilent ==
  ASSUME CloseTrace \/ StepRaises \/ Cancelled
  PROVE  Silent /\ stage' = "exited"
<1>1. Tells(<<AnError>>, 1)
  BY AnErrorTells
<1>2. Tells(<< >>, 0)
  BY EmptyList DEF Tells
<1>3. Tells(Said(<<"cancelled">>), 0)
  <2>1. IsList(<<<<"cancelled">>>>) /\ \A kind : Has(<<<<"cancelled">>>>, kind) <=> kind = "cancelled"
    BY ListOfOne
  <2> QED
    BY <1>2, <2>1 DEF Said, Tells
<1>4. CASE CloseTrace
  BY <1>2, <1>4, ExitsSilently DEF CloseTrace, Exits
<1>5. CASE StepRaises
  BY <1>1, <1>5, ExitsSilently DEF StepRaises, Exits
<1>6. CASE Cancelled
  BY <1>3, <1>6, ExitsSilently DEF Cancelled, Exits
<1> QED
  BY <1>4, <1>5, <1>6

-----------------------------------------------------------------------------
(* Errors and the exit status.                                             *)

LEMMA GoingOn ==
  ASSUME OutputInv, NEW o, Goes(o)
  PROVE  OutputInv'
<1>1. /\ IsList(out) /\ IsList(o) /\ out' = out \o o
      /\ status = NoDate /\ ~Has(out, "error") /\ ~Has(o, "error") /\ status' = NoDate
      /\ stage # "exited" /\ stage' # "exited"
  BY DEF OutputInv, Goes
<1>2. IsList(out')
  BY <1>1, Lists
<1>3. ~Has(out', "error")
  BY <1>1, HasBoth
<1>4. ASSUME stage' \notin {"close", "exited"} PROVE ~Has(out', "results")
  <2>1. ~Has(o, "results") /\ stage \notin {"close", "exited"}
    BY <1>4 DEF Goes
  <2>2. ~Has(out, "results")
    BY <2>1 DEF OutputInv
  <2> QED
    BY <1>1, <2>1, <2>2, HasBoth
<1>5. ErrorsFail'
  BY <1>1, <1>3 DEF ErrorsFail, Has, IsOutput
<1>6. ResultsOnce'
  <2>0. ASSUME NEW i \in DOMAIN out', out'[i][1] = "results", NEW j \in DOMAIN out', out'[j][1] = "results"
        PROVE  i = j
    <3>1. /\ Len(out) \in Nat /\ Len(o) \in Nat
          /\ DOMAIN out = 1 .. Len(out) /\ DOMAIN o = 1 .. Len(o)
          /\ DOMAIN out' = 1 .. Len(out) + Len(o)
          /\ \A k \in DOMAIN out' : out'[k] = IF k <= Len(out) THEN out[k] ELSE o[k - Len(out)]
      BY <1>1, Lists
    <3>2. CASE Has(o, "results")
      <4>1. ~Has(out, "results") /\ Len(o) = 1
        BY <1>1, <3>2 DEF Goes, OutputInv
      <4>2. ASSUME NEW k \in DOMAIN out', out'[k][1] = "results" PROVE k = Len(out) + 1
        <5>1. ~(k <= Len(out))
          BY <3>1, <4>1, <4>2 DEF Has
        <5> QED
          BY <3>1, <4>1, <5>1
      <4> QED
        BY <2>0, <4>2
    <3>3. CASE ~Has(o, "results")
      <4>1. ASSUME NEW k \in DOMAIN out', out'[k][1] = "results"
            PROVE  k \in DOMAIN out /\ out[k][1] = "results"
        BY <1>1, <3>3, <4>1, StillThere
      <4> QED
        BY <2>0, <4>1 DEF OutputInv, ResultsOnce, IsOutput
    <3> QED
      BY <3>2, <3>3
  <2> QED
    BY <2>0 DEF ResultsOnce, IsOutput
<1> QED
  BY <1>1, <1>2, <1>3, <1>4, <1>5, <1>6 DEF OutputInv, IsList, Has

LEMMA Ending ==
  ASSUME OutputInv, NEW o, Ends(o)
  PROVE  OutputInv'
<1>1. /\ IsList(out) /\ IsList(o) /\ out' = out \o o
      /\ ~Has(out, "error") /\ ~Has(o, "results") /\ stage' = "exited"
      /\ status' # 0 <=> Has(o, "error")
  BY DEF OutputInv, Ends
<1>2. IsList(out')
  BY <1>1, Lists
<1>3. status' # 0 <=> Has(out', "error")
  BY <1>1, HasBoth
<1>4. ASSUME NEW i \in DOMAIN out', NEW j \in DOMAIN out', i < j, out'[i][1] = "error"
      PROVE  out'[j][1] # "results"
  <2>1. /\ Len(out) \in Nat /\ Len(o) \in Nat
        /\ DOMAIN out = 1 .. Len(out) /\ DOMAIN o = 1 .. Len(o)
        /\ DOMAIN out' = 1 .. Len(out) + Len(o)
        /\ \A k \in DOMAIN out' : out'[k] = IF k <= Len(out) THEN out[k] ELSE o[k - Len(out)]
    BY <1>1, Lists
  <2>2. ~(i <= Len(out))
    BY <1>1, <1>4, <2>1 DEF Has
  <2>3. j - Len(out) \in DOMAIN o /\ out'[j] = o[j - Len(out)]
    BY <1>4, <2>1, <2>2
  <2> QED
    BY <1>1, <2>3 DEF Has
<1>5. ErrorsFail'
  BY <1>3, <1>4 DEF ErrorsFail, Has, IsOutput
<1>6. ResultsOnce'
  <2>1. ASSUME NEW i \in DOMAIN out', out'[i][1] = "results"
        PROVE  i \in DOMAIN out /\ out[i][1] = "results"
    BY <1>1, <2>1, StillThere
  <2> QED
    BY <2>1 DEF OutputInv, ResultsOnce, IsOutput
<1> QED
  BY <1>1, <1>2, <1>5, <1>6 DEF OutputInv, IsList

\* The beginning and the end of the progress.
Zero == <<"progress", 0, 1>>
One  == <<"progress", 1, 1>>

LEMMA BeginRunPrints ==
  ASSUME BeginRun
  PROVE  \/ \E o \in {<< >>, <<Zero>>} : Goes(o) /\ stage' = "run"
         \/ \E o \in {<< >>, <<Zero>>} : \E p : IsList(p) /\ ~Has(p, "progress") /\ Ends(o \o p)
<1> DEFINE o == IF ShowsProgress THEN <<Zero>> ELSE << >>
           fails == intersect /\ ~trace.intersects
<1>1. Step("setup", "run", o, <<Error(fails)>>) /\ run' = run
  BY DEF BeginRun, Zero
<1>2. IsList(<<Zero>>) /\ \A kind : Has(<<Zero>>, kind) <=> kind = "progress"
  <2>1. Zero[1] = "progress"
    BY DEF Zero
  <2> QED
    BY <2>1, ListOfOne
<1>3. IsList(o) /\ ~Has(o, "error") /\ ~Has(o, "results") /\ o \in {<< >>, <<Zero>>}
  BY <1>2, EmptyList
<1>4. SoundChecks(<<Error(fails)>>)
  BY ErrorIsSound, Zenon
<1> HIDE DEF o, fails
<1>5. \/ Goes(o) /\ stage' = "run"
      \/ \E p : IsList(p) /\ ~Has(p, "progress") /\ Ends(o \o p)
  BY <1>1, <1>3, <1>4, StepGoesOrEnds
<1> QED
  BY <1>3, <1>5, Zenon

LEMMA ReadEventPrints ==
  ASSUME NEW ts, NEW slow, ReadEvent(ts, slow), IsList(out)
  PROVE  /\ stage = "run" /\ stage' = "run"
         /\ \/ Goes(<< >>)
            \/ progress # None /\ Goes(<<Shown(Updated(progress, ts))>>)
<1>1. stage = "run" /\ stage' = "run" /\ status' = status /\ run' = run
  BY DEF ReadEvent
<1>2. CASE out' = out
  <2>1. /\ IsList(<< >>) /\ ~Has(<< >>, "error") /\ ~Has(<< >>, "results") /\ out' = out \o << >>
    BY <1>2, EmptyList, EmptyIsRight
  <2> QED
    BY <1>1, <2>1 DEF Goes
<1>3. CASE progress # None /\ out' = Append(out, Shown(Updated(progress, ts)))
  <2> DEFINE x == Shown(Updated(progress, ts))
  <2>1. x[1] = "progress"
    BY DEF Shown
  <2> HIDE DEF x
  <2>2. out' = out \o <<x>>
    BY <1>3, PutBehind DEF x
  <2>3. IsList(<<x>>) /\ ~Has(<<x>>, "error") /\ ~Has(<<x>>, "results")
    BY <2>1, ListOfOne
  <2>4. Goes(<<x>>)
    BY <1>1, <2>2, <2>3 DEF Goes
  <2> QED
    BY <1>1, <1>3, <2>4 DEF x
<1> QED
  BY <1>1, <1>2, <1>3 DEF ReadEvent

LEMMA EndLoopPrints ==
  ASSUME EndLoop, IsList(out)
  PROVE  /\ stage = "run" /\ stage' = "end"
         /\ Goes(<< >>) \/ (progress # None /\ Goes(<<One>>))
<1>1. stage = "run" /\ stage' = "end" /\ status' = status /\ run' = run
  BY DEF EndLoop
<1>2. CASE progress = None
  <2>1. /\ IsList(<< >>) /\ ~Has(<< >>, "error") /\ ~Has(<< >>, "results") /\ out' = out \o << >>
    BY <1>2, EmptyList, EmptyIsRight DEF EndLoop
  <2> QED
    BY <1>1, <2>1 DEF Goes
<1>3. CASE progress # None
  <2>1. out' = out \o <<One>>
    BY <1>3, PutBehind DEF EndLoop, One
  <2>2. IsList(<<One>>) /\ ~Has(<<One>>, "error") /\ ~Has(<<One>>, "results")
    <3>1. One[1] = "progress"
      BY DEF One
    <3> QED
      BY <3>1, ListOfOne
  <2> QED
    BY <1>1, <1>3, <2>1, <2>2 DEF Goes
<1> QED
  BY <1>2, <1>3

\* Before the analysis runs.
Early == {"parse", "open", "create", "setup"}

\* A step that is not about the progress.
Other ==
    /\ Silent /\ UNCHANGED <<run, lastTs, progress>>
    /\ stage # "run" => stage' # "run"
    /\ stage' \in Early => stage \in Early

\* Every step, by what it prints of the progress.
LEMMA StepsPrint ==
  ASSUME IsList(out), CommandNext
  PROVE  \/ Other
         \/ BeginRun
         \/ \E ts \in trace.stamps, slow \in BOOLEAN : ReadEvent(ts, slow)
         \/ EndLoop
<1>1. CASE ParseArgs \/ OpenTrace \/ CreateAnalysis
  <2>1. Silent
    BY <1>1, ParseArgsIsSilent, OpenTraceIsSilent, CreateAnalysisIsSilent
  <2>2. stage' # "run" /\ stage \in Early /\ UNCHANGED <<run, lastTs, progress>>
    BY <1>1 DEF ParseArgs, OpenTrace, CreateAnalysis, Step, Exits, Early
  <2> QED
    BY <2>1, <2>2 DEF Other
<1>2. CASE PostAnalysis
  <2>1. stage' \in {"close", "exited"} /\ UNCHANGED <<run, lastTs, progress>>
    BY <1>2 DEF PostAnalysis, Exits
  <2> QED
    BY <1>2, <2>1, PostAnalysisIsSilent DEF Other, Early
<1>3. CASE CloseTrace \/ StepRaises \/ Cancelled
  <2>1. UNCHANGED <<run, lastTs, progress>>
    BY <1>3 DEF CloseTrace, StepRaises, Cancelled
  <2> QED
    BY <1>3, <2>1, EndIsSilent DEF Other, Early
<1>4. CASE \E data \in run.data, e \in {NoDate, 0} : Tick(data, e)
  <2>1. UNCHANGED <<run, lastTs, progress>>
    BY <1>4 DEF Tick
  <2> QED
    BY <1>4, <2>1, TickIsSilent DEF Other, Early
<1>5. CASE \E e \in {NoDate, 0} : LastTick(e)
  <2>1. UNCHANGED <<run, lastTs, progress>>
    BY <1>5 DEF LastTick
  <2> QED
    BY <1>5, <2>1, LastTickIsSilent DEF Other, Early
<1> QED
  BY <1>1, <1>2, <1>3, <1>4, <1>5 DEF CommandNext

LEMMA OutputSteps ==
  ASSUME OutputInv, [CommandNext]_commandVars
  PROVE  OutputInv'
<1>0. IsList(out)
  BY DEF OutputInv
<1>1. CASE UNCHANGED commandVars
  <2>1. out' = out /\ stage' = stage /\ status' = status
    BY <1>1 DEF commandVars
  <2> QED
    BY <2>1 DEF OutputInv, IsList, Has, ErrorsFail, ResultsOnce, IsOutput
<1>2. CASE Other
  BY <1>2, GoingOn, Ending DEF Other, Silent
<1>3. CASE BeginRun
  BY <1>3, BeginRunPrints, GoingOn, Ending
<1>4. CASE \E ts \in trace.stamps, slow \in BOOLEAN : ReadEvent(ts, slow)
  BY <1>0, <1>4, ReadEventPrints, GoingOn
<1>5. CASE EndLoop
  BY <1>0, <1>5, EndLoopPrints, GoingOn
<1> QED
  BY <1>0, <1>1, <1>2, <1>3, <1>4, <1>5, StepsPrint

LEMMA OutputStarts ==
  ASSUME CommandInit
  PROVE  OutputInv
<1>1. out = << >> /\ stage = "parse" /\ status = NoDate
  BY DEF CommandInit
<1>2. IsList(out) /\ ~Has(out, "error") /\ ~Has(out, "results")
  BY <1>1, EmptyList
<1>3. ErrorsFail /\ ResultsOnce
  BY <1>1, <1>2 DEF ErrorsFail, ResultsOnce, Has
<1> QED
  BY <1>1, <1>2, <1>3 DEF OutputInv

\* Whoever starts the command can tell success from failure by its status, for
\* any runs: an error was told if and only if it is not 0, and no results
\* follow an error (cli/command.py:71-129).
THEOREM CommandErrors == CommandSpec => []ErrorsFail
<1>1. CommandInit => OutputInv
  BY OutputStarts
<1>2. OutputInv /\ [CommandNext]_commandVars => OutputInv'
  BY OutputSteps
<1>3. OutputInv => ErrorsFail
  BY DEF OutputInv
<1> QED
  BY <1>1, <1>2, <1>3, PTL DEF CommandSpec

\* The results are printed at most once, for any runs: a reader of the output
\* in MI mode finds one document (cli/command.py:305-313).
THEOREM CommandResults == CommandSpec => []ResultsOnce
<1>1. CommandInit => OutputInv
  BY OutputStarts
<1>2. OutputInv /\ [CommandNext]_commandVars => OutputInv'
  BY OutputSteps
<1>3. OutputInv => ResultsOnce
  BY DEF OutputInv
<1> QED
  BY <1>1, <1>2, <1>3, PTL DEF CommandSpec

-----------------------------------------------------------------------------
(* The dates.                                                              *)

LEMMA SameDates ==
  ASSUME run' = run
  PROVE  DateRange' = DateRange
BY DEF DateRange, DateArg, CheckEnd, args, trace

\* Only the step that opens the trace sets the dates, and the dates of what
\* goes on after it were accepted.
LEMMA OpenedDates ==
  ASSUME OpenTrace, stage' # "exited"
  PROVE  DateRange.error = "none" /\ conf' = [begin |-> DateRange.begin, end |-> DateRange.end]
<1> DEFINE a == Check(trace.handles = << >>, <<AnError>>, 255)
           b == Error(DateRange.error # "none")
           c == Error(trace.kernel = "malformed")
           d == Error(~SkipsValidation /\ ~trace.readable)
<1>1. /\ Step("open", "create", << >>, <<a, b, c, d>>)
      /\ conf' = IF DateRange.error = "none"
                   THEN [begin |-> DateRange.begin, end |-> DateRange.end] ELSE conf
  BY DEF OpenTrace
<1>2. b.fails = (DateRange.error # "none")
  BY DEF Error, Check
<1> HIDE DEF a, b, c, d
<1>3. 2 \in DOMAIN <<a, b, c, d>> /\ <<a, b, c, d>>[2] = b
  OBVIOUS
<1>4. Failures(<<a, b, c, d>>) = {}
  BY <1>1, Zenon DEF Step, Exits
<1>5. ~b.fails
  BY <1>3, <1>4, Zenon DEF Failures
<1> QED
  BY <1>1, <1>2, <1>5

LEMMA OtherSteps ==
  ASSUME CommandNext
  PROVE  /\ run' = run
         /\ \/ OpenTrace
            \/ stage' \in {"open", "exited"}
            \/ stage \notin {"parse", "open", "exited"} /\ conf' = conf
<1>1. CASE ParseArgs
  BY <1>1 DEF ParseArgs, Step, Exits
<1>2. CASE OpenTrace
  BY <1>2 DEF OpenTrace
<1>3. CASE CreateAnalysis \/ BeginRun
  BY <1>3 DEF CreateAnalysis, BeginRun, Step
<1>4. CASE EndLoop \/ PostAnalysis \/ CloseTrace \/ StepRaises \/ Cancelled
  BY <1>4 DEF EndLoop, PostAnalysis, CloseTrace, StepRaises, Cancelled, Exits
<1>5. CASE \E ts \in trace.stamps, slow \in BOOLEAN : ReadEvent(ts, slow)
  BY <1>5 DEF ReadEvent
<1>6. CASE \E data \in run.data, e \in {NoDate, 0} : Tick(data, e)
  BY <1>6 DEF Tick
<1>7. CASE \E e \in {NoDate, 0} : LastTick(e)
  BY <1>7 DEF LastTick
<1> QED
  BY <1>1, <1>2, <1>3, <1>4, <1>5, <1>6, <1>7 DEF CommandNext

LEMMA DatesSteps ==
  ASSUME DatesInv, [CommandNext]_commandVars
  PROVE  DatesInv'
<1>1. run' = run /\ run \in Runs
  <2>1. CASE UNCHANGED commandVars
    BY <2>1 DEF commandVars, DatesInv
  <2> QED
    BY <2>1, OtherSteps DEF DatesInv
<1>2. DateRange' = DateRange
  BY <1>1, SameDates
<1>3. ASSUME stage' \notin {"parse", "open", "exited"}
      PROVE  /\ DateRange.error = "none"
             /\ conf' = [begin |-> DateRange.begin, end |-> DateRange.end]
  <2>1. CASE UNCHANGED commandVars
    BY <1>3, <2>1 DEF commandVars, DatesInv
  <2>2. CASE OpenTrace
    BY <1>3, <2>2, OpenedDates
  <2>3. CASE stage \notin {"parse", "open", "exited"} /\ conf' = conf
    BY <2>3 DEF DatesInv
  <2> QED
    BY <1>3, <2>1, <2>2, <2>3, OtherSteps
<1> QED
  BY <1>1, <1>2, <1>3 DEF DatesInv

\* Without the dates of the trace, a time of day has no day.
LEMMA OldTimesFail ==
  ASSUME NEW t, ~IsMultiDay(t), OldBabeltrace(t), NEW ns \in Int
  PROVE  ParseTraceDate(t, FormatTimestamp(ns, FALSE, FALSE), FALSE).error # "none"
<1> DEFINE sec  == ToLocal(ns \div NsPerSec) % SecPerDay
           nsec == ns % NsPerSec
<1>1. FormatTimestamp(ns, FALSE, FALSE)
         = [form |-> "time_ns", day |-> 0, sec |-> sec, nsec |-> nsec]
  BY DEF FormatTimestamp
<1>2. sec \in 0 .. SecPerDay - 1 /\ nsec \in Int /\ 0 \in Int
  BY PrintedFields
<1> HIDE DEF sec, nsec
<1>3. ParseDate([form |-> "time_ns", day |-> 0, sec |-> sec, nsec |-> nsec])
         = {TimeOfDay(sec, nsec)}
  BY <1>2, PrintedDates, Zenon
<1>4. (CHOOSE r \in {TimeOfDay(sec, nsec)} : TRUE) = TimeOfDay(sec, nsec)
  OBVIOUS
<1>5. TimeOfDay(sec, nsec).of = "time" /\ TraceDate(t) = [error |-> "type"]
  BY DEF TimeOfDay, TraceDate
<1>6. ParseTraceDate(t, FormatTimestamp(ns, FALSE, FALSE), FALSE) = [error |-> "type"]
  <2>1. "time" # "datetime" /\ TraceDate(t).error # "none"
    BY <1>5
  <2> QED
    BY <1>1, <1>3, <1>4, <1>5, <2>1, Zenon DEF ParseTraceDate
<1>7. [error |-> "type"].error # "none"
  OBVIOUS
<1> QED
  BY <1>6, <1>7, Zenon

\* What two dates that are accepted come from.
LEMMA AcceptedRange ==
  ASSUME NEW b, NEW e, CheckEnd(FromTo(b, e)).error = "none"
  PROVE  b.error = "none" /\ CheckEnd(FromTo(b, e)).begin = b.ns
<1>1. CheckEnd(FromTo(b, e)) = FromTo(b, e)
  BY DEF CheckEnd
<1> QED
  BY <1>1 DEF FromTo

LEMMA FirstIsPrinted ==
  ASSUME NEW ns \in Int, NEW read, FirstAlike(read, ns)
  PROVE  FirstPrinted(read, ns)
<1>1. /\ FormatTimestamp(read, TRUE, FALSE) = FormatTimestamp(ns, TRUE, FALSE)
      /\ \A other \in Int :
            FormatTimestamp(other, TRUE, FALSE) = FormatTimestamp(ns, TRUE, FALSE) => read <= other
  BY DEF FirstAlike
<1>2. \A shift \in {0, Saving, -Saving} : ns + shift * NsPerSec \in Int
  BY ZoneTypes
<1> QED
  BY <1>1, <1>2, Zenon DEF FirstPrinted

LEMMA BeginReadBack ==
  ASSUME DatesInv, ~args.gmt, stage \notin {"parse", "open", "exited"},
         NEW ns \in trace.stamps,
         args.timerange = NoDate, args.begin = FormatTimestamp(ns, MultiDay, FALSE),
         MultiDay \/ LocalDay(ns) = LocalDay(trace.begin)
  PROVE  FirstPrinted(conf.begin, ns)
<1>1. /\ ns \in Int /\ args.gmt = FALSE
      /\ trace.begin \in Int \cup {NoDate} /\ trace.end \in Int \cup {NoDate}
      /\ NoDate # FormatTimestamp(ns, TRUE, FALSE) /\ NoDate # FormatTimestamp(ns, FALSE, FALSE)
  BY RunsAssumption DEF DatesInv, args, trace
<1> DEFINE b == ParseTraceDate(trace, args.begin, FALSE)
<1>2. MultiDay \in BOOLEAN
  BY DEF MultiDay, IsMultiDay, IsMultiDayOld
<1>3. b.error = "none" /\ conf.begin = b.ns
  <2>1. args.begin # NoDate
    BY <1>1, <1>2
  <2>2. DateArg(args.begin) = b
    BY <1>1, <2>1 DEF DateArg
  <2>3. DateRange = CheckEnd(FromTo(b, DateArg(args.end)))
    BY <2>2 DEF DateRange
  <2>4. DateRange.error = "none" /\ conf = [begin |-> DateRange.begin, end |-> DateRange.end]
    BY DEF DatesInv
  <2>5. conf.begin = DateRange.begin
    BY <2>4
  <2> HIDE DEF b
  <2> QED
    BY <2>3, <2>4, <2>5, AcceptedRange
<1>4. \E read \in Int : b = [error |-> "none", ns |-> read] /\ FirstAlike(read, ns)
  <2>1. CASE MultiDay
    <3>1. args.begin = FormatTimestamp(ns, TRUE, FALSE)
      BY <1>2, <2>1
    <3> QED
      BY <1>1, <3>1, FullDatesRoundTrip
  <2>2. CASE ~MultiDay /\ OldBabeltrace(trace)
    <3>1. args.begin = FormatTimestamp(ns, FALSE, FALSE)
      BY <1>2, <2>2
    <3>2. ~IsMultiDay(trace)
      BY <2>2 DEF MultiDay
    <3> QED
      BY <1>1, <1>3, <2>2, <3>1, <3>2, OldTimesFail
  <2>3. CASE ~MultiDay /\ ~OldBabeltrace(trace)
    <3>1. args.begin = FormatTimestamp(ns, FALSE, FALSE)
      BY <1>2, <2>3
    <3>2. trace.begin \in Int /\ trace.end \in Int /\ LocalDay(ns) = LocalDay(trace.begin)
      BY <1>1, <2>3 DEF OldBabeltrace
    <3>3. ~IsMultiDay(trace)
      BY <2>3 DEF MultiDay
    <3> QED
      BY <1>1, <3>1, <3>2, <3>3, TimesRoundTrip
  <2> QED
    BY <2>1, <2>2, <2>3
<1> HIDE DEF b
<1>5. PICK read \in Int : b = [error |-> "none", ns |-> read] /\ FirstAlike(read, ns)
  BY <1>4
<1>6. conf.begin = read
  BY <1>3, <1>5
<1> QED
  BY <1>1, <1>5, <1>6, FirstIsPrinted

LEMMA RangeReadBack ==
  ASSUME DatesInv, ~args.gmt, stage \notin {"parse", "open", "exited"},
         NEW ns \in trace.stamps, args.timerange = FormatTimeRange(ns, ns, TRUE, FALSE)
  PROVE  FirstPrinted(conf.begin, ns) /\ FirstPrinted(conf.end, ns)
<1>1. /\ ns \in Int /\ args.gmt = FALSE /\ args.timerange # NoDate
      /\ conf = [begin |-> DateRange.begin, end |-> DateRange.end]
  BY RunsAssumption DEF DatesInv, args, trace
<1>2. DateRange = ParseTimeRange(trace, FormatTimeRange(ns, ns, TRUE, FALSE), FALSE)
  BY <1>1 DEF DateRange
<1>3. PICK first \in Int, last \in Int :
         /\ DateRange = [error |-> "none", begin |-> first, end |-> last]
         /\ FirstAlike(first, ns) /\ FirstAlike(last, ns)
  BY <1>1, <1>2, RangesRoundTrip
<1>4. conf.begin = first /\ conf.end = last
  BY <1>1, <1>3
<1> QED
  BY <1>1, <1>3, <1>4, FirstIsPrinted

\* A date copied from a report to --begin or --timerange selects the first
\* timestamp that is printed so, in every step after the trace is opened, for
\* any timezone with any summer time and any trace (parse_utils.py:404-418,
\* command.py:744-815).
THEOREM CommandDates == CommandSpec => []DatesRoundTrip
<1>1. CommandInit => DatesInv
  BY DEF CommandInit, DatesInv
<1>2. DatesInv /\ [CommandNext]_commandVars => DatesInv'
  BY DatesSteps
<1>3. DatesInv => DatesRoundTrip
  BY BeginReadBack, RangeReadBack DEF DatesRoundTrip
<1> QED
  BY <1>1, <1>2, <1>3, PTL DEF CommandSpec

-----------------------------------------------------------------------------
(* The progress.                                                           *)

LEMMA FirstOfFive ==
  ASSUME NEW m \in SUBSET (1 .. 5), m # {}
  PROVE  \E i \in m : \A j \in m : i <= j
<1>1. CASE 1 \in m
  BY <1>1
<1>2. CASE 1 \notin m /\ 2 \in m
  BY <1>2
<1>3. CASE 1 \notin m /\ 2 \notin m /\ 3 \in m
  BY <1>3
<1>4. CASE 1 \notin m /\ 2 \notin m /\ 3 \notin m /\ 4 \in m
  BY <1>4
<1>5. CASE 1 \notin m /\ 2 \notin m /\ 3 \notin m /\ 4 \notin m
  <2>1. \A i \in m : i = 5
    BY <1>5
  <2>2. PICK i \in m : TRUE
    OBVIOUS
  <2>3. \A j \in m : i <= j
    BY <2>1
  <2> QED
    BY <2>2, <2>3
<1> QED
  BY <1>1, <1>2, <1>3, <1>4, <1>5

\* The fields of what is parsed are numbers.
IsParsed(p) == p.at \in Int /\ p.nsec \in Int

LEMMA ParsedDates ==
  ASSUME NEW d, IsDate(d), NEW p \in ParseDate(d)
  PROVE  IsParsed(p)
<1> DEFINE rs == <<ParseFullWithNsec(d), ParseFull(d), ParseTimeWithNsec(d),
                   ParseTime(d), ParseTimestamp(d)>>
           m  == {i \in DOMAIN rs : rs[i] # {}}
           n  == CHOOSE i \in m : \A j \in m : i <= j
<1>0. d.day \in Int /\ d.sec \in Int /\ d.nsec \in Int
      /\ Timezone \in Int /\ Saving \in Int /\ SecPerDay \in Int
  BY ZoneTypes DEF IsDate
<1>1. ASSUME NEW at \in Int, NEW nsec \in Int
      PROVE  IsParsed(TimeOfDay(at, nsec)) /\ \A fold : IsParsed(DateTime(at, nsec, fold))
  BY DEF IsParsed, DateTime, TimeOfDay
<1>2. d.day * SecPerDay + d.sec \in Int /\ ToLocal(d.day * SecPerDay + d.sec) \in Int
      /\ 0 \in Int
  BY <1>0 DEF ToLocal
<1>3. \A i \in 1 .. 5 : \A q \in rs[i] : IsParsed(q)
  <2>1. /\ \A q \in ParseFullWithNsec(d) : IsParsed(q)
        /\ \A q \in ParseFull(d) : IsParsed(q)
        /\ \A q \in ParseTimeWithNsec(d) : IsParsed(q)
        /\ \A q \in ParseTime(d) : IsParsed(q)
        /\ \A q \in ParseTimestamp(d) : IsParsed(q)
    BY <1>0, <1>1, <1>2, Zenon
       DEF ParseFullWithNsec, ParseFull, ParseTimeWithNsec, ParseTime, ParseTimestamp
  <2> QED
    BY <2>1
<1>4. ParseDate(d) = IF m = {} THEN {} ELSE rs[n]
  BY DEF ParseDate, FirstMatch
<1>5. m \in SUBSET (1 .. 5)
  OBVIOUS
<1> HIDE DEF rs, m
<1>6. m # {} /\ p \in rs[n]
  BY <1>4
<1>7. n \in 1 .. 5
  <2>1. \E i \in m : \A j \in m : i <= j
    BY <1>5, <1>6, FirstOfFive
  <2>2. n \in m
    BY <2>1
  <2> QED
    BY <1>5, <2>2
<1> HIDE DEF n
<1> QED
  BY <1>3, <1>6, <1>7

LEMMA ParsedTraceDates ==
  ASSUME NEW t, NEW d, NEW gmt, IsDate(d),
         t.begin \in Int \cup {NoDate}, t.end \in Int \cup {NoDate},
         ParseTraceDate(t, d, gmt).error = "none"
  PROVE  ParseTraceDate(t, d, gmt).ns \in Int
<1> DEFINE p     == CHOOSE r \in ParseDate(d) : TRUE
           day   == TraceDate(t)
           Epoch(at, fold) == IF gmt THEN ToEpoch(at + Timezone, 0) ELSE ToEpoch(at, fold)
<1>0. /\ NsPerSec \in Nat \ {0} /\ SecPerDay \in Nat \ {0} /\ Timezone \in Int
      /\ NoDate \notin Int
  BY ZoneTypes
<1>1. ParseDate(d) # {} /\ ParseTraceDate(t, d, gmt) =
         IF p.of = "datetime" THEN Stamp(Epoch(p.at, p.fold), p.nsec)
         ELSE IF day.error # "none" THEN day
         ELSE Stamp(Epoch(day.day * SecPerDay + p.at, 0), p.nsec)
  <2>1. [error |-> "value"].error # "none"
    OBVIOUS
  <2> QED
    BY <2>1, Zenon DEF ParseTraceDate
<1>2. IsParsed(p)
  BY <1>1, ParsedDates
<1>3. ASSUME NEW at \in Int, NEW nsec \in Int, NEW fold
      PROVE  Stamp(Epoch(at, fold), nsec).ns \in Int
  <2>1. Epoch(at, fold) \in Int
    <3>1. at + Timezone \in Int
      BY <1>0
    <3> QED
      BY <3>1, ReadLocal
  <2> HIDE DEF Epoch
  <2> QED
    BY <1>0, <2>1 DEF Stamp
<1>4. ASSUME day.error = "none" PROVE day.day \in Int
  <2>1. ~OldBabeltrace(t) /\ day = [error |-> "none", day |-> LocalDay(t.begin)]
    BY <1>4 DEF TraceDate
  <2>2. t.begin \in Int
    BY <2>1 DEF OldBabeltrace
  <2> QED
    BY <2>1, <2>2, PrintedFields
<1> HIDE DEF p, day, Epoch
<1>5. CASE p.of = "datetime"
  BY <1>1, <1>2, <1>3, <1>5 DEF IsParsed
<1>6. CASE p.of # "datetime"
  <2>1. day.error = "none" /\ ParseTraceDate(t, d, gmt) = Stamp(Epoch(day.day * SecPerDay + p.at, 0), p.nsec)
    BY <1>1, <1>6, Zenon
  <2>2. day.day * SecPerDay + p.at \in Int /\ p.nsec \in Int
    BY <1>0, <1>2, <1>4, <2>1 DEF IsParsed
  <2> QED
    BY <1>3, <2>1, <2>2
<1> QED
  BY <1>5, <1>6

\* The end date of a command that goes on.
LEMMA EndIsDate ==
  ASSUME run \in Runs, DateRange.error = "none"
  PROVE  DateRange.end \in Int \cup {NoDate}
<1>1. /\ trace.begin \in Int \cup {NoDate} /\ trace.end \in Int \cup {NoDate}
      /\ \A d \in {args.begin, args.end} \ {NoDate} : IsDate(d)
      /\ args.timerange # NoDate /\ args.timerange.form = "range" =>
            IsDate(args.timerange.begin) /\ IsDate(args.timerange.end)
  BY RunsAssumption DEF args, trace
<1>2. ASSUME NEW b, NEW e, FromTo(b, e).error = "none"
      PROVE  e.error = "none" /\ FromTo(b, e).end = e.ns
  BY <1>2 DEF FromTo
<1>3. CASE args.timerange # NoDate
  <2> DEFINE r == args.timerange
             b == ParseTraceDate(trace, r.begin, args.gmt)
             e == ParseTraceDate(trace, r.end, args.gmt)
  <2>1. DateRange = IF r.form # "range" THEN [error |-> "value"] ELSE FromTo(b, e)
    BY <1>3, Zenon DEF DateRange, ParseTimeRange
  <2>2. [error |-> "value"].error # "none"
    OBVIOUS
  <2>3. r.form = "range" /\ DateRange = FromTo(b, e)
    BY <2>1, <2>2, Zenon
  <2>4. IsDate(r.end)
    BY <1>1, <1>3, <2>3
  <2>5. e.error = "none" /\ DateRange.end = e.ns
    <3> HIDE DEF b, e
    <3> QED
      BY <1>2, <2>3
  <2> QED
    BY <1>1, <2>4, <2>5, ParsedTraceDates
<1>4. CASE args.timerange = NoDate
  <2> DEFINE b == DateArg(args.begin)
             e == DateArg(args.end)
  <2>1. DateRange = CheckEnd(FromTo(b, e))
    BY <1>4 DEF DateRange
  <2>2. DateRange = FromTo(b, e)
    BY <2>1 DEF CheckEnd
  <2>3. e.error = "none" /\ DateRange.end = e.ns
    <3> HIDE DEF b, e
    <3> QED
      BY <1>2, <2>2
  <2>4. CASE args.end = NoDate
    BY <2>3, <2>4 DEF DateArg
  <2>5. CASE args.end # NoDate
    <3>1. e = ParseTraceDate(trace, args.end, args.gmt)
      BY <2>5 DEF DateArg
    <3>2. IsDate(args.end)
      BY <1>1, <2>5
    <3> QED
      BY <1>1, <2>3, <3>1, <3>2, ParsedTraceDates
  <2> QED
    BY <2>4, <2>5
<1> QED
  BY <1>3, <1>4

\* What may be shown is a fraction of at most 1.
Fraction(o) == o[1] = "progress" /\ o[2] \in Int /\ o[3] \in Int /\ 0 <= o[2] /\ o[2] <= o[3]

LEMMA ShownFractions ==
  ASSUME NEW p, NEW o, p.at \in Int, p.max \in Int, MayShow(p, o)
  PROVE  Fraction(o)
<1>1. CASE o = Zero \/ o = One
  BY <1>1 DEF Zero, One, Fraction
<1>2. CASE \E k \in 0 .. p.at : k <= p.max /\ o = <<"progress", k, p.max>>
  <2>1. PICK k \in 0 .. p.at : k <= p.max /\ o = <<"progress", k, p.max>>
    BY <1>2
  <2>2. k \in Int /\ 0 <= k
    OBVIOUS
  <2> QED
    BY <2>1, <2>2 DEF Fraction
<1> QED
  BY <1>1, <1>2 DEF MayShow, Zero, One

\* A progress that goes on: by more of what there is, or to the end at once if
\* the end date is before the beginning of the trace.
Advances(p, q) ==
    /\ p.at \in Int /\ q.at \in Int /\ p.max \in Int /\ q.max = p.max
    /\ \/ p.at <= q.at /\ 0 <= q.at /\ q.at <= q.max
       \/ p.max < 0 /\ q.at = q.max

LEMMA StillShown ==
  ASSUME NEW p, NEW q, Advances(p, q), NEW o, MayShow(p, o)
  PROVE  MayShow(q, o)
<1>1. CASE o = Zero
  BY <1>1 DEF MayShow, Zero
<1>2. CASE o = One /\ p.at = p.max
  BY <1>2 DEF MayShow, One, Advances
<1>3. CASE \E k \in 0 .. p.at : k <= p.max /\ o = <<"progress", k, p.max>>
  <2>1. PICK k \in 0 .. p.at : k <= p.max /\ o = <<"progress", k, p.max>>
    BY <1>3
  <2>2. k \in 0 .. q.at /\ k <= q.max /\ o = <<"progress", k, q.max>>
    BY <2>1 DEF Advances
  <2> QED
    BY <2>2 DEF MayShow
<1> QED
  BY <1>1, <1>2, <1>3 DEF MayShow, Zero, One

\* What a progress shows is not less than what it, or its end, showed before.
NotLess(o, x) == o[2] * x[3] <= x[2] * o[3]

LEMMA EndIsNotLess ==
  ASSUME NEW p, NEW o, p.at \in Int, p.max \in Int, MayShow(p, o)
  PROVE  NotLess(o, One)
<1>1. Fraction(o)
  BY ShownFractions
<1>2. One[2] = 1 /\ One[3] = 1
  BY DEF One
<1> QED
  BY <1>1, <1>2 DEF NotLess, Fraction

LEMMA NowIsNotLess ==
  ASSUME NEW q, q.at \in Int, q.max \in Int, NEW o, MayShow(q, o),
         (0 <= q.at /\ q.at <= q.max) \/ q.at = q.max
  PROVE  MayShow(q, Shown(q)) /\ NotLess(o, Shown(q))
<1>1. CASE q.at = q.max
  <2>1. Shown(q) = One
    BY <1>1 DEF Shown, One
  <2>2. MayShow(q, One)
    BY <1>1 DEF MayShow, One
  <2> QED
    BY <2>1, <2>2, EndIsNotLess
<1>2. CASE q.at # q.max
  <2> DEFINE x == <<"progress", q.at, q.max>>
  <2>1. Shown(q) = x /\ 0 <= q.at /\ q.at < q.max
    BY <1>2 DEF Shown
  <2>2. q.at \in 0 .. q.at /\ q.at <= q.max
    BY <2>1
  <2>3. MayShow(q, x)
    BY <2>2 DEF MayShow
  <2>4. x[2] = q.at /\ x[3] = q.max
    OBVIOUS
  <2> HIDE DEF x
  <2>5. ASSUME o = Zero PROVE NotLess(o, x)
    <3>1. o[2] = 0 /\ o[3] = 1
      BY <2>5 DEF Zero
    <3>2. 0 * q.max = 0 /\ q.at * 1 = q.at
      OBVIOUS
    <3> QED
      BY <2>1, <2>4, <3>1, <3>2 DEF NotLess
  <2>6. ASSUME \E k \in 0 .. q.at : k <= q.max /\ o = <<"progress", k, q.max>>
        PROVE  NotLess(o, x)
    <3>1. PICK k \in 0 .. q.at : k <= q.max /\ o = <<"progress", k, q.max>>
      BY <2>6
    <3>2. o[2] = k /\ o[3] = q.max
      BY <3>1
    <3>3. k * q.max <= q.at * q.max
      <4>1. q.max \in Nat /\ k \in Nat /\ q.at \in Nat /\ k <= q.at
        BY <2>1
      <4>2. q.at = k + (q.at - k) /\ q.at - k \in Nat
        BY <4>1
      <4>3. \A d \in Nat : (k + d) * q.max = k * q.max + d * q.max /\ 0 <= d * q.max
        BY <4>1, SMTT(30)
      <4> QED
        BY <4>1, <4>2, <4>3, SMTT(30)
    <3> QED
      BY <2>4, <3>2, <3>3 DEF NotLess
  <2> QED
    BY <1>2, <2>1, <2>3, <2>5, <2>6 DEF MayShow, Zero
<1> QED
  BY <1>1, <1>2

\* An event moves the progress on.
LEMMA UpdatedAdvances ==
  ASSUME NEW p, ProgressTyped(p), NEW ts \in Int, NEW last,
         p.at = IF last = NoDate THEN 0 ELSE Reach(p, last, p.count),
         last # NoDate => last \in Int /\ last <= ts,
         p.byTime => trace.begin <= ts /\ (last # NoDate => trace.begin <= last)
  PROVE  LET q == Updated(p, ts) IN
         /\ ProgressTyped(q) /\ q.at = Reach(q, ts, q.count) /\ Advances(p, q)
         /\ (0 <= q.at /\ q.at <= q.max) \/ q.at = q.max
<1> DEFINE q  == Updated(p, ts)
           to == IF p.byTime THEN ts - trace.begin ELSE p.count + 1
<1>1. /\ q.byTime = p.byTime /\ q.max = p.max /\ q.count = p.count + 1
      /\ q.at = IF to > p.max THEN p.max ELSE to
      /\ DOMAIN q = DOMAIN p
  <2>1. q = [p EXCEPT !.count = p.count + 1, !.at = IF to > p.max THEN p.max ELSE to]
    BY DEF Updated
  <2>2. {"byTime", "at", "count", "checked", "max"} \subseteq DOMAIN p
    BY DEF ProgressTyped
  <2> HIDE DEF q, to
  <2> QED
    BY <2>1, <2>2
<1>2. p.at \in Int /\ p.count \in Nat /\ p.max \in Int
      /\ IF p.byTime THEN trace.begin \in Int ELSE p.max \in Nat
  BY DEF ProgressTyped
<1>3. to \in Int /\ 0 <= to
  BY <1>2
<1> HIDE DEF q
<1>4. ProgressTyped(q)
  BY <1>1, <1>2, <1>3 DEF ProgressTyped
<1>5. q.at = Reach(q, ts, q.count)
  BY <1>1 DEF Reach
<1>6. p.at <= to /\ (p.at <= p.max \/ p.at = 0)
  BY <1>2 DEF Reach
<1> HIDE DEF to
<1>7. Advances(p, q) /\ ((0 <= q.at /\ q.at <= q.max) \/ q.at = q.max)
  BY <1>1, <1>2, <1>3, <1>6 DEF Advances
<1> QED
  BY <1>4, <1>5, <1>7 DEF q

LEMMA NothingShown ==
  ASSUME IsList(out), NEW o, IsList(o), out' = out \o o, ~Has(o, "progress")
  PROVE  /\ ProgressAdvances => ProgressAdvances'
         /\ \A i \in DOMAIN out' : out'[i][1] = "progress" =>
               i \in DOMAIN out /\ out'[i] = out[i]
<1>1. ASSUME NEW i \in DOMAIN out', out'[i][1] = "progress"
      PROVE  i \in DOMAIN out /\ out'[i] = out[i]
  BY <1>1, StillThere
<1>2. ProgressAdvances => ProgressAdvances'
  BY <1>1 DEF ProgressAdvances, IsOutput
<1> QED
  BY <1>1, <1>2

LEMMA OneShown ==
  ASSUME IsList(out), NEW x, out' = out \o <<x>>, Fraction(x), ProgressAdvances,
         \A i \in DOMAIN out : out[i][1] = "progress" => NotLess(out[i], x)
  PROVE  /\ ProgressAdvances'
         /\ \A i \in DOMAIN out' : (i \in DOMAIN out /\ out'[i] = out[i]) \/ out'[i] = x
<1>0. IsList(<<x>>) /\ DOMAIN <<x>> = {1} /\ Len(<<x>>) = 1 /\ <<x>>[1] = x
  BY ListOfOne
<1>1. /\ Len(out) \in Nat
      /\ DOMAIN out = 1 .. Len(out)
      /\ DOMAIN out' = 1 .. Len(out) + 1
      /\ \A i \in DOMAIN out' : out'[i] = IF i <= Len(out) THEN out[i] ELSE <<x>>[i - Len(out)]
  BY <1>0, Lists
<1>2. ASSUME NEW i \in DOMAIN out'
      PROVE  (i \in DOMAIN out /\ out'[i] = out[i]) \/ (i = Len(out) + 1 /\ out'[i] = x)
  <2>1. CASE i <= Len(out)
    BY <1>1, <2>1
  <2>2. CASE i > Len(out)
    <3>1. i = Len(out) + 1 /\ i - Len(out) = 1 /\ out'[i] = <<x>>[i - Len(out)]
      BY <1>1, <2>2
    <3> QED
      BY <1>0, <3>1
  <2> QED
    BY <1>1, <2>1, <2>2
<1>3. \A i \in DOMAIN out' : out'[i][1] = "progress" => 0 <= out'[i][2] /\ out'[i][2] <= out'[i][3]
  BY <1>2 DEF ProgressAdvances, IsOutput, Fraction
<1>4. ASSUME NEW i \in DOMAIN out', NEW j \in DOMAIN out', i < j,
             out'[i][1] = "progress", out'[j][1] = "progress"
      PROVE  NotLess(out'[i], out'[j])
  <2>1. i \in DOMAIN out /\ out'[i] = out[i]
    BY <1>1, <1>2, <1>4
  <2>2. CASE j \in DOMAIN out /\ out'[j] = out[j]
    BY <1>4, <2>1, <2>2 DEF ProgressAdvances, IsOutput, NotLess
  <2>3. CASE out'[j] = x
    BY <1>4, <2>1, <2>3
  <2> QED
    BY <1>2, <2>2, <2>3
<1>5. ProgressAdvances'
  BY <1>3, <1>4 DEF ProgressAdvances, IsOutput, NotLess
<1> QED
  BY <1>2, <1>5

AllShown(p) == \A i \in DOMAIN out : IsOutput("progress", i) => MayShow(p, out[i])

LEMMA OtherProgress ==
  ASSUME IsList(out), ProgressInv, Other
  PROVE  ProgressInv'
<1>1. PICK o : IsList(o) /\ ~Has(o, "progress") /\ out' = out \o o
  BY DEF Other, Silent, Goes, Ends
<1>2. /\ ProgressAdvances'
      /\ \A i \in DOMAIN out' : out'[i][1] = "progress" => i \in DOMAIN out /\ out'[i] = out[i]
  BY <1>1, NothingShown DEF ProgressInv
<1>3. lastTs' = lastTs /\ progress' = progress /\ trace' = trace
  BY DEF Other, trace
<1>4. stage' \in Early => lastTs'.ts = NoDate /\ ~Has(out', "progress")
  <2>1. ASSUME stage' \in Early PROVE ~Has(out, "progress") /\ lastTs.ts = NoDate
    BY <2>1 DEF Other, ProgressInv, Early
  <2> QED
    BY <1>1, <1>3, <2>1, HasBoth
<1>5. ASSUME stage' = "run", progress' # None
      PROVE  /\ ProgressTyped(progress)
             /\ progress.at = IF lastTs.ts = NoDate THEN 0
                              ELSE Reach(progress, lastTs.ts, progress.count)
             /\ \A i \in DOMAIN out' : out'[i][1] = "progress" => MayShow(progress, out'[i])
  <2>1. stage = "run" /\ progress # None
    BY <1>3, <1>5 DEF Other
  <2> QED
    BY <1>2, <2>1 DEF ProgressInv, IsOutput
<1>6. lastTs'.ts = NoDate \/ lastTs'.ts \in trace'.stamps
  BY <1>3 DEF ProgressInv
<1> QED
  BY <1>2, <1>3, <1>4, <1>5, <1>6 DEF ProgressInv, Early, Has, IsOutput, ProgressTyped, Reach


LEMMA ZeroShown ==
  ASSUME IsList(out), ~Has(out, "progress"), NEW o, IsList(o), out' = out \o o,
         \A i \in DOMAIN o : o[i][1] = "progress" => o[i] = Zero
  PROVE  /\ ProgressAdvances'
         /\ \A i \in DOMAIN out' : out'[i][1] = "progress" => out'[i] = Zero
<1>1. /\ Len(out) \in Nat /\ Len(o) \in Nat
      /\ DOMAIN out = 1 .. Len(out) /\ DOMAIN o = 1 .. Len(o)
      /\ DOMAIN out' = 1 .. Len(out) + Len(o)
      /\ \A i \in DOMAIN out' : out'[i] = IF i <= Len(out) THEN out[i] ELSE o[i - Len(out)]
  BY Lists
<1>2. ASSUME NEW i \in DOMAIN out', out'[i][1] = "progress" PROVE out'[i] = Zero
  <2>1. CASE i <= Len(out)
    <3>1. i \in DOMAIN out /\ out'[i] = out[i]
      BY <1>1, <2>1
    <3> QED
      BY <1>2, <3>1 DEF Has
  <2>2. CASE i > Len(out)
    <3>1. i - Len(out) \in DOMAIN o /\ out'[i] = o[i - Len(out)]
      BY <1>1, <2>2
    <3> QED
      BY <1>2, <3>1
  <2> QED
    BY <1>1, <2>1, <2>2
<1>3. Zero[2] = 0 /\ Zero[3] = 1
  BY DEF Zero
<1>4. ASSUME NEW i \in DOMAIN out', NEW j \in DOMAIN out',
             out'[i][1] = "progress", out'[j][1] = "progress"
      PROVE  /\ 0 <= out'[i][2] /\ out'[i][2] <= out'[i][3]
             /\ out'[i][2] * out'[j][3] <= out'[j][2] * out'[i][3]
  <2>1. out'[i] = Zero /\ out'[j] = Zero
    BY <1>2, <1>4
  <2> QED
    BY <1>3, <2>1
<1>5. ProgressAdvances'
  BY <1>4, Zenon DEF ProgressAdvances, IsOutput
<1> QED
  BY <1>2, <1>5

\* A new progress is at its beginning.
LEMMA NewIsTyped ==
  ASSUME DatesInv, stage = "setup"
  PROVE  NewProgress # None => ProgressTyped(NewProgress) /\ NewProgress.at = 0
<1>1. conf.end \in Int \cup {NoDate}
  <2>1. conf.end = DateRange.end /\ DateRange.end \in Int \cup {NoDate}
    BY EndIsDate DEF DatesInv
  <2> QED
    BY <2>1
<1>2. trace.begin \in Int \cup {NoDate} /\ trace.end \in Int \cup {NoDate} /\ trace.size \in Nat
  BY RunsAssumption DEF DatesInv, trace
<1> DEFINE end    == IF conf.end # NoDate THEN conf.end ELSE trace.end
           byTime == trace.begin # NoDate /\ end # NoDate /\ ~args.useSize
           p      == NewProgress
<1>3. /\ p.byTime = byTime /\ p.at = 0 /\ p.count = 0
      /\ p.max = IF byTime THEN end - trace.begin ELSE trace.size
      /\ DOMAIN p = {"byTime", "at", "count", "checked", "max"}
  BY DEF NewProgress
<1>4. end \in Int \cup {NoDate}
  BY <1>1, <1>2
<1> HIDE DEF end, p
<1>5. p.max \in Int /\ (IF byTime THEN trace.begin \in Int ELSE p.max \in Nat)
  <2>1. CASE byTime
    <3>1. trace.begin \in Int /\ end \in Int
      BY <1>2, <1>4, <2>1
    <3> HIDE DEF byTime
    <3> QED
      BY <1>3, <2>1, <3>1
  <2>2. CASE ~byTime
    <3> HIDE DEF byTime
    <3> QED
      BY <1>2, <1>3, <2>2
  <2> QED
    BY <2>1, <2>2
<1> HIDE DEF byTime
<1> QED
  BY <1>3, <1>5 DEF ProgressTyped, p

LEMMA BeginProgress ==
  ASSUME IsList(out), DatesInv, ProgressInv, BeginRun
  PROVE  ProgressInv'
<1>1. /\ stage = "setup" /\ run' = run /\ trace' = trace /\ lastTs' = lastTs
      /\ progress' = IF ShowsProgress THEN NewProgress ELSE None
  BY DEF BeginRun, Step, trace
<1>2. lastTs.ts = NoDate /\ ~Has(out, "progress")
  BY <1>1 DEF ProgressInv
<1>3. \E o : /\ IsList(o) /\ out' = out \o o
             /\ \A i \in DOMAIN o : o[i][1] = "progress" => o[i] = Zero
  <2>1. ASSUME NEW o \in {<< >>, <<Zero>>}
        PROVE  IsList(o) /\ \A i \in DOMAIN o : o[i] = Zero
    <3>1. IsList(<<Zero>>) /\ IsList(<< >>)
      BY EmptyList, ListOfOne
    <3>2. DOMAIN <<Zero>> = {1} /\ <<Zero>>[1] = Zero /\ DOMAIN << >> = {}
      OBVIOUS
    <3> QED
      BY <3>1, <3>2
  <2>2. CASE \E o \in {<< >>, <<Zero>>} : Goes(o) /\ stage' = "run"
    BY <2>1, <2>2 DEF Goes
  <2>3. CASE \E o \in {<< >>, <<Zero>>} : \E p : IsList(p) /\ ~Has(p, "progress") /\ Ends(o \o p)
    <3>1. PICK o \in {<< >>, <<Zero>>} : \E p : IsList(p) /\ ~Has(p, "progress") /\ Ends(o \o p)
      BY <2>3
    <3>2. PICK p : IsList(p) /\ ~Has(p, "progress") /\ Ends(o \o p)
      BY <3>1
    <3>3. IsList(o) /\ \A i \in DOMAIN o : o[i] = Zero
      BY <2>1
    <3> DEFINE u == o \o p
    <3>4. /\ IsList(u) /\ Len(o) \in Nat /\ Len(p) \in Nat
          /\ DOMAIN o = 1 .. Len(o) /\ DOMAIN p = 1 .. Len(p) /\ DOMAIN u = 1 .. Len(o) + Len(p)
          /\ \A i \in DOMAIN u : u[i] = IF i <= Len(o) THEN o[i] ELSE p[i - Len(o)]
      BY <3>2, <3>3, Lists
    <3>5. out' = out \o u
      BY <3>2 DEF Ends
    <3> HIDE DEF u
    <3>6. ASSUME NEW i \in DOMAIN u, u[i][1] = "progress" PROVE u[i] = Zero
      <4>1. CASE i <= Len(o)
        <5>1. i \in DOMAIN o /\ u[i] = o[i]
          BY <3>4, <4>1
        <5> QED
          BY <3>3, <5>1
      <4>2. CASE i > Len(o)
        <5>1. i - Len(o) \in DOMAIN p /\ u[i] = p[i - Len(o)]
          BY <3>4, <4>2
        <5> QED
          BY <3>2, <3>6, <5>1 DEF Has
      <4> QED
        BY <3>4, <4>1, <4>2
    <3> QED
      BY <3>4, <3>5, <3>6
  <2> QED
    BY <2>2, <2>3, BeginRunPrints
<1>4. /\ ProgressAdvances'
      /\ \A i \in DOMAIN out' : out'[i][1] = "progress" => out'[i] = Zero
  BY <1>2, <1>3, ZeroShown
<1>5. ASSUME progress' # None
      PROVE  /\ ProgressTyped(progress') /\ progress'.at = 0
             /\ \A i \in DOMAIN out' : out'[i][1] = "progress" => MayShow(progress', out'[i])
  <2>1. progress' = NewProgress
    BY <1>1, <1>5
  <2>2. ProgressTyped(progress') /\ progress'.at = 0
    BY <1>1, <1>5, <2>1, NewIsTyped
  <2>3. \A p : MayShow(p, Zero)
    BY DEF MayShow, Zero
  <2> QED
    BY <1>4, <2>2, <2>3
<1>6. stage' \notin Early
  BY BeginRunPrints DEF Goes, Ends, Early
<1> QED
  BY <1>1, <1>2, <1>4, <1>5, <1>6 DEF ProgressInv, Early, IsOutput, ProgressTyped

\* The stamps of the trace, and where they are.
LEMMA StampsAreDates ==
  ASSUME run \in Runs, NEW ns \in trace.stamps
  PROVE  ns \in Int /\ ns # NoDate /\ (trace.begin # NoDate => trace.begin <= ns)
BY RunsAssumption, TimezoneAssumption DEF trace

LEMMA ReadProgress ==
  ASSUME IsList(out), DatesInv, ProgressInv, NEW ts \in trace.stamps, NEW slow \in BOOLEAN,
         ReadEvent(ts, slow)
  PROVE  ProgressInv'
<1>1. /\ stage = "run" /\ stage' = "run" /\ trace' = trace
      /\ lastTs' = [ts |-> ts, n |-> lastTs.n + 1] /\ lastTs'.ts = ts
      /\ lastTs.ts # NoDate => lastTs.ts <= ts
  <2>1. ts \in Int /\ (lastTs.ts # NoDate => lastTs.ts \in Int)
    BY StampsAreDates DEF DatesInv, ProgressInv
  <2> QED
    BY <2>1 DEF ReadEvent, trace
<1>2. CASE progress = None
  <2>1. progress' = None /\ out' = out
    BY <1>2 DEF ReadEvent
  <2>2. ProgressAdvances'
    BY <2>1 DEF ProgressInv, ProgressAdvances, IsOutput
  <2> QED
    BY <1>1, <2>1, <2>2 DEF ProgressInv
<1>3. CASE progress # None
  <2> DEFINE q == Updated(progress, ts)
  <2>1. /\ ts \in Int /\ ts # NoDate /\ (trace.begin # NoDate => trace.begin <= ts)
        /\ lastTs.ts # NoDate => /\ lastTs.ts \in Int
                                 /\ trace.begin # NoDate => trace.begin <= lastTs.ts
    BY StampsAreDates DEF DatesInv, ProgressInv
  <2>2. /\ ProgressTyped(progress) /\ AllShown(progress) /\ ProgressAdvances
        /\ progress.at = IF lastTs.ts = NoDate THEN 0
                         ELSE Reach(progress, lastTs.ts, progress.count)
    BY <1>1, <1>3 DEF ProgressInv, AllShown
  <2>3. progress.byTime => trace.begin \in Int /\ trace.begin # NoDate
    BY <2>2, TimezoneAssumption DEF ProgressTyped
  <2>4. /\ ProgressTyped(q) /\ q.at = Reach(q, ts, q.count) /\ Advances(progress, q)
        /\ (0 <= q.at /\ q.at <= q.max) \/ q.at = q.max
    BY <1>1, <2>1, <2>2, <2>3, UpdatedAdvances
  <2>5. progress' = q \/ progress' = [q EXCEPT !.checked = q.count]
    BY <1>3, Zenon DEF ReadEvent
  <2> HIDE DEF q
  <2>6. /\ progress'.byTime = q.byTime /\ progress'.at = q.at /\ progress'.count = q.count
        /\ progress'.max = q.max /\ DOMAIN progress' = DOMAIN q
    BY <2>4, <2>5 DEF ProgressTyped
  <2>7. AllShown(q)
    BY <2>2, <2>4, StillShown DEF AllShown
  <2>8. ProgressAdvances' /\ \A i \in DOMAIN out' : out'[i][1] = "progress" => MayShow(q, out'[i])
    <3>1. CASE out' = out \o << >>
      <4>1. out' = out
        BY <3>1, EmptyIsRight
      <4> QED
        BY <2>2, <2>7, <4>1 DEF ProgressAdvances, AllShown, IsOutput
    <3>2. CASE out' = out \o <<Shown(q)>>
      <4>1. q.at \in Int /\ q.max \in Int
        BY <2>4 DEF ProgressTyped
      <4>2. ASSUME NEW o, MayShow(q, o) PROVE MayShow(q, Shown(q)) /\ NotLess(o, Shown(q))
        BY <2>4, <4>1, <4>2, NowIsNotLess
      <4>3. MayShow(q, Zero)
        BY DEF MayShow, Zero
      <4>4. MayShow(q, Shown(q)) /\ Fraction(Shown(q))
        BY <4>1, <4>2, <4>3, ShownFractions
      <4> DEFINE x == Shown(q)
      <4>5. \A i \in DOMAIN out : out[i][1] = "progress" => NotLess(out[i], x)
        BY <2>7, <4>2 DEF AllShown, IsOutput
      <4>6. out' = out \o <<x>> /\ Fraction(x) /\ MayShow(q, x)
        BY <3>2, <4>4
      <4> HIDE DEF x
      <4>7. /\ ProgressAdvances'
            /\ \A i \in DOMAIN out' : (i \in DOMAIN out /\ out'[i] = out[i]) \/ out'[i] = x
        BY <2>2, <4>5, <4>6, OneShown
      <4> QED
        BY <2>7, <4>6, <4>7 DEF AllShown, IsOutput
    <3> QED
      BY <3>1, <3>2, ReadEventPrints DEF Goes, q
  <2>9. \A o : MayShow(q, o) => MayShow(progress', o)
    BY <2>6 DEF MayShow
  <2>10. ProgressTyped(progress') /\ progress'.at = Reach(progress', ts, progress'.count)
    BY <2>4, <2>6 DEF ProgressTyped, Reach
  <2> QED
    BY <1>1, <2>1, <2>8, <2>9, <2>10 DEF ProgressInv, IsOutput, ProgressTyped, Reach
<1> QED
  BY <1>2, <1>3

LEMMA EndProgress ==
  ASSUME IsList(out), ProgressInv, EndLoop
  PROVE  ProgressInv'
<1>1. /\ stage = "run" /\ stage' = "end" /\ trace' = trace /\ lastTs' = lastTs
      /\ out' = out \/ (progress # None /\ out' = out \o <<One>>)
  <2>1. Goes(<< >>) => out' = out
    BY EmptyIsRight DEF Goes
  <2> QED
    BY <2>1, EndLoopPrints DEF EndLoop, Goes, trace
<1>2. ProgressAdvances'
  <2>1. CASE out' = out
    BY <2>1 DEF ProgressInv, ProgressAdvances, IsOutput
  <2>2. CASE progress # None /\ out' = out \o <<One>>
    <3>1. progress.at \in Int /\ progress.max \in Int /\ AllShown(progress)
      BY <1>1, <2>2 DEF ProgressInv, ProgressTyped, AllShown
    <3>2. \A i \in DOMAIN out : out[i][1] = "progress" => NotLess(out[i], One)
      BY <3>1, EndIsNotLess DEF AllShown, IsOutput
    <3>3. Fraction(One)
      BY DEF Fraction, One
    <3> QED
      BY <2>2, <3>2, <3>3, OneShown DEF ProgressInv
  <2> QED
    BY <1>1, <2>1, <2>2
<1> QED
  BY <1>1, <1>2 DEF ProgressInv

LEMMA ProgressSteps ==
  ASSUME OutputInv, DatesInv, ProgressInv, [CommandNext]_commandVars
  PROVE  ProgressInv'
<1>0. IsList(out)
  BY DEF OutputInv
<1>1. CASE UNCHANGED commandVars
  <2>1. UNCHANGED <<run, out, stage, lastTs, progress, trace>>
    BY <1>1 DEF commandVars, trace
  <2> QED
    BY <2>1 DEF ProgressInv, ProgressAdvances, IsOutput, Has, ProgressTyped, Reach
<1> QED
  BY <1>0, <1>1, StepsPrint, OtherProgress, BeginProgress, ReadProgress, EndProgress

LEMMA ProgressStarts ==
  ASSUME CommandInit
  PROVE  ProgressInv
<1>1. out = << >> /\ lastTs.ts = NoDate /\ stage = "parse"
  BY DEF CommandInit
<1> QED
  BY <1>1, EmptyList DEF ProgressInv, ProgressAdvances

\* The progress goes from 0 to 1 and never back, for any runs: what is shown is
\* a fraction of at most 1, and is never less than what was shown before, even
\* if the end date is before the trace (cli/progressbar.py:69-92, 139-156).
THEOREM CommandProgress == CommandSpec => []ProgressAdvances
<1> DEFINE Inv == OutputInv /\ DatesInv /\ ProgressInv
<1>1. CommandInit => Inv
  BY OutputStarts, ProgressStarts DEF CommandInit, DatesInv
<1>2. Inv /\ [CommandNext]_commandVars => Inv'
  BY OutputSteps, DatesSteps, ProgressSteps
<1>3. Inv => ProgressAdvances
  BY DEF ProgressInv
<1> QED
  BY <1>1, <1>2, <1>3, PTL DEF CommandSpec

=============================================================================
