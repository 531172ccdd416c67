--------------------------- MODULE WeatherStation ---------------------------
(***************************************************************************)
(* The readings of a station, the alerts each one raises and the           *)
(* statistics over all of them. `raised` are the alerts raised so far, and *)
(* `unanswered` tells whether a recording ever failed after it had been    *)
(* made: a Decimal may be no number, and comparing one raises.             *)
(***************************************************************************)
EXTENDS Integers, SequencesExt

CONSTANTS Temperatures, Humidities, WindSpeeds,    \* what callers may pass
          NotANumber,    \* Decimal("NaN")
          Thresholds,    \* [ceiling, floor, limit], each a number or {}
          MaxReadings    \* bound
VARIABLES station, raised, unanswered

Readings == [temperature : Temperatures, humidity : Humidities, wind : WindSpeeds]
ASSUME StationAssumption ==
    /\ NotANumber \notin Int
    /\ Temperatures \cup Humidities \cup WindSpeeds \subseteq Int \cup {NotANumber}
    /\ LET Levels == SUBSET (Int \cup {NotANumber})
       IN  Thresholds \subseteq [ceiling : Levels, floor : Levels, limit : Levels]
    /\ MaxReadings \in Nat

\* A humidity or a wind speed that is no number is refused by the comparison.
Valid(reading) == reading.humidity \in 0..100 /\ reading.wind \in Nat

\* What each threshold is compared with.
Watched(kind) == IF kind = "limit" THEN "wind" ELSE "temperature"

\* A comparison with something that is no number raises: no alert is returned.
Incomparable(reading) ==
    \E kind \in {"ceiling", "floor", "limit"} : \E bound \in station.thresholds[kind] :
        NotANumber \in {bound, reading[Watched(kind)]}

\* A threshold is the set of its one value, or empty when it is not set.
Alerts(reading) ==
    {kind \in {"ceiling", "floor", "limit"} :
        \E bound \in station.thresholds[kind] :
            CASE kind = "ceiling" -> reading.temperature > bound
              [] kind = "floor"   -> reading.temperature < bound
              [] kind = "limit"   -> reading.wind > bound}

\* Lowest, highest, sum and count: the average is sum over count.
Over(readings, field) ==
    LET values == {readings[i][field] : i \in DOMAIN readings}
    IN  [min |-> Min(values), max |-> Max(values), count |-> Len(readings),
         sum |-> MapThenSumSet(LAMBDA i : readings[i][field], DOMAIN readings)]

\* Of values one of which is no number they are none, or comparing raises.
Statistics(field) == Over(station.readings, field)
Computable(field) ==
    station.readings # <<>> /\ \A i \in DOMAIN station.readings : station.readings[i][field] \in Int

-----------------------------------------------------------------------------
WeatherInit ==
    /\ \E t \in Thresholds : station = [readings |-> <<>>, thresholds |-> t]
    /\ raised = {} /\ unanswered = FALSE

Record(reading) ==
    /\ Len(station.readings) < MaxReadings                      \* bound
    /\ Valid(reading)
    /\ station' = [station EXCEPT !.readings = Append(@, reading)]
    /\ \/ Incomparable(reading) /\ unanswered' = TRUE /\ UNCHANGED raised
       \/ ~Incomparable(reading) /\ raised' = raised \cup Alerts(reading) /\ UNCHANGED unanswered

WeatherNext == \E reading \in Readings : Record(reading)

weatherVars == <<station, raised, unanswered>>

WeatherSpec == WeatherInit /\ [][WeatherNext]_weatherVars

-----------------------------------------------------------------------------
WeatherTypeOK ==
    /\ station.readings \in Seq(Readings) /\ station.thresholds \in Thresholds
    /\ raised \subseteq {"ceiling", "floor", "limit"} /\ unanswered \in BOOLEAN

\* Whether the readings as a whole passed a threshold.
Passed(kind) ==
    \E bound \in station.thresholds[kind] :
        CASE kind = "ceiling" -> Statistics("temperature").max > bound
          [] kind = "floor"   -> Statistics("temperature").min < bound
          [] kind = "limit"   -> Statistics("wind").max > bound

\* Alerts are raised one reading at a time and statistics are taken over all:
\* where the statistics can be had, an alert raised is a threshold passed by
\* them, a threshold passed had its alert unless a recording failed half-way,
\* and no average is outside the extremes. Humidity and wind can be had for any
\* readings at all, for what is no number never gets in (station.py:34-101).
AlertsMatchStatistics ==
    station.readings # <<>> =>
        /\ Computable("humidity") /\ Computable("wind")
        /\ \A kind \in {"ceiling", "floor", "limit"} :
              Computable(Watched(kind)) /\ NotANumber \notin station.thresholds[kind] =>
                  /\ kind \in raised => Passed(kind)
                  /\ Passed(kind) /\ ~unanswered => kind \in raised
        /\ \A field \in {"temperature", "humidity", "wind"} : Computable(field) =>
              LET s == Statistics(field)
              IN  s.min * s.count <= s.sum /\ s.sum <= s.max * s.count
        /\ Statistics("humidity").min >= 0 /\ Statistics("humidity").max <= 100
        /\ Statistics("wind").min >= 0
=============================================================================
