----------------------------- MODULE ViewProofs ------------------------------
(***************************************************************************)
(* Proofs about what is looked at in several ways and about the searches:  *)
(* a weather station with any thresholds and readings, a list of any       *)
(* length, a blog of any users and posts, queries over any table, a walker *)
(* in mazes of any size and hands of any deck of cards; then what the      *)
(* views, and the searches, promise together.                              *)
(***************************************************************************)
EXTENDS Views, SequenceLemmas

\* A weather station.

-----------------------------------------------------------------------------
Measures == {"temperature", "humidity", "wind"}

AlertKinds == {"ceiling", "floor", "limit"}

\* Every reading kept is valid, what was raised is what one of them raises, and
\* no alert was lost unless a recording failed half-way.
WeatherInv ==
    /\ WeatherTypeOK
    /\ \A i \in DOMAIN station.readings : Valid(station.readings[i])
    /\ \A kind \in raised : \E i \in DOMAIN station.readings : kind \in Alerts(station.readings[i])
    /\ ~unanswered => \A i \in DOMAIN station.readings : Alerts(station.readings[i]) \subseteq raised

\* The statistics of a field over at least one reading, all of them numbers.
LEMMA OverReadings ==
  ASSUME NEW readings \in Seq(Readings), readings # <<>>, NEW field \in Measures,
         \A i \in DOMAIN readings : readings[i][field] \in Int
  PROVE  LET s == Over(readings, field) IN
         /\ s.min \in Int /\ s.max \in Int
         /\ \E i \in DOMAIN readings : readings[i][field] = s.min
         /\ \E i \in DOMAIN readings : readings[i][field] = s.max
         /\ \A i \in DOMAIN readings : s.min <= readings[i][field] /\ readings[i][field] <= s.max
         /\ s.min * s.count <= s.sum /\ s.sum <= s.max * s.count
<1> DEFINE D == DOMAIN readings
           n == Len(readings)
           v == [i \in D |-> readings[i][field]]
           values == {v[i] : i \in D}
           Loop(f) == f = [t \in SUBSET D |-> IF t = {} THEN 0 ELSE readings[Some(t)][field] + f[t \ {Some(t)}]]
           total == (CHOOSE f : Loop(f))[D]
<1>1. D = 1..n /\ n \in Nat /\ n # 0 /\ D # {} /\ IsFiniteSet(D)
  <2>1. D = 1..n /\ n \in Nat /\ n # 0
    OBVIOUS
  <2> HIDE DEF D, n
  <2>2. IsFiniteSet(1..n) /\ n \in 1..n
    BY <2>1, FS_Interval
  <2> QED
    BY <2>1, <2>2
<1>2. v \in [D -> Int] /\ \A i \in D : v[i] = readings[i][field]
  OBVIOUS
<1>3. Over(readings, field) = [min |-> Min(values), max |-> Max(values), count |-> n, sum |-> total]
  <2>1. values = {readings[i][field] : i \in DOMAIN readings}
    BY <1>2
  <2>2. total = MapThenSumSet(LAMBDA i : readings[i][field], DOMAIN readings)
    BY DEF MapThenSumSet, MapThenFoldSet, Some
  <2> HIDE DEF values, total
  <2> QED
    BY <2>1, <2>2 DEF Over
<1>4. total = SumOver(v, D)
  <2>1. ASSUME NEW t \in SUBSET D, t # {}
        PROVE  v[Some(t)] = readings[Some(t)][field]
    BY <1>2, <2>1, SomeIn
  <2> HIDE DEF v, D
  <2>2. ASSUME NEW f
        PROVE  Loop(f) <=> IsSums(f, v, D)
    BY <2>1 DEF IsSums
  <2> HIDE DEF Loop
  <2>3. (CHOOSE f : Loop(f)) = SumTable(v, D)
    BY <1>1, <1>2, <2>2, SumsTable, SumsUnique
  <2> QED
    BY <2>3 DEF SumOver
<1> HIDE DEF v, total
<1>5. /\ Min(values) \in Int /\ (\E i \in D : v[i] = Min(values)) /\ (\A i \in D : Min(values) <= v[i])
      /\ Max(values) \in Int /\ (\E i \in D : v[i] = Max(values)) /\ (\A i \in D : v[i] <= Max(values))
  BY <1>1, <1>2, Extremes
<1> HIDE DEF values
<1>6. Min(values) * n <= total /\ total <= Max(values) * n
  <2>1. v \in [1..n -> Int] /\ \A i \in 1..n : Min(values) <= v[i] /\ v[i] <= Max(values)
    BY <1>1, <1>2, <1>5
  <2> HIDE DEF D, n
  <2>2. Min(values) * n <= SumOver(v, 1..n) /\ SumOver(v, 1..n) <= Max(values) * n
    BY <1>1, <1>5, <2>1, SumWithin
  <2> QED
    BY <1>1, <1>4, <2>2
<1> DEFINE s == Over(readings, field)
<1>7. s.min = Min(values) /\ s.max = Max(values) /\ s.sum = total /\ s.count = n
  BY <1>3
<1> HIDE DEF s, D, n
<1>8. /\ s.min \in Int /\ s.max \in Int
      /\ \E i \in D : readings[i][field] = s.min
      /\ \E i \in D : readings[i][field] = s.max
      /\ \A i \in D : s.min <= readings[i][field] /\ readings[i][field] <= s.max
      /\ s.min * s.count <= s.sum /\ s.sum <= s.max * s.count
  BY <1>2, <1>5, <1>6, <1>7
<1> QED
  BY <1>8 DEF s, D

LEMMA AlertsOf ==
  ASSUME NEW reading \in Readings
  PROVE  /\ Alerts(reading) \subseteq AlertKinds
         /\ "ceiling" \in Alerts(reading) <=> \E b \in station.thresholds["ceiling"] : reading.temperature > b
         /\ "floor" \in Alerts(reading) <=> \E b \in station.thresholds["floor"] : reading.temperature < b
         /\ "limit" \in Alerts(reading) <=> \E b \in station.thresholds["limit"] : reading.wind > b
  BY DEF Alerts, AlertKinds

LEMMA PercentIs == \A x \in 0..100 : x >= 0 /\ x <= 100
  OBVIOUS

\* What is no number never gets into humidity or wind.
LEMMA ValidReadings ==
  ASSUME WeatherInv, NEW i \in DOMAIN station.readings
  PROVE  /\ station.readings[i] \in Readings
         /\ station.readings[i].humidity \in 0..100 /\ station.readings[i].humidity \in Int
         /\ station.readings[i].wind \in Nat /\ station.readings[i].wind \in Int
<1>1. station.readings \in Seq(Readings) /\ Valid(station.readings[i])
  BY DEF WeatherInv, WeatherTypeOK
<1>2. station.readings[i] \in Readings
  BY <1>1
<1>3. station.readings[i].humidity \in 0..100 /\ station.readings[i].wind \in Nat
  BY <1>1 DEF Valid
<1>4. \A x \in 0..100 : x \in Int
  OBVIOUS
<1>5. \A x \in Nat : x \in Int
  OBVIOUS
<1>6. station.readings[i].humidity \in Int
  BY <1>3, <1>4
<1>7. station.readings[i].wind \in Int
  BY <1>3, <1>5
<1> QED
  BY <1>2, <1>3, <1>6, <1>7

\* Where the readings can be compared, the highest or the lowest of them decides.
LEMMA AlertIsPassed ==
  ASSUME WeatherInv, station.readings # <<>>, NEW kind \in AlertKinds,
         Computable(Watched(kind)), NotANumber \notin station.thresholds[kind]
  PROVE  Passed(kind) <=> \E i \in DOMAIN station.readings : kind \in Alerts(station.readings[i])
<1> DEFINE readings == station.readings
           D == DOMAIN readings
           field == Watched(kind)
           s == Statistics(field)
<1>1. readings \in Seq(Readings) /\ readings # <<>> /\ field \in Measures
  BY DEF WeatherInv, WeatherTypeOK, Watched, Measures
<1>2. \A i \in D : readings[i] \in Readings
  BY ValidReadings
<1>3. \A i \in D : readings[i][field] \in Int
  BY DEF Computable
<1>4. /\ s.min \in Int /\ s.max \in Int
      /\ \E i \in D : readings[i][field] = s.min
      /\ \E i \in D : readings[i][field] = s.max
      /\ \A i \in D : s.min <= readings[i][field] /\ readings[i][field] <= s.max
  <2> HIDE DEF field
  <2>1. s = Over(readings, field)
    BY DEF Statistics
  <2> HIDE DEF readings, s
  <2> QED
    BY <1>1, <1>3, <2>1, OverReadings
<1>5. \A b \in station.thresholds[kind] : b \in Int
  <2>1. station.thresholds \in Thresholds
    BY DEF WeatherInv, WeatherTypeOK
  <2> QED
    BY <2>1, StationAssumption DEF AlertKinds
<1>6. CASE kind = "ceiling"
  <2>1. \A i \in D : kind \in Alerts(readings[i]) <=>
           \E b \in station.thresholds[kind] : readings[i][field] > b
    BY <1>2, <1>6, AlertsOf DEF Watched
  <2>2. Passed(kind) <=> \E b \in station.thresholds[kind] : s.max > b
    BY <1>6 DEF Passed, Watched
  <2> HIDE DEF D, readings, s, field
  <2> QED
    BY <1>3, <1>4, <1>5, <2>1, <2>2 DEF readings, D
<1>7. CASE kind = "floor"
  <2>1. \A i \in D : kind \in Alerts(readings[i]) <=>
           \E b \in station.thresholds[kind] : readings[i][field] < b
    BY <1>2, <1>7, AlertsOf DEF Watched
  <2>2. Passed(kind) <=> \E b \in station.thresholds[kind] : s.min < b
    BY <1>7 DEF Passed, Watched
  <2> HIDE DEF D, readings, s, field
  <2> QED
    BY <1>3, <1>4, <1>5, <2>1, <2>2 DEF readings, D
<1>8. CASE kind = "limit"
  <2>1. \A i \in D : kind \in Alerts(readings[i]) <=>
           \E b \in station.thresholds[kind] : readings[i][field] > b
    BY <1>2, <1>8, AlertsOf DEF Watched
  <2>2. Passed(kind) <=> \E b \in station.thresholds[kind] : s.max > b
    BY <1>8 DEF Passed, Watched
  <2> HIDE DEF D, readings, s, field
  <2> QED
    BY <1>3, <1>4, <1>5, <2>1, <2>2 DEF readings, D
<1> QED
  BY <1>6, <1>7, <1>8 DEF AlertKinds

LEMMA AlertsAgree == WeatherInv => AlertsMatchStatistics
<1> SUFFICES ASSUME WeatherInv, station.readings # <<>>
             PROVE  AlertsMatchStatistics
  BY DEF AlertsMatchStatistics
<1> DEFINE readings == station.readings
           D == DOMAIN readings
           h == Statistics("humidity")
           w == Statistics("wind")
<1>1. readings \in Seq(Readings) /\ readings # <<>>
  BY DEF WeatherInv, WeatherTypeOK
<1>2. Computable("humidity") /\ Computable("wind")
  BY <1>1, ValidReadings DEF Computable
<1>3. ASSUME NEW field \in Measures, Computable(field)
      PROVE  LET s == Statistics(field) IN
         /\ \E i \in D : readings[i][field] = s.min
         /\ \E i \in D : readings[i][field] = s.max
         /\ s.min * s.count <= s.sum /\ s.sum <= s.max * s.count
  <2>1. \A i \in D : readings[i][field] \in Int
    BY <1>3 DEF Computable
  <2>2. Statistics(field) = Over(readings, field)
    BY DEF Statistics
  <2> HIDE DEF readings
  <2> QED
    BY <1>1, <2>1, <2>2, OverReadings
<1>4. ASSUME NEW kind \in AlertKinds, Computable(Watched(kind)), NotANumber \notin station.thresholds[kind]
      PROVE  /\ kind \in raised => Passed(kind)
             /\ Passed(kind) /\ ~unanswered => kind \in raised
  <2>1. Passed(kind) <=> \E i \in D : kind \in Alerts(readings[i])
    BY <1>4, AlertIsPassed
  <2>2. kind \in raised => \E i \in D : kind \in Alerts(readings[i])
    BY DEF WeatherInv
  <2>3. ~unanswered => \A i \in D : kind \in Alerts(readings[i]) => kind \in raised
    BY DEF WeatherInv
  <2> QED
    BY <2>1, <2>2, <2>3, Zenon
<1>5. h.min >= 0 /\ h.max <= 100 /\ w.min >= 0
  <2>1. PICK i \in D, j \in D, k \in D :
           h.min = readings[i].humidity /\ h.max = readings[j].humidity /\ w.min = readings[k].wind
    BY <1>2, <1>3 DEF Measures
  <2>2. readings[i].humidity \in 0..100 /\ readings[j].humidity \in 0..100 /\ readings[k].wind \in Nat
    BY ValidReadings
  <2> HIDE DEF D, readings, h, w
  <2>3. h.min \in 0..100 /\ h.max \in 0..100 /\ w.min \in Nat
    BY <2>1, <2>2, Zenon
  <2>4. \A x \in Nat : x >= 0
    OBVIOUS
  <2> QED
    BY <2>3, <2>4, PercentIs, Zenon
<1>6. /\ \A kind \in AlertKinds :
            Computable(Watched(kind)) /\ NotANumber \notin station.thresholds[kind] =>
                /\ kind \in raised => Passed(kind)
                /\ Passed(kind) /\ ~unanswered => kind \in raised
      /\ \A field \in Measures : Computable(field) =>
            /\ Statistics(field).min * Statistics(field).count <= Statistics(field).sum
            /\ Statistics(field).sum <= Statistics(field).max * Statistics(field).count
  BY <1>3, <1>4, Zenon
<1> HIDE DEF readings, D
<1> QED
  BY <1>2, <1>5, <1>6, Zenon DEF AlertsMatchStatistics, AlertKinds, Measures

LEMMA WeatherStarts == WeatherInit => WeatherInv
<1> SUFFICES ASSUME WeatherInit PROVE WeatherInv
  OBVIOUS
<1>1. /\ station.readings = <<>> /\ station.thresholds \in Thresholds /\ raised = {}
      /\ DOMAIN station.readings = {} /\ station.readings \in Seq(Readings)
  BY DEF WeatherInit
<1>2. unanswered \in BOOLEAN
  BY Zenon DEF WeatherInit
<1> QED
  BY <1>1, <1>2, Zenon DEF WeatherInv, WeatherTypeOK

LEMMA WeatherMoves == WeatherInv /\ [WeatherNext]_weatherVars => WeatherInv'
<1> SUFFICES ASSUME WeatherInv, [WeatherNext]_weatherVars PROVE WeatherInv'
  OBVIOUS
<1>1. CASE UNCHANGED weatherVars
  <2>1. station' = station /\ raised' = raised /\ unanswered' = unanswered
    BY <1>1 DEF weatherVars
  <2>2. \A r : Alerts(r)' = Alerts(r) /\ Valid(r)' = Valid(r)
    BY <2>1 DEF Alerts, Valid
  <2> QED
    BY <2>1, <2>2 DEF WeatherInv, WeatherTypeOK
<1>2. ASSUME NEW reading \in Readings, Record(reading)
      PROVE  WeatherInv'
  <2> DEFINE readings == station.readings
             n == Len(readings)
  <2>1. readings \in Seq(Readings) /\ station.thresholds \in Thresholds /\ n \in Nat
    BY DEF WeatherInv, WeatherTypeOK
  <2>2. station'.readings = Append(readings, reading) /\ station'.thresholds = station.thresholds
    BY <1>2 DEF Record
  <2>3. /\ Append(readings, reading) \in Seq(Readings)
        /\ DOMAIN Append(readings, reading) = 1..(n + 1) /\ DOMAIN readings = 1..n
        /\ Append(readings, reading)[n + 1] = reading
        /\ \A i \in 1..n : Append(readings, reading)[i] = readings[i]
    BY <2>1
  <2>4. \A r : Alerts(r)' = Alerts(r)
    BY <2>2 DEF Alerts
  <2>5. \A i \in 1..(n + 1) : i = n + 1 \/ i \in 1..n
    BY <2>1
  <2>6. Alerts(reading) \subseteq AlertKinds
    BY AlertsOf
  <2>10. \/ Incomparable(reading) /\ unanswered' = TRUE /\ raised' = raised
         \/ ~Incomparable(reading) /\ raised' = raised \cup Alerts(reading) /\ unanswered' = unanswered
    BY <1>2 DEF Record
  <2>11. raised' = raised \/ raised' = raised \cup Alerts(reading)
    BY <2>10, Zenon
  <2>12. unanswered' \in BOOLEAN
    BY <2>10, Zenon DEF WeatherInv, WeatherTypeOK
  <2>13. ~unanswered' => ~unanswered /\ raised' = raised \cup Alerts(reading)
    BY <2>10, Zenon
  <2>7. WeatherTypeOK'
    <3>1. raised' \subseteq AlertKinds
      BY <2>6, <2>11 DEF WeatherInv, WeatherTypeOK, AlertKinds
    <3> QED
      BY <2>1, <2>2, <2>3, <2>12, <3>1 DEF WeatherTypeOK, AlertKinds
  <2>8. (\A i \in DOMAIN station.readings : Valid(station.readings[i]))'
    <3>1. \A i \in 1..n : Valid(readings[i])
      BY <2>3 DEF WeatherInv
    <3>2. \A r : Valid(r)' = Valid(r)
      BY DEF Valid
    <3>3. Valid(reading)
      BY <1>2 DEF Record
    <3> HIDE DEF n, readings
    <3> QED
      BY <2>2, <2>3, <2>5, <3>1, <3>2, <3>3
  <2>9. (\A kind \in raised : \E i \in DOMAIN station.readings : kind \in Alerts(station.readings[i]))'
    <3>1. ASSUME NEW kind \in raised'
          PROVE  \E i \in 1..(n + 1) : kind \in Alerts(Append(readings, reading)[i])
      <4>1. kind \in raised \/ kind \in Alerts(reading)
        BY <2>11
      <4>2. kind \in raised => \E i \in 1..n : kind \in Alerts(readings[i])
        BY <2>3 DEF WeatherInv
      <4>3. \A i \in 1..n : i \in 1..(n + 1)
        BY <2>1
      <4>4. n + 1 \in 1..(n + 1)
        BY <2>1
      <4> HIDE DEF n, readings
      <4> QED
        BY <2>3, <4>1, <4>2, <4>3, <4>4
    <3>2. DOMAIN station'.readings = 1..(n + 1)
      BY <2>2, <2>3
    <3> QED
      BY <2>2, <2>4, <3>1, <3>2
  <2>14. (~unanswered => \A i \in DOMAIN station.readings : Alerts(station.readings[i]) \subseteq raised)'
    <3>1. ASSUME ~unanswered', NEW i \in 1..(n + 1)
          PROVE  Alerts(Append(readings, reading)[i]) \subseteq raised'
      <4>1. ~unanswered /\ raised' = raised \cup Alerts(reading)
        BY <2>13, <3>1
      <4>2. \A j \in 1..n : Alerts(readings[j]) \subseteq raised
        BY <2>3, <4>1 DEF WeatherInv
      <4> HIDE DEF n, readings
      <4> QED
        BY <2>3, <2>5, <4>1, <4>2
    <3>2. DOMAIN station'.readings = 1..(n + 1)
      BY <2>2, <2>3
    <3> QED
      BY <2>2, <2>4, <3>1, <3>2
  <2> QED
    BY <2>7, <2>8, <2>9, <2>14 DEF WeatherInv
<1> QED
  BY <1>1, <1>2 DEF WeatherNext

\* Alerts are raised one reading at a time and agree with the statistics taken
\* over all of them, for any thresholds and whatever readings are no numbers,
\* but for the alerts of a recording that failed half-way (station.py:34-101).
THEOREM AlertsStayTrue == WeatherSpec => []AlertsMatchStatistics
<1> QED
  BY AlertsAgree, WeatherStarts, WeatherMoves, PTL DEF WeatherSpec

-----------------------------------------------------------------------------
\* A linked list.

-----------------------------------------------------------------------------
NodeNames == 1..(MaxNodes + 1)

\* The nodes of r in the order of the chain, as many as there are items.
IsChain(c, r, items) ==
    LET n == Len(items) IN
    /\ c \in [1..(n + 1) -> DOMAIN r.next \cup {NoNode}]
    /\ c[n + 1] = NoNode /\ r.head = c[1] /\ r.count = n
    /\ \A i \in 1..n : /\ c[i] \in DOMAIN r.next /\ r.value[c[i]] = items[i] /\ r.next[c[i]] = c[i + 1]
    /\ \A i, j \in 1..n : c[i] = c[j] => i = j
    /\ \A x \in DOMAIN r.next : \E i \in 1..n : c[i] = x

IsList(r) ==
    /\ r = [head |-> r.head, count |-> r.count, value |-> r.value, next |-> r.next]
    /\ DOMAIN r.next \subseteq NodeNames /\ DOMAIN r.value = DOMAIN r.next
    /\ r.value = [x \in DOMAIN r.value |-> r.value[x]] /\ r.next = [x \in DOMAIN r.next |-> r.next[x]]

ListInv ==
    /\ IsList(list) /\ list.count \in 0..MaxNodes
    /\ content.items \in Seq(NodeValues) /\ content.returned = content.expected
    /\ \E c : IsChain(c, list, content.items)

LEMMA ChainFacts ==
  ASSUME NEW r, NEW items \in Seq(NodeValues), NEW c, IsList(r), IsChain(c, r, items)
  PROVE  /\ Len(items) \in Nat /\ NoNode \notin DOMAIN r.next
         /\ IsFiniteSet(DOMAIN r.next) /\ Cardinality(DOMAIN r.next) = Len(items)
         /\ r.head \in DOMAIN r.next \cup {NoNode}
         /\ r.value \in [DOMAIN r.next -> NodeValues]
         /\ r.next \in [DOMAIN r.next -> DOMAIN r.next \cup {NoNode}]
<1> DEFINE n == Len(items)
           D == DOMAIN r.next
<1>1. n \in Nat /\ \A i \in 1..n : items[i] \in NodeValues
  OBVIOUS
<1>2. NoNode \notin D /\ IsFiniteSet(D)
  <2>0. 1 \in Int /\ MaxNodes + 1 \in Int
    BY ListAssumption
  <2>1. IsFiniteSet(NodeNames) /\ D \in SUBSET NodeNames
    BY <2>0, FS_Interval DEF IsList, NodeNames
  <2>2. IsFiniteSet(D)
    BY <2>1, FS_Subset
  <2> QED
    BY <2>1, <2>2, ListAssumption DEF NodeNames, NoNode
<1>3. Cardinality(D) = n
  <2> DEFINE f == [i \in 1..n |-> c[i]]
  <2>1. f \in [1..n -> D] /\ (\A i, j \in 1..n : f[i] = f[j] => i = j) /\ \A x \in D : \E i \in 1..n : f[i] = x
    BY DEF IsChain
  <2> HIDE DEF f, D
  <2>2. f \in Bijection(1..n, D)
    BY <2>1 DEF Bijection, Injection, Surjection, IsInjective
  <2>3. ExistsBijection(1..n, D)
    BY <2>2 DEF ExistsBijection
  <2> QED
    BY <1>1, <2>3, FS_CountingElements
<1>4. r.head \in D \cup {NoNode}
  <2>1. 1 \in 1..(n + 1)
    BY <1>1
  <2> QED
    BY <2>1 DEF IsChain
<1>5. \A x \in D : r.value[x] \in NodeValues /\ r.next[x] \in D \cup {NoNode}
  <2> SUFFICES ASSUME NEW x \in D PROVE r.value[x] \in NodeValues /\ r.next[x] \in D \cup {NoNode}
    OBVIOUS
  <2>1. PICK i \in 1..n : c[i] = x
    BY DEF IsChain
  <2>2. r.value[x] = items[i] /\ r.next[x] = c[i + 1] /\ i + 1 \in 1..(n + 1)
    BY <1>1, <2>1 DEF IsChain
  <2> QED
    BY <1>1, <2>1, <2>2 DEF IsChain
<1>6. DOMAIN r.value = D
  BY DEF IsList
<1>7. r.value = [x \in D |-> r.value[x]] /\ r.next = [x \in D |-> r.next[x]]
  BY <1>6 DEF IsList
<1> HIDE DEF D
<1>8. r.value \in [D -> NodeValues]
  BY <1>5, <1>7, Zenon
<1>9. r.next \in [D -> D \cup {NoNode}]
  BY <1>5, <1>7, Zenon
<1> QED
  BY <1>1, <1>2, <1>3, <1>4, <1>8, <1>9 DEF D, n

\* r is l with a node m that holds v, behind p others of the chain c.
WithBehind(r, l, c, p, m, v) ==
    r = [head |-> IF p = 0 THEN m ELSE l.head, count |-> l.count + 1,
         value |-> [x \in DOMAIN l.next \cup {m} |-> IF x = m THEN v ELSE l.value[x]],
         next |-> [x \in DOMAIN l.next \cup {m} |->
                     IF x = m THEN c[p + 1] ELSE IF p # 0 /\ x = c[p] THEN m ELSE l.next[x]]]

\* A new node behind p others is a chain of one item more.
LEMMA ChainGrows ==
  ASSUME NEW l, NEW items \in Seq(NodeValues), NEW c, IsList(l), IsChain(c, l, items),
         NEW m \in NodeNames, m \notin DOMAIN l.next, NEW v \in NodeValues, NEW p \in 0..Len(items),
         NEW t, GrownAt(t, items, p, v, NodeValues), NEW r, WithBehind(r, l, c, p, m, v)
  PROVE  IsList(r) /\ \E d : IsChain(d, r, t)
<1> DEFINE n == Len(items)
           D == DOMAIN l.next
           d == [i \in 1..(n + 2) |-> IF i <= p THEN c[i] ELSE IF i = p + 1 THEN m ELSE c[i - 1]]
<1>1. n \in Nat /\ p \in Int /\ 0 <= p /\ p <= n /\ Len(t) = n + 1
  BY DEF GrownAt
<1>2. /\ r.head = (IF p = 0 THEN m ELSE l.head) /\ r.count = l.count + 1
      /\ DOMAIN r.value = D \cup {m} /\ DOMAIN r.next = D \cup {m}
      /\ r.value[m] = v /\ r.next[m] = c[p + 1]
      /\ \A x \in D : r.value[x] = l.value[x] /\ r.next[x] = IF p # 0 /\ x = c[p] THEN m ELSE l.next[x]
  BY DEF WithBehind
<1>3. IsList(r)
  BY DEF IsList, WithBehind
<1>4. m # NoNode
  BY ListAssumption DEF NodeNames, NoNode
<1>5. /\ c \in [1..(n + 1) -> D \cup {NoNode}] /\ c[n + 1] = NoNode /\ l.head = c[1] /\ l.count = n
      /\ \A i \in 1..n : c[i] \in D /\ l.value[c[i]] = items[i] /\ l.next[c[i]] = c[i + 1]
      /\ \A i, j \in 1..n : c[i] = c[j] => i = j
      /\ \A x \in D : \E i \in 1..n : c[i] = x
  BY DEF IsChain
<1>6. \A j \in 1..(n + 1) : t[j] = IF j <= p THEN items[j] ELSE IF j = p + 1 THEN v ELSE items[j - 1]
  BY DEF GrownAt
<1> HIDE DEF D, n
<1>7. \A i \in 1..(n + 2) : d[i] = IF i <= p THEN c[i] ELSE IF i = p + 1 THEN m ELSE c[i - 1]
  OBVIOUS
<1>8. d \in [1..(n + 2) -> D \cup {m} \cup {NoNode}]
  <2> SUFFICES ASSUME NEW i \in 1..(n + 2)
               PROVE  (IF i <= p THEN c[i] ELSE IF i = p + 1 THEN m ELSE c[i - 1]) \in D \cup {m} \cup {NoNode}
    OBVIOUS
  <2>1. CASE i <= p
    BY <1>1, <1>5, <2>1
  <2>2. CASE i = p + 1
    BY <1>1, <2>2
  <2>3. CASE i > p + 1
    <3>1. i - 1 \in 1..(n + 1)
      BY <1>1, <2>3
    <3> QED
      BY <1>1, <1>5, <2>3, <3>1
  <2> QED
    BY <1>1, <2>1, <2>2, <2>3
<1> HIDE DEF d
<1>9. d[n + 2] = NoNode
  <2>1. n + 2 \in 1..(n + 2) /\ ~(n + 2 <= p) /\ n + 2 # p + 1 /\ (n + 2) - 1 = n + 1
    BY <1>1
  <2> QED
    BY <1>5, <1>7, <2>1
<1>10. r.head = d[1]
  <2>1. 1 \in 1..(n + 2)
    BY <1>1
  <2> QED
    BY <1>1, <1>2, <1>5, <1>7, <2>1
<1>11. ASSUME NEW i \in 1..(n + 1)
       PROVE  d[i] \in D \cup {m} /\ r.value[d[i]] = t[i] /\ r.next[d[i]] = d[i + 1]
  <2>0. i \in 1..(n + 2) /\ i + 1 \in 1..(n + 2)
    BY <1>1
  <2>1. CASE i < p
    <3>1. i \in 1..n /\ i # p /\ d[i] = c[i] /\ d[i + 1] = c[i + 1] /\ t[i] = items[i]
      BY <1>1, <1>6, <1>7, <2>0, <2>1
    <3>2. c[i] \in D /\ (p # 0 => c[i] # c[p])
      <4>1. p # 0 => p \in 1..n
        BY <1>1
      <4> QED
        BY <1>5, <3>1, <4>1
    <3> QED
      BY <1>2, <1>5, <3>1, <3>2
  <2>2. CASE i = p
    <3>1. i \in 1..n /\ p # 0 /\ d[i] = c[p] /\ d[i + 1] = m /\ t[i] = items[p]
      BY <1>1, <1>6, <1>7, <2>0, <2>2
    <3> QED
      BY <1>2, <1>5, <2>2, <3>1
  <2>3. CASE i = p + 1
    <3>1. d[i] = m /\ t[i] = v /\ d[i + 1] = c[p + 1]
      <4>1. ~(i + 1 <= p) /\ i + 1 # p + 1 /\ (i + 1) - 1 = p + 1 /\ ~(i <= p)
        BY <1>1, <2>3
      <4> QED
        BY <1>1, <1>6, <1>7, <2>0, <2>3, <4>1
    <3> QED
      BY <1>2, <3>1
  <2>4. CASE i > p + 1
    <3> DEFINE k == i - 1
    <3>1. k \in 1..n /\ k > p /\ k + 1 = i /\ (i + 1) - 1 = i /\ ~(i <= p) /\ i # p + 1
          /\ ~(i + 1 <= p) /\ i + 1 # p + 1 /\ k # p
      BY <1>1, <2>4
    <3>2. d[i] = c[k] /\ d[i + 1] = c[k + 1] /\ t[i] = items[k]
      BY <1>6, <1>7, <2>0, <3>1
    <3>3. c[k] \in D /\ (p # 0 => c[k] # c[p])
      <4>1. p # 0 => p \in 1..n
        BY <1>1
      <4> QED
        BY <1>5, <3>1, <4>1
    <3> HIDE DEF k
    <3> QED
      BY <1>2, <1>5, <3>1, <3>2, <3>3
  <2> QED
    BY <1>1, <2>1, <2>2, <2>3, <2>4
<1>12. ASSUME NEW i \in 1..(n + 1), NEW j \in 1..(n + 1), d[i] = d[j]
       PROVE  i = j
  <2>1. ASSUME NEW k \in 1..(n + 1)
        PROVE  \/ k = p + 1 /\ d[k] = m
               \/ k # p + 1 /\ (IF k <= p THEN k ELSE k - 1) \in 1..n
                    /\ d[k] = c[IF k <= p THEN k ELSE k - 1] /\ d[k] \in D
    <3>0. k \in 1..(n + 2)
      BY <1>1
    <3>1. CASE k <= p
      <4>1. k \in 1..n /\ d[k] = c[k] /\ k # p + 1
        BY <1>1, <1>7, <3>0, <3>1
      <4> QED
        BY <1>5, <3>1, <4>1
    <3>2. CASE k = p + 1
      BY <1>1, <1>7, <3>0, <3>2
    <3>3. CASE k > p + 1
      <4>1. k - 1 \in 1..n /\ d[k] = c[k - 1] /\ k # p + 1 /\ ~(k <= p)
        BY <1>1, <1>7, <3>0, <3>3
      <4> QED
        BY <1>5, <4>1
    <3> QED
      BY <1>1, <3>1, <3>2, <3>3
  <2>2. m \notin D
    BY DEF D
  <2>3. CASE i = p + 1
    BY <1>12, <2>1, <2>2, <2>3
  <2>4. CASE i # p + 1
    <3>1. j # p + 1
      BY <1>12, <2>1, <2>2, <2>4
    <3>2. (IF i <= p THEN i ELSE i - 1) = (IF j <= p THEN j ELSE j - 1)
      BY <1>5, <1>12, <2>1, <2>4, <3>1
    <3> QED
      BY <1>1, <2>4, <3>1, <3>2
  <2> QED
    BY <2>3, <2>4
<1>13. ASSUME NEW x \in D \cup {m} PROVE \E i \in 1..(n + 1) : d[i] = x
  <2>1. CASE x = m
    <3>1. p + 1 \in 1..(n + 1) /\ p + 1 \in 1..(n + 2) /\ ~(p + 1 <= p)
      BY <1>1
    <3> QED
      BY <1>7, <2>1, <3>1
  <2>2. CASE x # m
    <3>1. PICK k \in 1..n : c[k] = x
      BY <1>5, <2>2
    <3>2. CASE k <= p
      <4>1. k \in 1..(n + 1) /\ k \in 1..(n + 2)
        BY <1>1
      <4> QED
        BY <1>7, <3>1, <3>2, <4>1
    <3>3. CASE ~(k <= p)
      <4>1. k + 1 \in 1..(n + 1) /\ k + 1 \in 1..(n + 2) /\ ~(k + 1 <= p) /\ k + 1 # p + 1 /\ (k + 1) - 1 = k
        BY <1>1, <3>3
      <4> QED
        BY <1>7, <3>1, <4>1
    <3> QED
      BY <3>2, <3>3
  <2> QED
    BY <2>1, <2>2
<1>14. IsChain(d, r, t)
  <2>1. (n + 1) + 1 = n + 2
    BY <1>1
  <2>2. d \in [1..(n + 2) -> DOMAIN r.next \cup {NoNode}]
    BY <1>2, <1>8
  <2> QED
    BY <1>1, <1>2, <1>5, <1>9, <1>10, <1>11, <1>12, <1>13, <2>1, <2>2 DEF IsChain
<1> QED
  BY <1>3, <1>14

\* l without the node behind p others of the chain c.
WithoutBehind(r, l, c, p) ==
    r = [head |-> IF p = 0 THEN c[2] ELSE l.head, count |-> l.count - 1,
         value |-> [x \in DOMAIN l.next \ {c[p + 1]} |-> l.value[x]],
         next |-> [x \in DOMAIN l.next \ {c[p + 1]} |-> IF p # 0 /\ x = c[p] THEN c[p + 2] ELSE l.next[x]]]

\* Without one of its nodes the chain has all the other items.
LEMMA ChainShrinks ==
  ASSUME NEW l, NEW items \in Seq(NodeValues), NEW c, IsList(l), IsChain(c, l, items),
         NEW p \in 0..(Len(items) - 1), NEW r, WithoutBehind(r, l, c, p)
  PROVE  IsList(r) /\ \E d : IsChain(d, r, RemoveAt(items, p + 1))
<1> DEFINE n == Len(items)
           D == DOMAIN l.next
           m == c[p + 1]
           t == RemoveAt(items, p + 1)
           d == [i \in 1..n |-> IF i <= p THEN c[i] ELSE c[i + 1]]
<1>1. n \in Nat /\ p \in Int /\ 0 <= p /\ p < n /\ p + 1 \in 1..n /\ (n - 1) + 1 = n
  OBVIOUS
<1>2. /\ r.head = (IF p = 0 THEN c[2] ELSE l.head) /\ r.count = l.count - 1
      /\ DOMAIN r.value = D \ {m} /\ DOMAIN r.next = D \ {m}
      /\ \A x \in D \ {m} : r.value[x] = l.value[x] /\ r.next[x] = IF p # 0 /\ x = c[p] THEN c[p + 2] ELSE l.next[x]
  BY DEF WithoutBehind
<1>3. IsList(r)
  BY DEF IsList, WithoutBehind
<1>5. /\ c \in [1..(n + 1) -> D \cup {NoNode}] /\ c[n + 1] = NoNode /\ l.head = c[1] /\ l.count = n
      /\ \A i \in 1..n : c[i] \in D /\ l.value[c[i]] = items[i] /\ l.next[c[i]] = c[i + 1]
      /\ \A i, j \in 1..n : c[i] = c[j] => i = j
      /\ \A x \in D : \E i \in 1..n : c[i] = x
  BY DEF IsChain
<1>6. /\ Len(t) = n - 1
      /\ \A j \in 1..(n - 1) : t[j] = IF j <= p THEN items[j] ELSE items[j + 1]
  <2>1. /\ Len(t) = n - 1
        /\ \A j \in 1..(n - 1) : t[j] = items[Origin(j, p + 1)]
    <3>1. p + 1 \in 1..Len(items)
      OBVIOUS
    <3>2. /\ Len(RemoveAt(items, p + 1)) = Len(items) - 1
          /\ \A j \in 1..(Len(items) - 1) : RemoveAt(items, p + 1)[j] = items[Origin(j, p + 1)]
      BY <3>1, RemoveAtOne
    <3> QED
      BY <3>2
  <2>2. \A j \in 1..(n - 1) : Origin(j, p + 1) = IF j <= p THEN j ELSE j + 1
    BY <1>1 DEF Origin
  <2> HIDE DEF t, n
  <2> QED
    BY <2>1, <2>2
<1> HIDE DEF D, n, t
<1>7. \A i \in 1..n : d[i] = IF i <= p THEN c[i] ELSE c[i + 1]
  OBVIOUS
<1>8. NoNode \notin D /\ m \in D
  <2>1. NoNode \notin D
    BY ListAssumption DEF IsList, NodeNames, NoNode, D
  <2> QED
    BY <1>1, <1>5, <2>1
<1> HIDE DEF d
<1>9. ASSUME NEW i \in 1..(n - 1)
      PROVE  /\ i \in 1..n /\ d[i] \in D \ {m}
             /\ \E k \in 1..n : k = (IF i <= p THEN i ELSE i + 1) /\ k # p + 1 /\ d[i] = c[k] /\ t[i] = items[k]
  <2> DEFINE k == IF i <= p THEN i ELSE i + 1
  <2>1. i \in 1..n /\ k \in 1..n /\ k # p + 1
    BY <1>1
  <2>2. d[i] = c[k] /\ t[i] = items[k]
    BY <1>6, <1>7, <2>1
  <2>3. c[k] \in D /\ c[k] # m
    BY <1>1, <1>5, <2>1
  <2> QED
    BY <2>1, <2>2, <2>3
<1>10. d \in [1..n -> DOMAIN r.next \cup {NoNode}]
  <2>1. ASSUME NEW i \in 1..n PROVE d[i] \in (D \ {m}) \cup {NoNode}
    <3>1. CASE i \in 1..(n - 1)
      BY <1>9, <3>1
    <3>2. CASE i = n
      BY <1>1, <1>5, <1>7, <3>2
    <3> QED
      BY <1>1, <3>1, <3>2
  <2> QED
    BY <1>2, <2>1 DEF d
<1>11. d[n] = NoNode /\ r.head = d[1]
  <2>1. 1 \in 1..n /\ n \in 1..n /\ ~(n <= p)
    BY <1>1
  <2>2. d[n] = NoNode
    BY <1>5, <1>7, <2>1
  <2>3. r.head = d[1]
    BY <1>1, <1>2, <1>5, <1>7, <2>1
  <2> QED
    BY <2>2, <2>3
<1>12. ASSUME NEW i \in 1..(n - 1)
       PROVE  d[i] \in DOMAIN r.next /\ r.value[d[i]] = t[i] /\ r.next[d[i]] = d[i + 1]
  <2>1. PICK k \in 1..n : /\ k = (IF i <= p THEN i ELSE i + 1) /\ k # p + 1
                          /\ d[i] = c[k] /\ t[i] = items[k]
    BY <1>9
  <2>2. d[i] \in D \ {m} /\ r.value[d[i]] = t[i]
    BY <1>2, <1>5, <1>9, <2>1
  <2>3. r.next[d[i]] = IF p # 0 /\ k = p THEN c[p + 2] ELSE c[k + 1]
    <3>1. p # 0 => (c[k] = c[p] <=> k = p)
      <4>1. p # 0 => p \in 1..n
        BY <1>1
      <4> QED
        BY <1>5, <2>1, <4>1
    <3>2. /\ d[i] \in D \ {m} /\ d[i] = c[k] /\ l.next[c[k]] = c[k + 1]
          /\ r.next[d[i]] = IF p # 0 /\ d[i] = c[p] THEN c[p + 2] ELSE l.next[d[i]]
      BY <1>2, <1>5, <2>1, <2>2
    <3> QED
      BY <3>1, <3>2, Zenon
  <2>4. d[i + 1] = IF p # 0 /\ k = p THEN c[p + 2] ELSE c[k + 1]
    <3>1. i + 1 \in 1..n
      BY <1>1
    <3>2. CASE i < p
      BY <1>1, <1>7, <2>1, <3>1, <3>2
    <3>3. CASE i = p
      <4>1. p # 0 /\ k = p /\ ~(i + 1 <= p) /\ (i + 1) + 1 = p + 2
        BY <1>1, <2>1, <3>3
      <4> QED
        BY <1>7, <3>1, <4>1
    <3>4. CASE i > p
      <4>1. k = i + 1 /\ k # p /\ ~(i + 1 <= p)
        BY <1>1, <2>1, <3>4
      <4> QED
        BY <1>7, <3>1, <4>1
    <3> QED
      BY <1>1, <3>2, <3>3, <3>4
  <2> QED
    BY <1>2, <2>2, <2>3, <2>4
<1>13. ASSUME NEW i \in 1..(n - 1), NEW j \in 1..(n - 1), d[i] = d[j]
       PROVE  i = j
  <2>1. PICK k \in 1..n : k = (IF i <= p THEN i ELSE i + 1) /\ d[i] = c[k]
    BY <1>9
  <2>2. PICK h \in 1..n : h = (IF j <= p THEN j ELSE j + 1) /\ d[j] = c[h]
    BY <1>9
  <2>3. c[k] = c[h]
    BY <1>13, <2>1, <2>2
  <2>4. k = h
    BY <1>5, <2>3
  <2> QED
    BY <1>1, <2>1, <2>2, <2>4
<1>14. ASSUME NEW x \in D \ {m} PROVE \E i \in 1..(n - 1) : d[i] = x
  <2>1. PICK k \in 1..n : c[k] = x
    BY <1>5
  <2>2. k # p + 1
    BY <2>1
  <2>3. CASE k <= p
    <3>1. k \in 1..(n - 1) /\ k \in 1..n
      BY <1>1, <2>3
    <3> QED
      BY <1>7, <2>1, <2>3, <3>1
  <2>4. CASE ~(k <= p)
    <3>1. k - 1 \in 1..(n - 1) /\ k - 1 \in 1..n /\ ~(k - 1 <= p) /\ (k - 1) + 1 = k
      BY <1>1, <2>2, <2>4
    <3> QED
      BY <1>7, <2>1, <3>1
  <2> QED
    BY <2>3, <2>4
<1>15. IsChain(d, r, t)
  <2>1. r.count = n - 1
    BY <1>2, <1>5
  <2> HIDE DEF m
  <2> QED
    BY <1>1, <1>2, <1>6, <1>10, <1>11, <1>12, <1>13, <1>14, <2>1 DEF IsChain
<1> QED
  BY <1>3, <1>15 DEF t

Along(c, n) == [k \in Nat |-> IF k < n THEN c[k + 1] ELSE NoNode]

\* A walk from the head on goes along the chain, and ends behind it.
LEMMA WalkGoesAlong ==
  ASSUME NEW c, IsList(list), content.items \in Seq(NodeValues), IsChain(c, list, content.items)
  PROVE  Walk = Along(c, Len(content.items))
<1> DEFINE n == Len(content.items)
           w == Along(c, n)
           Loop(f) == [k \in Nat |-> IF k = 0 THEN list.head
                                     ELSE IF f[k - 1] = NoNode THEN NoNode ELSE list.next[f[k - 1]]]
<1>1. /\ n \in Nat /\ NoNode \notin Nodes
      /\ c[n + 1] = NoNode /\ list.head = c[1]
      /\ \A i \in 1..n : c[i] \in Nodes /\ list.next[c[i]] = c[i + 1]
  <2>1. n \in Nat /\ NoNode \notin DOMAIN list.next
    BY ChainFacts
  <2>2. /\ c[n + 1] = NoNode /\ list.head = c[1]
        /\ \A i \in 1..n : c[i] \in DOMAIN list.next /\ list.next[c[i]] = c[i + 1]
    BY DEF IsChain
  <2> QED
    BY <2>1, <2>2 DEF Nodes
<1> HIDE DEF n
<1>2. \A k \in Nat : w[k] = IF k < n THEN c[k + 1] ELSE NoNode
  BY DEF Along
<1>3. ASSUME NEW k \in Nat
      PROVE  w[k] = Loop(w)[k]
  <2>0. Loop(w)[k] = IF k = 0 THEN list.head
                     ELSE IF w[k - 1] = NoNode THEN NoNode ELSE list.next[w[k - 1]]
    OBVIOUS
  <2> HIDE DEF w, Loop
  <2>1. CASE k = 0
    BY <1>1, <1>2, <2>0, <2>1
  <2>2. CASE k # 0 /\ k <= n
    <3>1. k - 1 \in Nat /\ k - 1 < n /\ k \in 1..n /\ (k - 1) + 1 = k
      BY <1>1, <2>2
    <3>2. w[k - 1] = c[k] /\ c[k] # NoNode /\ list.next[c[k]] = c[k + 1]
      BY <1>1, <1>2, <3>1
    <3>3. w[k] = c[k + 1]
      <4>1. CASE k < n
        BY <1>2, <4>1
      <4>2. CASE k = n
        BY <1>1, <1>2, <4>2
      <4> QED
        BY <1>1, <2>2, <4>1, <4>2
    <3> QED
      BY <2>0, <2>2, <3>2, <3>3
  <2>3. CASE k > n
    <3>1. k - 1 \in Nat /\ ~(k - 1 < n) /\ ~(k < n) /\ k # 0
      BY <1>1, <2>3
    <3> QED
      BY <1>2, <2>0, <3>1
  <2> QED
    BY <1>1, <2>1, <2>2, <2>3
<1>4. w = Loop(w)
  <2>1. w = [k \in Nat |-> w[k]]
    BY DEF Along
  <2>2. Loop(w) = [k \in Nat |-> Loop(w)[k]]
    OBVIOUS
  <2> HIDE DEF w, Loop
  <2> QED
    BY <1>3, <2>1, <2>2
<1>5. Walk = CHOOSE f : f = Loop(f)
  BY DEF Walk
<1> HIDE DEF w
<1>6. Walk = Loop(Walk)
  <2> HIDE DEF Loop
  <2> QED
    BY <1>4, <1>5
<1>7. \A k \in Nat : Walk[k] = w[k]
  <2> DEFINE S == {k \in Nat : Walk[k] = w[k]}
  <2>0. \A k \in Nat : Walk[k] = Loop(Walk)[k] /\ w[k] = Loop(w)[k]
    <3> HIDE DEF Loop
    <3> QED
      BY <1>4, <1>6, Zenon
  <2>1. 0 \in S
    BY <2>0
  <2>2. ASSUME NEW k \in Nat, k \in S PROVE k + 1 \in S
    <3>1. k + 1 \in Nat /\ k + 1 # 0 /\ (k + 1) - 1 = k
      OBVIOUS
    <3>2. Walk[k + 1] = Loop(Walk)[k + 1] /\ w[k + 1] = Loop(w)[k + 1]
      BY <2>0, <3>1
    <3> QED
      BY <2>2, <3>1, <3>2
  <2> HIDE DEF S
  <2>3. \A k \in Nat : k \in S
    BY <2>1, <2>2, NumberInduction
  <2> QED
    BY <2>3 DEF S
<1>8. Walk = [k \in Nat |-> Walk[k]] /\ w = [k \in Nat |-> w[k]]
  <2>1. Loop(Walk) = [k \in Nat |-> Loop(Walk)[k]] /\ Loop(w) = [k \in Nat |-> Loop(w)[k]]
    OBVIOUS
  <2> HIDE DEF Loop
  <2> QED
    BY <1>4, <1>6, <2>1
<1> QED
  BY <1>7, <1>8 DEF n, w

LEMMA LengthOfChain ==
  ASSUME NEW c, IsList(list), content.items \in Seq(NodeValues), IsChain(c, list, content.items)
  PROVE  Length = Len(content.items) /\ Cardinality(Nodes) = Len(content.items)
<1> DEFINE n == Len(content.items)
           ends == {k \in 0..Cardinality(Nodes) : Walk[k] = NoNode}
<1>1. n \in Nat /\ NoNode \notin Nodes /\ Cardinality(Nodes) = n
  BY ChainFacts DEF Nodes
<1>2. \A i \in 1..n : c[i] \in Nodes
  BY DEF IsChain, Nodes
<1>3. Walk = Along(c, n)
  BY WalkGoesAlong
<1> HIDE DEF n
<1>4. \A k \in Nat : Walk[k] = IF k < n THEN c[k + 1] ELSE NoNode
  BY <1>3 DEF Along
<1>5. ends = {n}
  <2>1. n \in 0..n /\ Walk[n] = NoNode
    BY <1>1, <1>4
  <2>2. ASSUME NEW k \in 0..n, k # n PROVE Walk[k] # NoNode
    <3>1. k < n /\ k \in Nat /\ k + 1 \in 1..n
      BY <1>1, <2>2
    <3> QED
      BY <1>1, <1>2, <1>4, <3>1
  <2> QED
    BY <1>1, <2>1, <2>2
<1>6. Min({n}) = n
  BY <1>1, MinOfOne
<1> QED
  BY <1>1, <1>5, <1>6 DEF Length, n

LEMMA ChainAgrees == ListInv => ListTypeOK /\ ChainIsSequence
<1> SUFFICES ASSUME ListInv PROVE ListTypeOK /\ ChainIsSequence
  OBVIOUS
<1> DEFINE items == content.items
           n == Len(items)
<1>1. PICK c : IsChain(c, list, items)
  BY DEF ListInv
<1>2. IsList(list) /\ items \in Seq(NodeValues)
  BY DEF ListInv
<1>3. /\ n \in Nat /\ NoNode \notin Nodes /\ Length = n /\ Cardinality(Nodes) = n
      /\ list.head \in Nodes \cup {NoNode}
      /\ list.value \in [Nodes -> NodeValues] /\ list.next \in [Nodes -> Nodes \cup {NoNode}]
  <2> HIDE DEF items
  <2>1. /\ n \in Nat /\ NoNode \notin Nodes /\ list.head \in Nodes \cup {NoNode}
        /\ list.value \in [Nodes -> NodeValues] /\ list.next \in [Nodes -> Nodes \cup {NoNode}]
    BY <1>1, <1>2, ChainFacts DEF Nodes
  <2>2. Length = n /\ Cardinality(Nodes) = n
    BY <1>1, <1>2, LengthOfChain DEF items
  <2> QED
    BY <2>1, <2>2
<1>4. ListTypeOK
  BY <1>3 DEF ListTypeOK, ListInv
<1>5. /\ list.count = n
      /\ \A i \in 1..n : c[i] \in Nodes /\ list.value[c[i]] = items[i]
      /\ \A i, j \in 1..n : c[i] = c[j] => i = j
  BY <1>1 DEF IsChain, Nodes
<1>6. Walk = Along(c, n)
  BY <1>1, <1>2, WalkGoesAlong
<1>7. \A i \in 1..n : items[i] \in NodeValues /\ DOMAIN items = 1..n
  BY <1>2
<1>8. items = [i \in 1..n |-> items[i]]
  BY <1>2
<1> HIDE DEF n, items
<1>9. \A i \in 1..n : Walk[i - 1] = c[i]
  <2> SUFFICES ASSUME NEW i \in 1..n PROVE Walk[i - 1] = c[i]
    OBVIOUS
  <2>1. i - 1 \in Nat /\ i - 1 < n /\ (i - 1) + 1 = i
    BY <1>3
  <2> QED
    BY <1>6, <2>1 DEF Along
<1>10. ToArray = items
  <2>1. ToArray = [i \in 1..n |-> list.value[Walk[i - 1]]]
    BY <1>3 DEF ToArray
  <2> QED
    BY <1>5, <1>8, <1>9, <2>1
<1>11. IsInjective([i \in 1..Length |-> Walk[i - 1]])
  <2> DEFINE f == [i \in 1..Length |-> Walk[i - 1]]
  <2>1. DOMAIN f = 1..n /\ \A i \in 1..n : f[i] = c[i]
    BY <1>3, <1>9
  <2> HIDE DEF f
  <2>2. IsInjective(f)
    BY <1>5, <2>1 DEF IsInjective
  <2> QED
    BY <2>2 DEF f
<1>12. ASSUME NEW value \in NodeValues
       PROVE  IF IndexOf(value) = -1 THEN value \notin ToSet(items)
              ELSE /\ items[IndexOf(value) + 1] = value
                   /\ \A i \in 1..IndexOf(value) : items[i] # value
  <2> DEFINE found == {i \in 0..(n - 1) : items[i + 1] = value}
  <2>1. ASSUME NEW i \in 0..(n - 1) PROVE list.value[Walk[i]] = items[i + 1]
    <3>1. i + 1 \in 1..n /\ (i + 1) - 1 = i
      BY <1>3
    <3> QED
      BY <1>5, <1>9, <3>1
  <2>2. found = {i \in 0..(Length - 1) : list.value[Walk[i]] = value}
    BY <1>3, <2>1
  <2>3. IndexOf(value) = IF found = {} THEN -1 ELSE Min(found)
    BY <2>2 DEF IndexOf
  <2>4. CASE found = {}
    <3>1. ASSUME NEW i \in 1..n PROVE items[i] # value
      <4>1. i - 1 \in 0..(n - 1) /\ (i - 1) + 1 = i
        BY <1>3
      <4> QED
        BY <2>4, <4>1
    <3>2. DOMAIN items = 1..n
      BY <1>3, <1>8, Zenon
    <3> QED
      BY <2>3, <2>4, <3>1, <3>2 DEF ToSet
  <2>5. CASE found # {}
    <3>1. found \in SUBSET Nat
      BY <1>3
    <3>2. Min(found) \in found /\ \A k \in found : Min(found) <= k
      BY <2>5, <3>1, MinOf
    <3>3. IndexOf(value) = Min(found)
      BY <2>3, <2>5
    <3> DEFINE m == Min(found)
    <3> HIDE DEF m
    <3>4. m \in 0..(n - 1) /\ items[m + 1] = value /\ m # -1
      BY <3>2 DEF m
    <3>5. ASSUME NEW i \in 1..m PROVE items[i] # value
      <4>1. i - 1 \in 0..(n - 1) /\ (i - 1) + 1 = i /\ ~(m <= i - 1)
        BY <1>3, <3>4
      <4>2. i - 1 \notin found
        BY <3>2, <4>1 DEF m
      <4> QED
        BY <4>1, <4>2
    <3> QED
      BY <3>3, <3>4, <3>5 DEF m
  <2> QED
    BY <2>4, <2>5
<1>13. content.returned = content.expected
  BY DEF ListInv
<1> QED
  BY <1>3, <1>4, <1>5, <1>10, <1>11, <1>12, <1>13 DEF ChainIsSequence, items

LEMMA ListStarts == ListInit => ListInv
<1> SUFFICES ASSUME ListInit PROVE ListInv
  OBVIOUS
<1>1. list = [head |-> NoNode, count |-> 0, value |-> <<>>, next |-> <<>>]
  BY DEF ListInit
<1>2. /\ content.items = <<>> /\ content.items \in Seq(NodeValues) /\ Len(content.items) = 0
      /\ content.returned = content.expected
  BY DEF ListInit
<1>3. DOMAIN list.next = {} /\ DOMAIN list.value = {}
  BY <1>1
<1>4. IsList(list)
  BY <1>1, <1>3 DEF IsList
<1>5. IsChain([i \in 1..1 |-> NoNode], list, content.items)
  BY <1>1, <1>2, <1>3 DEF IsChain
<1> QED
  BY <1>1, <1>2, <1>4, <1>5, ListAssumption DEF ListInv

LEMMA NewNodeIsNew ==
  ASSUME ListInv, list.count < MaxNodes
  PROVE  NewNode \in NodeNames /\ NewNode \notin DOMAIN list.next
<1>1. PICK c : IsChain(c, list, content.items)
  BY DEF ListInv
<1>2. /\ IsFiniteSet(DOMAIN list.next) /\ Cardinality(DOMAIN list.next) = Len(content.items)
      /\ list.count = Len(content.items)
  <2>1. list.count = Len(content.items)
    BY <1>1 DEF IsChain
  <2> QED
    BY <1>1, <2>1, ChainFacts DEF ListInv
<1>3. Cardinality(NodeNames) = MaxNodes + 1
  <2>1. 1 \in Int /\ MaxNodes + 1 \in Int /\ 1 <= MaxNodes + 1
    BY ListAssumption
  <2> QED
    BY <2>1, FS_Interval DEF NodeNames
<1>4. NodeNames \ DOMAIN list.next # {}
  <2>1. DOMAIN list.next # NodeNames
    BY <1>2, <1>3, ListAssumption
  <2> QED
    BY <2>1 DEF ListInv, IsList
<1>5. NodeNames \ DOMAIN list.next \in SUBSET Nat
  BY ListAssumption DEF NodeNames
<1> QED
  BY <1>4, <1>5, MinOf DEF NewNode, NodeNames, Nodes

\* What a step leaves as a chain is one again.
LEMMA ListGrows ==
  ASSUME ListInv, NEW c, IsChain(c, list, content.items), list.count < MaxNodes,
         NEW v \in NodeValues, NEW p \in 0..Len(content.items), WithBehind(list', list, c, p, NewNode, v),
         GrownAt(content'.items, content.items, p, v, NodeValues), content'.returned = content'.expected
  PROVE  ListInv'
<1>1. IsList(list) /\ content.items \in Seq(NodeValues) /\ list.count \in 0..MaxNodes
  BY DEF ListInv
<1>2. NewNode \in NodeNames /\ NewNode \notin DOMAIN list.next
  BY NewNodeIsNew
<1>3. IsList(list') /\ \E d : IsChain(d, list', content'.items)
  BY <1>1, <1>2, ChainGrows
<1>4. list'.count = list.count + 1
  BY DEF WithBehind
<1>5. list'.count \in 0..MaxNodes
  BY <1>1, <1>4, ListAssumption
<1>6. content'.items \in Seq(NodeValues)
  BY DEF GrownAt
<1>7. IsList(list') <=> IsList(list)'
  BY DEF IsList, NodeNames
<1> QED
  BY <1>3, <1>5, <1>6, <1>7 DEF ListInv, IsChain

LEMMA WithNodeIs ==
  ASSUME IsList(list), NEW v, NEW q
  PROVE  WithNode(v, q) =
           [head |-> list.head, count |-> list.count + 1,
            value |-> [x \in Nodes \cup {NewNode} |-> IF x = NewNode THEN v ELSE list.value[x]],
            next |-> [x \in Nodes \cup {NewNode} |-> IF x = NewNode THEN q ELSE list.next[x]]]
<1>1. PICK h, k, a, b : list = [head |-> h, count |-> k, value |-> a, next |-> b]
  BY DEF IsList
<1>2. list.head = h /\ list.count = k /\ list.value = a /\ list.next = b
  BY <1>1
<1> DEFINE f == [x \in Nodes \cup {NewNode} |-> IF x = NewNode THEN v ELSE a[x]]
           g == [x \in Nodes \cup {NewNode} |-> IF x = NewNode THEN q ELSE b[x]]
<1>3. WithNode(v, q) = [list EXCEPT !.value = f, !.next = g, !.count = k + 1]
  BY <1>2 DEF WithNode
<1> HIDE DEF f, g
<1>4. WithNode(v, q) = [head |-> h, count |-> k + 1, value |-> f, next |-> g]
  BY <1>1, <1>3
<1> QED
  BY <1>2, <1>4 DEF f, g

LEMMA FrontIsBehindNone ==
  ASSUME ListInv, NEW c, IsChain(c, list, content.items), list.count < MaxNodes, NEW v \in NodeValues
  PROVE  WithBehind(AtFront(v), list, c, 0, NewNode, v)
<1>1. c[1] = list.head /\ NewNode \notin DOMAIN list.next
  BY NewNodeIsNew DEF IsChain
<1>2. IsList(list)
  BY DEF ListInv
<1> DEFINE f == [x \in Nodes \cup {NewNode} |-> IF x = NewNode THEN v ELSE list.value[x]]
           g == [x \in Nodes \cup {NewNode} |-> IF x = NewNode THEN list.head ELSE list.next[x]]
<1>3. WithNode(v, list.head) = [head |-> list.head, count |-> list.count + 1, value |-> f, next |-> g]
  BY <1>2, WithNodeIs
<1>4. g = [x \in Nodes \cup {NewNode} |-> IF x = NewNode THEN c[0 + 1] ELSE IF 0 # 0 /\ x = c[0] THEN NewNode
                                          ELSE list.next[x]]
  BY <1>1
<1> HIDE DEF g
<1>5. AtFront(v) = [head |-> NewNode, count |-> list.count + 1, value |-> f, next |-> g]
  <2> HIDE DEF f
  <2> QED
    BY <1>3 DEF AtFront
<1> QED
  BY <1>4, <1>5 DEF WithBehind, Nodes

LEMMA BehindIsBehind ==
  ASSUME ListInv, NEW c, IsChain(c, list, content.items), list.count < MaxNodes, NEW v \in NodeValues,
         NEW p \in 1..Len(content.items)
  PROVE  WithBehind(Behind(c[p], v), list, c, p, NewNode, v)
<1>1. c[p] \in Nodes /\ list.next[c[p]] = c[p + 1] /\ NewNode \notin Nodes /\ p # 0
  <2>1. c[p] \in Nodes /\ list.next[c[p]] = c[p + 1]
    BY DEF IsChain, Nodes
  <2> QED
    BY <2>1, NewNodeIsNew DEF Nodes
<1>2. list = [head |-> list.head, count |-> list.count, value |-> list.value, next |-> list.next]
  BY DEF ListInv, IsList
<1> DEFINE grown == [n \in Nodes \cup {NewNode} |-> IF n = NewNode THEN list.next[c[p]] ELSE list.next[n]]
           valued == [n \in Nodes \cup {NewNode} |-> IF n = NewNode THEN v ELSE list.value[n]]
<1>3. WithNode(v, list.next[c[p]]) =
        [head |-> list.head, count |-> list.count + 1, value |-> valued, next |-> grown]
  BY WithNodeIs DEF ListInv
<1>4. Behind(c[p], v) =
        [head |-> list.head, count |-> list.count + 1, value |-> valued,
         next |-> [grown EXCEPT ![c[p]] = NewNode]]
  <2> HIDE DEF grown, valued
  <2> QED
    BY <1>3 DEF Behind
<1>5. [grown EXCEPT ![c[p]] = NewNode] =
        [x \in Nodes \cup {NewNode} |-> IF x = NewNode THEN c[p + 1] ELSE IF p # 0 /\ x = c[p] THEN NewNode
                                        ELSE list.next[x]]
  BY <1>1
<1> QED
  BY <1>1, <1>4, <1>5 DEF WithBehind, Nodes

LEMMA EndIsBehindAll ==
  ASSUME ListInv, NEW c, IsChain(c, list, content.items), list.count < MaxNodes, NEW v \in NodeValues
  PROVE  WithBehind(AtEnd(v), list, c, Len(content.items), NewNode, v)
<1> DEFINE n == Len(content.items)
<1>1. n \in Nat /\ Length = n /\ NoNode \notin DOMAIN list.next /\ Walk = Along(c, n)
  <2>1. IsList(list) /\ content.items \in Seq(NodeValues)
    BY DEF ListInv
  <2> QED
    BY <2>1, ChainFacts, LengthOfChain, WalkGoesAlong
<1>2. /\ c[1] = list.head /\ c[n + 1] = NoNode
      /\ \A i \in 1..n : c[i] \in DOMAIN list.next
  BY DEF IsChain
<1>3. CASE n = 0
  <2>1. list.head = NoNode
    BY <1>2, <1>3
  <2> QED
    BY <1>3, <2>1, FrontIsBehindNone DEF AtEnd
<1>4. CASE n # 0
  <2>1. n - 1 \in Nat /\ n - 1 < n /\ (n - 1) + 1 = n /\ n \in 1..n /\ 1 \in 1..n
    BY <1>1, <1>4
  <2>2. list.head # NoNode
    BY <1>1, <1>2, <2>1
  <2>3. Walk[Length - 1] = c[n]
    BY <1>1, <2>1 DEF Along
  <2> QED
    BY <2>1, <2>2, <2>3, BehindIsBehind DEF AtEnd
<1> QED
  BY <1>3, <1>4

LEMMA RemovedIsBehind ==
  ASSUME ListInv, NEW c, IsChain(c, list, content.items), NEW p \in Nat, RemoveIndex(p)
  PROVE  /\ p \in 0..(Len(content.items) - 1) /\ WithoutBehind(list', list, c, p)
         /\ content'.items = RemoveAt(content.items, p + 1) /\ content'.returned = content'.expected
<1> DEFINE n == Len(content.items)
           removed == IF p = 0 THEN list.head ELSE list.next[NodeAt(p - 1)]
           cut == IF p = 0 THEN [list EXCEPT !.head = list.next[removed]]
                  ELSE [list EXCEPT !.next[NodeAt(p - 1)] = list.next[removed]]
<1>1. n \in Nat /\ Walk = Along(c, n) /\ list.count = n /\ c[1] = list.head
      /\ \A i \in 1..n : /\ c[i] \in Nodes /\ list.value[c[i]] = content.items[i]
                         /\ list.next[c[i]] = c[i + 1]
  <2>1. IsList(list) /\ content.items \in Seq(NodeValues)
    BY DEF ListInv
  <2>2. n \in Nat /\ Walk = Along(c, n)
    BY <2>1, WalkGoesAlong
  <2> QED
    BY <2>2 DEF IsChain, Nodes
<1>2. PICK h, k, a, b : list = [head |-> h, count |-> k, value |-> a, next |-> b]
  BY DEF ListInv, IsList
<1>3. /\ list.head = h /\ list.count = k /\ list.value = a /\ list.next = b
      /\ DOMAIN a = Nodes /\ DOMAIN b = Nodes /\ b = [x \in Nodes |-> b[x]]
  <2>1. list.head = h /\ list.count = k /\ list.value = a /\ list.next = b
    BY <1>2
  <2> QED
    BY <2>1 DEF ListInv, IsList, Nodes
<1>4. p \in 0..(n - 1) /\ p + 1 \in 1..n /\ p < n
  BY <1>1 DEF RemoveIndex
<1>5. p # 0 => NodeAt(p - 1) = c[p] /\ p \in 1..n
  <2> SUFFICES ASSUME p # 0 PROVE NodeAt(p - 1) = c[p] /\ p \in 1..n
    OBVIOUS
  <2>1. p - 1 \in Nat /\ p - 1 < n /\ (p - 1) + 1 = p /\ p \in 1..n
    BY <1>4
  <2> QED
    BY <1>1, <2>1 DEF NodeAt, Along
<1>6. removed = c[p + 1] /\ list.next[removed] = c[p + 2]
  BY <1>1, <1>4, <1>5
<1>7. /\ list' = Without(cut, removed)
      /\ content' = [items |-> RemoveAt(content.items, p + 1),
                     returned |-> <<list.value[removed]>>, expected |-> <<content.items[p + 1]>>]
  BY DEF RemoveIndex
<1>8. list.value[removed] = content.items[p + 1]
  BY <1>1, <1>4, <1>6
<1> HIDE DEF removed, n
<1> DEFINE rest == Nodes \ {c[p + 1]}
<1>9. cut.value = a /\ cut.count = k
      /\ cut.head = (IF p = 0 THEN c[2] ELSE h)
      /\ cut.next = (IF p = 0 THEN b ELSE [b EXCEPT ![c[p]] = c[p + 2]])
      /\ cut = [head |-> cut.head, count |-> cut.count, value |-> cut.value, next |-> cut.next]
  <2>1. CASE p = 0
    BY <1>2, <1>6, <2>1
  <2>2. CASE p # 0
    BY <1>2, <1>5, <1>6, <2>2
  <2> QED
    BY <2>1, <2>2
<1>10. \A x \in rest : cut.next[x] = IF p # 0 /\ x = c[p] THEN c[p + 2] ELSE b[x]
  BY <1>3, <1>5, <1>9
<1> HIDE DEF cut
<1> DEFINE f == [x \in rest |-> a[x]]
           g == [x \in rest |-> IF p # 0 /\ x = c[p] THEN c[p + 2] ELSE b[x]]
<1>11. Restrict(cut.value, rest) = f /\ Restrict(cut.next, rest) = g
  BY <1>9, <1>10 DEF Restrict
<1>12. Without(cut, removed) = [cut EXCEPT !.value = Restrict(cut.value, rest), !.next = Restrict(cut.next, rest),
                                          !.count = cut.count - 1]
  BY <1>6 DEF Without
<1> HIDE DEF f, g, rest
<1>13. Without(cut, removed) = [head |-> cut.head, count |-> k - 1, value |-> f, next |-> g]
  BY <1>9, <1>11, <1>12
<1>14. WithoutBehind(list', list, c, p)
  BY <1>3, <1>7, <1>9, <1>13 DEF WithoutBehind, f, g, rest, Nodes
<1> QED
  BY <1>4, <1>7, <1>8, <1>14 DEF n

LEMMA ListMoves == ListInv /\ [ListNext]_listVars => ListInv'
<1> SUFFICES ASSUME ListInv, [ListNext]_listVars PROVE ListInv'
  OBVIOUS
<1> DEFINE items == content.items
           n == Len(items)
<1>1. PICK c : IsChain(c, list, items)
  BY DEF ListInv
<1>2. items \in Seq(NodeValues) /\ n \in Nat /\ list.count = n
  BY <1>1 DEF ListInv, IsChain
<1>3. CASE UNCHANGED listVars
  <2>1. list' = list /\ content' = content
    BY <1>3 DEF listVars
  <2>2. IsList(list)' <=> IsList(list)
    BY <2>1 DEF IsList, NodeNames
  <2>3. IsChain(c, list, items)'
    BY <1>1, <2>1 DEF IsChain
  <2> QED
    BY <2>1, <2>2, <2>3 DEF ListInv
<1>4. ASSUME NEW v \in NodeValues, AppendValue(v) PROVE ListInv'
  <2>1. list' = AtEnd(v) /\ list.count < MaxNodes
    BY <1>4 DEF AppendValue, Grows
  <2>2. content'.items = Append(items, v) /\ content'.returned = content'.expected
    BY <1>4 DEF AppendValue, Grows
  <2>3. GrownAt(content'.items, items, n, v, NodeValues) /\ n \in 0..n
    <3>1. GrownAt(Append(items, v), items, Len(items), v, NodeValues)
      BY <1>2, EndsGrow
    <3> HIDE DEF items
    <3> QED
      BY <1>2, <2>2, <3>1
  <2>4. WithBehind(list', list, c, n, NewNode, v)
    BY <1>1, <2>1, EndIsBehindAll
  <2> QED
    BY <1>1, <2>1, <2>2, <2>3, <2>4, ListGrows
<1>5. ASSUME NEW v \in NodeValues, PrependValue(v) PROVE ListInv'
  <2>1. list' = AtFront(v) /\ list.count < MaxNodes
    BY <1>5 DEF PrependValue, Grows
  <2>2. content'.items = <<v>> \o items /\ content'.returned = content'.expected
    BY <1>5 DEF PrependValue, Grows
  <2>3. GrownAt(content'.items, items, 0, v, NodeValues) /\ 0 \in 0..n
    BY <1>2, <2>2, EndsGrow
  <2>4. WithBehind(list', list, c, 0, NewNode, v)
    BY <1>1, <2>1, FrontIsBehindNone
  <2> QED
    BY <1>1, <2>1, <2>2, <2>3, <2>4, ListGrows
<1>6. ASSUME NEW v \in NodeValues, NEW p \in 0..MaxNodes, InsertValue(p, v) PROVE ListInv'
  <2>0. p \in 0..n
    BY <1>2, <1>6, ListAssumption DEF InsertValue
  <2>1. list.count < MaxNodes
        /\ list' = IF p = 0 THEN AtFront(v) ELSE IF p = list.count THEN AtEnd(v) ELSE Behind(NodeAt(p - 1), v)
    BY <1>6 DEF InsertValue, Grows
  <2>2. content'.items = InsertAt(items, p + 1, v) /\ content'.returned = content'.expected
    BY <1>6 DEF InsertValue, Grows
  <2>3. GrownAt(content'.items, items, p, v, NodeValues)
    BY <1>2, <2>0, <2>2, InsertAtGrows
  <2>4. WithBehind(list', list, c, p, NewNode, v)
    <3>1. CASE p = 0
      BY <1>1, <2>1, <3>1, FrontIsBehindNone
    <3>2. CASE p # 0 /\ p = n
      BY <1>1, <1>2, <2>1, <3>2, EndIsBehindAll
    <3>3. CASE p # 0 /\ p # n
      <4>1. p \in 1..n /\ p - 1 \in Nat /\ p - 1 < n /\ (p - 1) + 1 = p
        BY <1>2, <2>0, <3>3
      <4>2. Walk = Along(c, n)
        BY <1>1, WalkGoesAlong DEF ListInv
      <4>3. NodeAt(p - 1) = c[p]
        <5> HIDE DEF n
        <5> QED
          BY <4>1, <4>2 DEF NodeAt, Along
      <4>4. list' = Behind(c[p], v)
        BY <1>2, <2>1, <3>3, <4>3
      <4> QED
        BY <1>1, <2>1, <4>1, <4>4, BehindIsBehind
    <3> QED
      BY <3>1, <3>2, <3>3
  <2> QED
    BY <1>1, <2>0, <2>1, <2>2, <2>3, <2>4, ListGrows
<1>7. ASSUME NEW p \in 0..MaxNodes, RemoveIndex(p) PROVE ListInv'
  <2>1. p \in Nat
    BY ListAssumption
  <2>2. /\ p \in 0..(n - 1) /\ WithoutBehind(list', list, c, p)
        /\ content'.items = RemoveAt(items, p + 1) /\ content'.returned = content'.expected
    BY <1>1, <1>7, <2>1, RemovedIsBehind
  <2>3. IsList(list') /\ \E d : IsChain(d, list', content'.items)
    BY <1>1, <1>2, <2>2, ChainShrinks DEF ListInv
  <2>4. content'.items \in Seq(NodeValues)
    <3>1. p + 1 \in 1..Len(items)
      BY <1>2, <2>2
    <3>2. RemoveAt(items, p + 1) \in Seq(NodeValues)
      BY <1>2, <3>1, RemoveAtOne
    <3> QED
      BY <2>2, <3>2
  <2>5. list'.count = n - 1
    BY <1>2, <2>2 DEF WithoutBehind
  <2>6. list'.count \in 0..MaxNodes
    <3>1. list.count \in 0..MaxNodes
      BY DEF ListInv
    <3> QED
      BY <1>2, <2>2, <2>5, <3>1, ListAssumption
  <2>7. IsList(list') <=> IsList(list)'
    BY DEF IsList, NodeNames
  <2> QED
    BY <2>2, <2>3, <2>4, <2>6, <2>7 DEF ListInv, IsChain
<1> QED
  BY <1>3, <1>4, <1>5, <1>6, <1>7 DEF ListNext

\* The nodes in the order of the chain are the sequence the callers have built
\* (linked_list.py:16-99).
THEOREM ChainStaysSequence == ListSpec => [](ListTypeOK /\ ChainIsSequence)
<1> QED
  BY ChainAgrees, ListStarts, ListMoves, PTL DEF ListSpec

-----------------------------------------------------------------------------
\* A blog.

CommentRecord == [id : 1..MaxComments, author : Users]

PostRecord ==
    [author : Users, text : Texts, time : PostTimes, comments : Seq(CommentRecord), tags : SUBSET Tags]

\* A blog of typed posts, ids given below the next ones, and each once.
IsBlog(b) ==
    /\ b = [users |-> b.users, posts |-> b.posts, nextPost |-> b.nextPost, nextComment |-> b.nextComment]
    /\ b.users \subseteq Users /\ b.nextPost \in 1..(MaxPosts + 1) /\ b.nextComment \in 1..(MaxComments + 1)
    /\ b.posts = [p \in DOMAIN b.posts |-> b.posts[p]]
    /\ \A p \in DOMAIN b.posts : p \in 1..MaxPosts /\ p < b.nextPost /\ b.posts[p] \in PostRecord

IdsOnce(b) ==
    \A p, q \in DOMAIN b.posts : \A i \in DOMAIN b.posts[p].comments, j \in DOMAIN b.posts[q].comments :
        b.posts[p].comments[i].id = b.posts[q].comments[j].id => p = q /\ i = j

WritersKnown(b) ==
    \A p \in DOMAIN b.posts :
        /\ b.posts[p].author \in b.users
        /\ \A i \in DOMAIN b.posts[p].comments :
              b.posts[p].comments[i].id < b.nextComment /\ b.posts[p].comments[i].author \in b.users

BlogInv == IsBlog(blog) /\ IdsOnce(blog) /\ WritersKnown(blog)

LEMMA PostTimeIsNumber ==
  ASSUME NEW post \in PostRecord
  PROVE  post.time \in Int
<1>1. post.time \in PostTimes
  BY DEF PostRecord
<1>2. post.time \in Nat
  BY <1>1, BlogAssumption, Zenon
<1> QED
  BY <1>2

LEMMA LatestFirstSorts ==
  ASSUME BlogInv, NEW S \in SUBSET Posts
  PROVE  Sorts(LatestFirst(S), S, Earlier(S))
<1>1. \A p \in S : p \in Int /\ blog.posts[p].time \in Int
  <2>1. \A p \in S : p \in 1..MaxPosts /\ blog.posts[p] \in PostRecord
    BY DEF BlogInv, IsBlog, Posts
  <2> QED
    BY <2>1, PostTimeIsNumber
<1>2. IsFiniteSet(S)
  <2>1. IsFiniteSet(1..MaxPosts) /\ S \in SUBSET (1..MaxPosts)
    <3>1. 1 \in Int /\ MaxPosts \in Int
      BY BlogAssumption
    <3> QED
      BY <3>1, FS_Interval DEF BlogInv, IsBlog, Posts
  <2> QED
    BY <2>1, FS_Subset
<1>3. \A p, q \in S : <<p, q>> \in Earlier(S) <=>
         blog.posts[p].time > blog.posts[q].time \/ (blog.posts[p].time = blog.posts[q].time /\ p < q)
  BY DEF Earlier
<1>4. StrictOrder(Earlier(S), S)
  <2> DEFINE time == [p \in S |-> blog.posts[p].time]
  <2>1. \A p \in S : time[p] \in Int /\ p \in Int
    BY <1>1
  <2>2. \A p, q \in S : <<p, q>> \in Earlier(S) <=> time[p] > time[q] \/ (time[p] = time[q] /\ p < q)
    BY <1>3
  <2> HIDE DEF time
  <2> QED
    BY <2>1, <2>2 DEF StrictOrder
<1> QED
  BY <1>2, <1>4, SortedBySorts DEF LatestFirst

LEMMA RecentAreLater ==
  ASSUME BlogInv, NEW n \in Nat
  PROVE  LET recent == ToSet(RecentPosts(n)) IN
         \A p \in recent, q \in Posts \ recent : blog.posts[p].time >= blog.posts[q].time
<1> DEFINE s == LatestFirst(Posts)
           k == Cardinality(Posts)
           m == Min({n, k})
           recent == ToSet(RecentPosts(n))
<1>1. /\ k \in Nat /\ s \in [1..k -> Posts]
      /\ \A p \in Posts : \E i \in 1..k : s[i] = p
      /\ \A i, j \in 1..k : <<s[i], s[j]>> \in Earlier(Posts) <=> i < j
  BY LatestFirstSorts DEF Sorts
<1>2. m \in 0..k
  BY <1>1, MinOfTwo
<1> HIDE DEF s, k, m
<1>3. s \in Seq(Posts) /\ Len(s) = k
  BY <1>1
<1>4. SubSeq(s, 1, m) \in Seq(Posts) /\ Len(SubSeq(s, 1, m)) = m /\ \A i \in 1..m : SubSeq(s, 1, m)[i] = s[i]
  <2>1. 1 \in Int /\ m \in Int /\ m >= 0 /\ \A i \in 1..m : s[i] \in Posts
    BY <1>1, <1>2
  <2>2. /\ SubSeq(s, 1, m) \in Seq(Posts)
        /\ Len(SubSeq(s, 1, m)) = IF 1 <= m THEN m - 1 + 1 ELSE 0
        /\ \A j \in 1..(m - 1 + 1) : SubSeq(s, 1, m)[j] = s[1 + j - 1]
    BY <2>1, SubSeqProperties
  <2> QED
    BY <2>1, <2>2
<1>5. recent = {s[i] : i \in 1..m}
  <2>1. RecentPosts(n) = SubSeq(s, 1, m)
    BY DEF RecentPosts, s, k, m
  <2>2. ToSet(SubSeq(s, 1, m)) = {s[i] : i \in 1..m}
    BY <1>4 DEF ToSet
  <2> QED
    BY <2>1, <2>2
<1> HIDE DEF recent
<1>6. ASSUME NEW p \in recent, NEW q \in Posts \ recent
      PROVE  blog.posts[p].time >= blog.posts[q].time
  <2>1. PICK i \in 1..m : s[i] = p
    BY <1>5
  <2>2. PICK j \in 1..k : s[j] = q
    BY <1>1
  <2>3. j \notin 1..m
    BY <1>5, <2>2
  <2>4. i \in 1..k /\ i < j
    BY <1>1, <1>2, <2>3
  <2>5. <<p, q>> \in Earlier(Posts)
    BY <1>1, <2>1, <2>2, <2>4
  <2>6. p \in Posts
    BY <1>1, <2>1, <2>4
  <2>7. blog.posts[p].time \in Int /\ blog.posts[q].time \in Int
    <3>1. blog.posts[p] \in PostRecord /\ blog.posts[q] \in PostRecord
      BY <2>6 DEF BlogInv, IsBlog, Posts
    <3> QED
      BY <3>1, PostTimeIsNumber
  <2> QED
    BY <2>5, <2>6, <2>7 DEF Earlier
<1> QED
  BY <1>6 DEF recent

LEMMA TagsFindPosts ==
  ASSUME BlogInv, NEW user \in Users, NEW tag \in Tags
  PROVE  tag \in AllTagsForUser(user) <=> \E p \in ToSet(PostsByTag(tag)) : IsAuthor(user, p)
<1> DEFINE S == {p \in Posts : tag \in blog.posts[p].tags}
           s == LatestFirst(S)
<1>1. Sorts(s, S, Earlier(S))
  BY LatestFirstSorts
<1>2. PostsByTag(tag) = s
  BY DEF PostsByTag
<1> HIDE DEF s
<1>3. ToSet(s) = S
  BY <1>1 DEF Sorts, ToSet
<1> QED
  BY <1>2, <1>3 DEF AllTagsForUser, IsAuthor

LEMMA BlogAgrees == BlogInv => BlogTypeOK /\ ListingsAgree
<1> SUFFICES ASSUME BlogInv PROVE BlogTypeOK /\ ListingsAgree
  OBVIOUS
<1>1. \A p \in Posts : p \in 1..MaxPosts /\ p < blog.nextPost /\ blog.posts[p] \in PostRecord
  BY DEF BlogInv, IsBlog, Posts
<1>2. BlogTypeOK
  <2>1. blog.users \subseteq Users
    BY DEF BlogInv, IsBlog
  <2> QED
    BY <1>1, <2>1 DEF BlogTypeOK, PostRecord, CommentRecord
<1>3. \A p, q \in Posts : \A i \in DOMAIN blog.posts[p].comments, j \in DOMAIN blog.posts[q].comments :
          LET c == blog.posts[p].comments[i]    d == blog.posts[q].comments[j]
          IN  c.id < blog.nextComment /\ (c.id = d.id => p = q /\ i = j)
  BY DEF BlogInv, IdsOnce, WritersKnown, Posts
<1>4. {blog.posts[p].author : p \in Posts} \cup {c.author : c \in Comments} \subseteq blog.users
  BY DEF BlogInv, WritersKnown, Posts, Comments, ToSet
<1>5. 0..MaxPosts \subseteq Nat
  BY BlogAssumption
<1> QED
  BY <1>1, <1>2, <1>3, <1>4, <1>5, RecentAreLater, TagsFindPosts DEF ListingsAgree

LEMMA BlogStarts == BlogInit => BlogInv
<1> SUFFICES ASSUME BlogInit PROVE BlogInv
  OBVIOUS
<1>1. blog = [users |-> {}, posts |-> <<>>, nextPost |-> 1, nextComment |-> 1] /\ DOMAIN blog.posts = {}
  BY DEF BlogInit
<1>2. blog.posts = [p \in DOMAIN blog.posts |-> blog.posts[p]]
  BY <1>1
<1> QED
  BY <1>1, <1>2, BlogAssumption DEF BlogInv, IsBlog, IdsOnce, WritersKnown

\* b2 is b with a post changed, by users of whom some may be new.
PostChanged(b2, b, p, post, users, n) ==
    b2 = [users |-> users, posts |-> [b.posts EXCEPT ![p] = post], nextPost |-> b.nextPost, nextComment |-> n]

\* The comments were there, or have an id not given before.
CommentsCarried(post, old, users, n, m) ==
    /\ \A i \in DOMAIN post.comments :
          /\ post.comments[i].id < m /\ post.comments[i].author \in users
          /\ \/ post.comments[i].id >= n
             \/ \E j \in DOMAIN old.comments : post.comments[i] = old.comments[j]
    /\ \A i, j \in DOMAIN post.comments : post.comments[i].id = post.comments[j].id => i = j

LEMMA ChangedPostStaysFine ==
  ASSUME NEW b, IsBlog(b), IdsOnce(b), WritersKnown(b), NEW p \in DOMAIN b.posts, NEW post \in PostRecord,
         NEW users \in SUBSET Users, b.users \subseteq users,
         NEW n \in 1..(MaxComments + 1), b.nextComment <= n,
         post.author = b.posts[p].author, CommentsCarried(post, b.posts[p], users, b.nextComment, n),
         NEW b2, PostChanged(b2, b, p, post, users, n)
  PROVE  IsBlog(b2) /\ IdsOnce(b2) /\ WritersKnown(b2)
<1>1. /\ b2 = [users |-> b2.users, posts |-> b2.posts, nextPost |-> b2.nextPost, nextComment |-> b2.nextComment]
      /\ b2.users = users /\ b2.nextPost = b.nextPost /\ b2.nextComment = n
      /\ DOMAIN b2.posts = DOMAIN b.posts /\ b2.posts[p] = post
      /\ \A q \in DOMAIN b.posts : q # p => b2.posts[q] = b.posts[q]
      /\ b2.posts = [q \in DOMAIN b2.posts |-> b2.posts[q]]
  BY DEF PostChanged
<1>2. IsBlog(b2)
  BY <1>1 DEF IsBlog
<1>3. \A q \in DOMAIN b.posts : b2.posts[q] \in PostRecord /\ b.posts[q] \in PostRecord
  BY <1>1 DEF IsBlog
<1>4. \A q \in DOMAIN b.posts :
         /\ \A i \in DOMAIN b.posts[q].comments : b.posts[q].comments[i].id \in Int
         /\ \A i \in DOMAIN b2.posts[q].comments : b2.posts[q].comments[i].id \in Int
  <2>1. \A x \in PostRecord : \A i \in DOMAIN x.comments : x.comments[i].id \in Int
    <3> SUFFICES ASSUME NEW x \in PostRecord, NEW i \in DOMAIN x.comments PROVE x.comments[i].id \in Int
      OBVIOUS
    <3>1. x.comments \in Seq(CommentRecord)
      BY DEF PostRecord
    <3>2. x.comments[i] \in CommentRecord
      BY <3>1
    <3> QED
      BY <3>2, BlogAssumption DEF CommentRecord
  <2> QED
    BY <1>3, <2>1
<1>5. b.nextComment \in Int /\ n \in Int
  BY BlogAssumption DEF IsBlog
<1>6. WritersKnown(b2)
  <2> SUFFICES ASSUME NEW q \in DOMAIN b2.posts
               PROVE  /\ b2.posts[q].author \in users
                      /\ \A i \in DOMAIN b2.posts[q].comments :
                            b2.posts[q].comments[i].id < n /\ b2.posts[q].comments[i].author \in users
    BY <1>1 DEF WritersKnown
  <2>1. CASE q = p
    <3>1. b.posts[p].author \in b.users
      BY DEF WritersKnown
    <3> QED
      BY <1>1, <2>1, <3>1 DEF CommentsCarried
  <2>2. CASE q # p
    BY <1>1, <1>4, <1>5, <2>2 DEF WritersKnown
  <2> QED
    BY <2>1, <2>2
<1>7. IdsOnce(b2)
  <2> SUFFICES ASSUME NEW q \in DOMAIN b.posts, NEW s \in DOMAIN b.posts,
                      NEW i \in DOMAIN b2.posts[q].comments, NEW j \in DOMAIN b2.posts[s].comments,
                      b2.posts[q].comments[i].id = b2.posts[s].comments[j].id
               PROVE  q = s /\ i = j
    BY <1>1 DEF IdsOnce
  <2>1. \A t \in DOMAIN b.posts : t # p =>
           \A k \in DOMAIN post.comments, h \in DOMAIN b.posts[t].comments :
              post.comments[k].id # b.posts[t].comments[h].id
    <3> SUFFICES ASSUME NEW t \in DOMAIN b.posts, t # p,
                        NEW k \in DOMAIN post.comments, NEW h \in DOMAIN b.posts[t].comments
                 PROVE  post.comments[k].id # b.posts[t].comments[h].id
      OBVIOUS
    <3>1. b.posts[t].comments[h].id < b.nextComment
      BY DEF WritersKnown
    <3>2. CASE post.comments[k].id >= b.nextComment
      <4>1. post.comments[k].id \in Int /\ b.posts[t].comments[h].id \in Int
        BY <1>1, <1>4
      <4> QED
        BY <1>5, <3>1, <3>2, <4>1
    <3>3. CASE \E g \in DOMAIN b.posts[p].comments : post.comments[k] = b.posts[p].comments[g]
      BY <3>3 DEF IdsOnce
    <3> QED
      BY <3>2, <3>3 DEF CommentsCarried
  <2>2. CASE q = p /\ s = p
    BY <1>1, <2>2 DEF CommentsCarried
  <2>3. CASE q = p /\ s # p
    BY <1>1, <2>1, <2>3
  <2>4. CASE q # p /\ s = p
    BY <1>1, <2>1, <2>4
  <2>5. CASE q # p /\ s # p
    BY <1>1, <2>5 DEF IdsOnce
  <2> QED
    BY <2>2, <2>3, <2>4, <2>5
<1> QED
  BY <1>2, <1>6, <1>7

LEMMA BlogShape ==
  ASSUME BlogInv
  PROVE  /\ BlogTypeOK
         /\ blog = [users |-> blog.users, posts |-> blog.posts, nextPost |-> blog.nextPost,
                    nextComment |-> blog.nextComment]
         /\ blog.nextPost \in Int /\ blog.nextComment \in Int
         /\ \A p \in Posts : blog.posts[p] \in PostRecord
         /\ blog.posts = [p \in Posts |-> blog.posts[p]]
<1>1. IsBlog(blog)
  BY DEF BlogInv
<1>2. blog.nextPost \in Int /\ blog.nextComment \in Int
  BY <1>1, BlogAssumption DEF IsBlog
<1> QED
  BY <1>1, <1>2, BlogAgrees DEF IsBlog, Posts

\* A change that writes no comment and registers nobody.
LEMMA PostEdited ==
  ASSUME BlogInv, NEW p \in Posts, NEW post \in PostRecord,
         post.author = blog.posts[p].author, post.comments = blog.posts[p].comments,
         PostChanged(blog', blog, p, post, blog.users, blog.nextComment)
  PROVE  BlogInv'
<1>1. CommentsCarried(post, blog.posts[p], blog.users, blog.nextComment, blog.nextComment)
  BY DEF CommentsCarried, BlogInv, WritersKnown, IdsOnce, Posts
<1>2. /\ blog.users \in SUBSET Users /\ blog.nextComment \in 1..(MaxComments + 1)
      /\ blog.nextComment <= blog.nextComment
  BY BlogShape DEF BlogInv, IsBlog
<1> QED
  BY <1>1, <1>2, ChangedPostStaysFine DEF BlogInv, Posts, IsBlog, IdsOnce, WritersKnown, PostRecord, CommentRecord

LEMMA PostCreated ==
  ASSUME BlogInv, NEW user \in Users, NEW text \in Texts, NEW time \in PostTimes, CreatePost(user, text, time)
  PROVE  BlogInv'
<1> DEFINE post == [author |-> user, text |-> text, time |-> time, comments |-> <<>>, tags |-> {}]
           k == blog.nextPost
           P == Posts \cup {k}
           posts == [p \in P |-> IF p = k THEN post ELSE blog.posts[p]]
<1>1. k <= MaxPosts
      /\ blog' = [blog EXCEPT !.users = @ \cup {user}, !.nextPost = @ + 1, !.posts = posts]
  BY DEF CreatePost
<1>2. post \in PostRecord /\ DOMAIN post.comments = {} /\ post.author = user
  BY DEF PostRecord
<1>3. k \notin Posts /\ k \in 1..MaxPosts /\ \A p \in Posts : p \in 1..MaxPosts /\ p < k /\ p < k + 1
  BY <1>1, BlogAssumption DEF BlogInv, IsBlog, Posts
<1> HIDE DEF post
<1>4. DOMAIN posts = P /\ posts[k] = post /\ posts = [p \in P |-> posts[p]]
      /\ \A p \in Posts : posts[p] = blog.posts[p]
  BY <1>3
<1> HIDE DEF posts
<1>5. blog' = [users |-> blog.users \cup {user}, posts |-> posts, nextPost |-> k + 1,
               nextComment |-> blog.nextComment]
  BY <1>1, BlogShape
<1>6. /\ blog'.users = blog.users \cup {user} /\ blog'.posts = posts /\ blog'.nextPost = k + 1
      /\ blog'.nextComment = blog.nextComment
  BY <1>5
<1>7. IsBlog(blog')
  <2>1. k + 1 \in 1..(MaxPosts + 1)
    BY <1>3, BlogAssumption
  <2>2. \A p \in P : p \in 1..MaxPosts /\ p < k + 1 /\ posts[p] \in PostRecord
    BY <1>2, <1>3, <1>4, BlogShape
  <2>3. blog.users \subseteq Users /\ blog.nextComment \in 1..(MaxComments + 1)
    BY DEF BlogInv, IsBlog
  <2> QED
    BY <1>4, <1>5, <1>6, <2>1, <2>2, <2>3 DEF IsBlog
<1>8. IdsOnce(blog')
  <2> SUFFICES ASSUME NEW p \in DOMAIN blog'.posts, NEW q \in DOMAIN blog'.posts,
                      NEW i \in DOMAIN blog'.posts[p].comments, NEW j \in DOMAIN blog'.posts[q].comments,
                      blog'.posts[p].comments[i].id = blog'.posts[q].comments[j].id
               PROVE  p = q /\ i = j
    BY DEF IdsOnce
  <2>1. p \in P /\ q \in P /\ blog'.posts[p] = posts[p] /\ blog'.posts[q] = posts[q]
    BY <1>4, <1>6
  <2>2. p # k /\ q # k
    BY <1>2, <1>4, <2>1
  <2>3. blog'.posts[p] = blog.posts[p] /\ blog'.posts[q] = blog.posts[q] /\ p \in Posts /\ q \in Posts
    BY <1>4, <2>1, <2>2
  <2>4. IdsOnce(blog)
    BY DEF BlogInv
  <2> QED
    BY <2>3, <2>4 DEF IdsOnce, Posts
<1>9. WritersKnown(blog')
  BY <1>2, <1>4, <1>6 DEF WritersKnown, BlogInv, Posts
<1> QED
  BY <1>7, <1>8, <1>9 DEF BlogInv, IsBlog, IdsOnce, WritersKnown, PostRecord, CommentRecord

LEMMA PostDeleted ==
  ASSUME BlogInv, NEW user \in Users, NEW p \in Posts, DeletePost(user, p)
  PROVE  BlogInv'
<1> DEFINE P == Posts \ {p}
           posts == Restrict(blog.posts, P)
<1>1. blog' = [blog EXCEPT !.posts = posts]
  BY DEF DeletePost
<1>2. DOMAIN posts = P /\ posts = [q \in P |-> posts[q]] /\ \A q \in P : posts[q] = blog.posts[q]
  BY DEF Restrict
<1> HIDE DEF posts
<1>3. blog' = [users |-> blog.users, posts |-> posts, nextPost |-> blog.nextPost,
               nextComment |-> blog.nextComment]
  BY <1>1, BlogShape
<1>4. /\ blog'.users = blog.users /\ blog'.posts = posts /\ blog'.nextPost = blog.nextPost
      /\ blog'.nextComment = blog.nextComment
  BY <1>3
<1>5. IsBlog(blog')
  BY <1>2, <1>3, <1>4 DEF IsBlog, BlogInv, Posts
<1>6. IdsOnce(blog')
  <2>1. IdsOnce(blog)
    BY DEF BlogInv
  <2> QED
    BY <1>2, <1>4, <2>1 DEF IdsOnce, Posts
<1>7. WritersKnown(blog')
  BY <1>2, <1>4 DEF WritersKnown, BlogInv, Posts
<1> QED
  BY <1>5, <1>6, <1>7 DEF BlogInv, IsBlog, IdsOnce, WritersKnown, PostRecord, CommentRecord

LEMMA CommentAdded ==
  ASSUME BlogInv, NEW user \in Users, NEW p \in Posts, AddComment(user, p)
  PROVE  BlogInv'
<1> DEFINE k == blog.nextComment
           old == blog.posts[p]
           c == [id |-> k, author |-> user]
           post == [old EXCEPT !.comments = Append(old.comments, c)]
           users == blog.users \cup {user}
<1>1. /\ k <= MaxComments
      /\ blog' = [blog EXCEPT !.users = users, !.nextComment = k + 1, !.posts = [blog.posts EXCEPT ![p] = post]]
  BY DEF AddComment
<1>2. PostChanged(blog', blog, p, post, users, k + 1)
  <2> HIDE DEF post, users
  <2> QED
    BY <1>1, BlogShape DEF PostChanged
<1>3. old \in PostRecord
  BY BlogShape
<1>4. k \in 1..(MaxComments + 1) /\ k \in 1..MaxComments /\ k \in Int /\ k + 1 \in 1..(MaxComments + 1) /\ k <= k + 1
  BY <1>1, BlogAssumption DEF BlogInv, IsBlog
<1>5. old.comments \in Seq(CommentRecord) /\ c \in CommentRecord
  BY <1>3, <1>4 DEF PostRecord, CommentRecord
<1> HIDE DEF k
<1>6. /\ post \in PostRecord /\ post.author = old.author /\ post.comments = Append(old.comments, c)
  <2>1. Append(old.comments, c) \in Seq(CommentRecord)
    BY <1>5
  <2> HIDE DEF old, c
  <2> QED
    BY <1>3, <2>1 DEF PostRecord
<1> DEFINE n == Len(old.comments)
<1>7. /\ DOMAIN post.comments = 1..(n + 1) /\ DOMAIN old.comments = 1..n /\ post.comments[n + 1] = c
      /\ n \in Nat /\ \A i \in 1..n : post.comments[i] = old.comments[i]
  BY <1>5, <1>6
<1>8. \A i \in 1..n : old.comments[i].id < k /\ old.comments[i].author \in blog.users /\ old.comments[i].id \in Int
  <2>1. \A i \in 1..n : old.comments[i].id < k /\ old.comments[i].author \in blog.users
    BY <1>7 DEF BlogInv, WritersKnown, Posts, k
  <2>2. \A i \in 1..n : old.comments[i] \in CommentRecord
    BY <1>5
  <2>3. \A x \in CommentRecord : x.id \in Int
    BY BlogAssumption DEF CommentRecord
  <2> QED
    BY <2>1, <2>2, <2>3
<1>9. \A i, j \in 1..n : old.comments[i].id = old.comments[j].id => i = j
  BY <1>7 DEF BlogInv, IdsOnce, Posts
<1>10. c.id = k /\ c.author = user
  OBVIOUS
<1> HIDE DEF n, c, old, post
<1>11. CommentsCarried(post, old, users, k, k + 1)
  <2>1. \A i \in 1..(n + 1) : i = n + 1 \/ i \in 1..n
    BY <1>7
  <2>2. ASSUME NEW i \in 1..(n + 1)
        PROVE  /\ post.comments[i].id < k + 1 /\ post.comments[i].author \in users
               /\ \/ post.comments[i].id >= k
                  \/ \E j \in 1..n : post.comments[i] = old.comments[j]
    <3>1. CASE i = n + 1
      BY <1>4, <1>7, <1>10, <3>1
    <3>2. CASE i \in 1..n
      BY <1>4, <1>7, <1>8, <3>2
    <3> QED
      BY <2>1, <3>1, <3>2
  <2>3. ASSUME NEW i \in 1..(n + 1), NEW j \in 1..(n + 1), post.comments[i].id = post.comments[j].id
        PROVE  i = j
    <3>1. \A h \in 1..n : post.comments[h].id # k
      BY <1>4, <1>7, <1>8
    <3>2. CASE i = n + 1 \/ j = n + 1
      BY <1>7, <1>10, <2>1, <2>3, <3>1, <3>2
    <3>3. CASE i \in 1..n /\ j \in 1..n
      BY <1>7, <1>9, <2>3, <3>3
    <3> QED
      BY <2>1, <3>2, <3>3
  <2> QED
    BY <1>7, <2>2, <2>3 DEF CommentsCarried
<1>12. users \in SUBSET Users /\ blog.users \subseteq users
  BY DEF BlogInv, IsBlog
<1> HIDE DEF users
<1>13. IsBlog(blog') /\ IdsOnce(blog') /\ WritersKnown(blog')
  BY <1>2, <1>4, <1>6, <1>11, <1>12, ChangedPostStaysFine DEF BlogInv, Posts, old, k
<1> QED
  BY <1>13 DEF BlogInv, IsBlog, IdsOnce, WritersKnown, PostRecord, CommentRecord

LEMMA CommentDeleted ==
  ASSUME BlogInv, NEW user \in Users, NEW p \in Posts, NEW id, DeleteComment(user, p, id)
  PROVE  BlogInv'
<1> DEFINE old == blog.posts[p]
           kept == Filtered(old.comments, {c \in ToSet(old.comments) : c.id # id})
           post == [old EXCEPT !.comments = kept]
<1>1. blog' = [blog EXCEPT !.posts = [blog.posts EXCEPT ![p] = post]]
  BY DEF DeleteComment
<1>2. PostChanged(blog', blog, p, post, blog.users, blog.nextComment)
  <2> HIDE DEF post
  <2> QED
    BY <1>1, BlogShape DEF PostChanged
<1>3. old \in PostRecord
  BY BlogShape
<1>4. old.comments \in Seq(CommentRecord)
  BY <1>3 DEF PostRecord
<1> HIDE DEF old
<1>40. IsFiltered(kept, old.comments, {c \in ToSet(old.comments) : c.id # id}, CommentRecord)
  BY <1>4, FilteredKeeps
<1> HIDE DEF kept
<1>5. PICK n \in Nat : \E at \in [1..n -> DOMAIN old.comments] :
         /\ KeptPlaces(at, n, old.comments, {c \in ToSet(old.comments) : c.id # id})
         /\ kept = [k \in 1..n |-> old.comments[at[k]]]
         /\ kept \in Seq(CommentRecord) /\ Len(kept) = n /\ DOMAIN kept = 1..n
  BY <1>40 DEF IsFiltered
<1>6. PICK at \in [1..n -> DOMAIN old.comments] :
         /\ Climbs(at, n) /\ \A k \in 1..n : kept[k] = old.comments[at[k]]
         /\ kept \in Seq(CommentRecord) /\ DOMAIN kept = 1..n
  BY <1>5 DEF KeptPlaces
<1>7. post \in PostRecord /\ post.author = old.author /\ post.comments = kept
  BY <1>3, <1>6 DEF PostRecord
<1> HIDE DEF post
<1>8. \A i \in DOMAIN old.comments : /\ old.comments[i].id < blog.nextComment
                                     /\ old.comments[i].author \in blog.users
  BY DEF BlogInv, WritersKnown, Posts, old
<1>9. \A i, j \in DOMAIN old.comments : old.comments[i].id = old.comments[j].id => i = j
  BY DEF BlogInv, IdsOnce, Posts, old
<1>10. \A i, j \in 1..n : at[i] = at[j] => i = j
  <2> SUFFICES ASSUME NEW i \in 1..n, NEW j \in 1..n, at[i] = at[j] PROVE i = j
    OBVIOUS
  <2>1. at[i] \in Int
    <3>1. DOMAIN old.comments = 1..Len(old.comments)
      BY <1>4
    <3> QED
      BY <3>1
  <2>2. ~(i < j) /\ ~(j < i)
    BY <1>6, <2>1 DEF Climbs
  <2> QED
    BY <2>2
<1>11. CommentsCarried(post, old, blog.users, blog.nextComment, blog.nextComment)
  BY <1>6, <1>7, <1>8, <1>9, <1>10 DEF CommentsCarried
<1>12. /\ blog.users \in SUBSET Users /\ blog.nextComment \in 1..(MaxComments + 1)
       /\ blog.nextComment <= blog.nextComment
  BY BlogShape DEF BlogInv, IsBlog
<1>13. IsBlog(blog') /\ IdsOnce(blog') /\ WritersKnown(blog')
  BY <1>2, <1>7, <1>11, <1>12, ChangedPostStaysFine DEF BlogInv, Posts, old
<1> QED
  BY <1>13 DEF BlogInv, IsBlog, IdsOnce, WritersKnown, PostRecord, CommentRecord

LEMMA BlogMoves == BlogInv /\ [BlogNext]_blog => BlogInv'
<1> SUFFICES ASSUME BlogInv, [BlogNext]_blog PROVE BlogInv'
  OBVIOUS
<1>1. CASE UNCHANGED blog
  <2>1. IsBlog(blog') /\ IdsOnce(blog') /\ WritersKnown(blog')
    BY <1>1 DEF BlogInv
  <2> QED
    BY <2>1 DEF BlogInv, IsBlog, IdsOnce, WritersKnown, PostRecord, CommentRecord
<1>2. ASSUME NEW user \in Users, NEW p \in Posts, NEW text \in Texts, EditPost(user, p, text)
      PROVE  BlogInv'
  <2> DEFINE post == [blog.posts[p] EXCEPT !.text = text]
  <2>1. blog' = [blog EXCEPT !.posts = [blog.posts EXCEPT ![p] = post]]
    BY <1>2 DEF EditPost
  <2>2. blog.posts[p] \in PostRecord
    BY BlogShape
  <2>3. post \in PostRecord /\ post.author = blog.posts[p].author /\ post.comments = blog.posts[p].comments
    BY <2>2 DEF PostRecord
  <2> HIDE DEF post
  <2>4. PostChanged(blog', blog, p, post, blog.users, blog.nextComment)
    BY <2>1, BlogShape DEF PostChanged
  <2> QED
    BY <2>3, <2>4, PostEdited
<1>3. ASSUME NEW user \in Users, NEW p \in Posts, NEW tag \in Tags, AddTag(user, p, tag)
      PROVE  BlogInv'
  <2> DEFINE post == [blog.posts[p] EXCEPT !.tags = blog.posts[p].tags \cup {tag}]
  <2>1. blog' = [blog EXCEPT !.posts = [blog.posts EXCEPT ![p] = post]]
    BY <1>3 DEF AddTag
  <2>2. blog.posts[p] \in PostRecord
    BY BlogShape
  <2>3. post \in PostRecord /\ post.author = blog.posts[p].author /\ post.comments = blog.posts[p].comments
    BY <2>2 DEF PostRecord
  <2> HIDE DEF post
  <2>4. PostChanged(blog', blog, p, post, blog.users, blog.nextComment)
    BY <2>1, BlogShape DEF PostChanged
  <2> QED
    BY <2>3, <2>4, PostEdited
<1> QED
  BY <1>1, <1>2, <1>3, PostCreated, PostDeleted, CommentAdded, CommentDeleted DEF BlogNext

\* Ids, listings and tags agree with the posts kept (blog.py:26-105).
THEOREM ListingsStayAgreed == BlogSpec => [](BlogTypeOK /\ ListingsAgree)
<1> QED
  BY BlogAgrees, BlogStarts, BlogMoves, PTL DEF BlogSpec

-----------------------------------------------------------------------------
\* Queries over a table.

-----------------------------------------------------------------------------
LEMMA CellsRead ==
  ASSUME NEW row \in DOMAIN Table, NEW column \in Headers
  PROVE  Cell(row, column) \in TableCells
<1>1. Table[row] \in [Headers -> TableCells]
  BY TableAssumption
<1> QED
  BY <1>1 DEF Cell

LEMMA NumbersRead ==
  ASSUME NEW cell \in TableCells
  PROVE  cell.text \in Int /\ (IsNumeric(cell) /\ ~IsNaN(cell) => Number(cell) \in Int)
<1>1. cell.text \in Int /\ cell.number \in SUBSET (Int \cup {NaN})
  BY DEF TableCells
<1>2. IsNumeric(cell) => Number(cell) \in cell.number
  BY DEF IsNumeric, Number
<1> QED
  BY <1>1, <1>2 DEF IsNaN

\* Sort keys are in one order, up to equal ones, as long as none is a nan.
LEMMA BeforeIsOrder ==
  ASSUME NEW a \in TableCells, NEW b \in TableCells, NEW c \in TableCells,
         ~IsNaN(a), ~IsNaN(b), ~IsNaN(c)
  PROVE  /\ ~Before(a, a)
         /\ Before(a, b) => ~Before(b, a)
         /\ Before(a, b) /\ ~Before(c, b) => Before(a, c)
         /\ ~Before(b, a) /\ Before(b, c) => Before(a, c)
         /\ ~Before(b, a) /\ ~Before(c, b) => ~Before(c, a)
<1> DEFINE key(x) == IF IsNumeric(x) THEN Number(x) ELSE x.text
           cells == {a, b, c}
<1>1. \A x, y \in cells : Before(x, y) <=>
         \/ IsNumeric(x) /\ ~IsNumeric(y)
         \/ (IsNumeric(x) <=> IsNumeric(y)) /\ key(x) < key(y)
  BY DEF Before
<1>2. \A x \in cells : key(x) \in Int
  BY NumbersRead
<1>3. \A x \in cells : IsNumeric(x) \in BOOLEAN
  BY DEF IsNumeric
<1>4. a \in cells /\ b \in cells /\ c \in cells
  OBVIOUS
<1> HIDE DEF key, cells
<1> QED
  BY <1>1, <1>2, <1>3, <1>4

\* Rows in the order last asked for, if its keys had one.
RowsInOrder(rows, o) ==
    o.total =>
        \A i, j \in DOMAIN rows : i < j =>
            LET a == Cell(rows[i], o.column)    b == Cell(rows[j], o.column)
            IN  IF o.ascending THEN ~Before(b, a) ELSE ~Before(a, b)

QueryInv ==
    /\ query = [rows |-> query.rows, columns |-> query.columns]
    /\ query.rows \in Seq(DOMAIN Table) /\ query.columns \subseteq Headers
    /\ order = Unordered \/ order \in [column : Headers, ascending : BOOLEAN, total : BOOLEAN]
    /\ IsInjective(query.rows) /\ RowsInOrder(query.rows, order)

\* Rows that keep their order stay in it, each once.
LEMMA KeptRowsStay ==
  ASSUME NEW rows \in Seq(DOMAIN Table), NEW kept \in Seq(DOMAIN Table), NEW at \in [DOMAIN kept -> DOMAIN rows],
         Climbs(at, Len(kept)), \A k \in DOMAIN kept : kept[k] = rows[at[k]],
         NEW o, IsInjective(rows), RowsInOrder(rows, o)
  PROVE  IsInjective(kept) /\ RowsInOrder(kept, o)
<1> DEFINE n == Len(kept)
<1>1. DOMAIN kept = 1..n /\ n \in Nat /\ DOMAIN rows = 1..Len(rows) /\ \A k \in 1..n : at[k] \in Int
  OBVIOUS
<1>2. \A j, k \in 1..n : at[j] < at[k] <=> j < k
  BY DEF Climbs
<1>3. IsInjective(kept)
  <2> SUFFICES ASSUME NEW j \in 1..n, NEW k \in 1..n, kept[j] = kept[k] PROVE j = k
    BY <1>1 DEF IsInjective
  <2>1. at[j] = at[k]
    BY <1>1 DEF IsInjective
  <2>2. ~(j < k) /\ ~(k < j)
    BY <1>1, <1>2, <2>1
  <2> QED
    BY <2>2
<1>4. RowsInOrder(kept, o)
  <2> SUFFICES ASSUME o.total, NEW i \in 1..n, NEW j \in 1..n, i < j
               PROVE  LET a == Cell(kept[i], o.column)    b == Cell(kept[j], o.column)
                      IN  IF o.ascending THEN ~Before(b, a) ELSE ~Before(a, b)
    BY <1>1 DEF RowsInOrder
  <2>1. at[i] < at[j] /\ at[i] \in DOMAIN rows /\ at[j] \in DOMAIN rows
    BY <1>1, <1>2
  <2>2. kept[i] = rows[at[i]] /\ kept[j] = rows[at[j]]
    BY <1>1
  <2> QED
    BY <2>1, <2>2 DEF RowsInOrder
<1> QED
  BY <1>3, <1>4

LEMMA QueryStarts == QueryInit => QueryInv
<1> SUFFICES ASSUME QueryInit PROVE QueryInv
  OBVIOUS
<1>1. query = [rows |-> [i \in DOMAIN Table |-> i], columns |-> Headers] /\ order = Unordered
  BY DEF QueryInit
<1>2. [i \in DOMAIN Table |-> i] \in Seq(DOMAIN Table)
  BY TableAssumption
<1>3. ~Unordered.total
  BY DEF Unordered
<1> QED
  BY <1>1, <1>2, <1>3 DEF QueryInv, RowsInOrder, IsInjective

\* Below a value a sort key comes exactly where the cell compares below it.
LEMMA ComparedAsSorted ==
  ASSUME NEW a \in TableCells, NEW b \in TableCells, IsNumeric(a) <=> IsNumeric(b),
         ~IsNaN(a), ~IsNaN(b)
  PROVE  /\ EvaluateCell(a, "<", b) <=> Before(a, b)
         /\ EvaluateCell(a, ">=", b) <=> ~Before(a, b)
<1>1. /\ \A x, y : Holds("<", x, y) <=> x < y
      /\ \A x, y : Holds(">=", x, y) <=> x >= y
  BY DEF Holds
<1>2. CASE IsNumeric(a) /\ IsNumeric(b)
  <2>1. Number(a) \in Int /\ Number(b) \in Int
    BY <1>2, NumbersRead
  <2>2. Before(a, b) <=> Number(a) < Number(b)
    BY <1>2 DEF Before
  <2>3. EvaluateCell(a, "<", b) <=> Number(a) < Number(b)
    BY <1>1, <1>2 DEF EvaluateCell
  <2>4. EvaluateCell(a, ">=", b) <=> Number(a) >= Number(b)
    BY <1>1, <1>2 DEF EvaluateCell
  <2> QED
    BY <2>1, <2>2, <2>3, <2>4
<1>3. CASE ~IsNumeric(a) /\ ~IsNumeric(b)
  <2>1. a.text \in Int /\ b.text \in Int
    BY NumbersRead
  <2>2. Before(a, b) <=> a.text < b.text
    BY <1>3 DEF Before
  <2>3. EvaluateCell(a, "<", b) <=> a.text < b.text
    BY <1>1, <1>3 DEF EvaluateCell
  <2>4. EvaluateCell(a, ">=", b) <=> a.text >= b.text
    BY <1>1, <1>3 DEF EvaluateCell
  <2> QED
    BY <2>1, <2>2, <2>3, <2>4
<1> QED
  BY <1>2, <1>3

LEMMA FilterCutsOrder ==
  ASSUME QueryInv, order.total, order.ascending, NEW value \in FilterValues,
         Uniform(Of(order.column) \cup {value})
  PROVE  query.rows = Filtered(query.rows, RowsWhere(order.column, "<", value))
                        \o Filtered(query.rows, RowsWhere(order.column, ">=", value))
<1> DEFINE rows == query.rows
           n == Len(rows)
           column == order.column
           cell(i) == Cell(rows[i], column)
           below == {i \in 1..n : Before(cell(i), value)}
           m == IF below = {} THEN 0 ELSE Max(below)
           P == RowsWhere(column, "<", value)
           Q == RowsWhere(column, ">=", value)
<1>0. column \in Headers
  <2>1. ~Unordered.total
    BY DEF Unordered
  <2>2. order # Unordered
    BY <2>1
  <2>3. order \in [column : Headers, ascending : BOOLEAN, total : BOOLEAN]
    BY <2>2 DEF QueryInv
  <2> QED
    BY <2>3
<1>1. rows \in Seq(DOMAIN Table) /\ n \in Nat /\ DOMAIN rows = 1..n /\ column \in Headers /\ value \in TableCells
  BY <1>0, TableAssumption DEF QueryInv
<1>2. \A i \in 1..n : rows[i] \in DOMAIN Table /\ cell(i) \in TableCells
  BY <1>1, CellsRead
<1>3. ~IsNaN(value) /\ \A i \in 1..n : ~IsNaN(cell(i)) /\ (IsNumeric(cell(i)) <=> IsNumeric(value))
  <2>1. \A i \in 1..n : cell(i) \in Of(column)
    BY <1>1 DEF Of
  <2> HIDE DEF cell
  <2> QED
    BY <2>1 DEF Uniform
<1>4. \A i \in 1..n : /\ rows[i] \in P <=> Before(cell(i), value)
                      /\ rows[i] \in Q <=> ~Before(cell(i), value)
  <2> SUFFICES ASSUME NEW i \in 1..n
               PROVE  /\ rows[i] \in P <=> Before(cell(i), value)
                      /\ rows[i] \in Q <=> ~Before(cell(i), value)
    OBVIOUS
  <2>1. rows[i] \in P <=> EvaluateCell(cell(i), "<", value)
    BY <1>2 DEF RowsWhere
  <2>2. rows[i] \in Q <=> EvaluateCell(cell(i), ">=", value)
    BY <1>2 DEF RowsWhere
  <2> HIDE DEF cell, P, Q
  <2> QED
    BY <1>1, <1>2, <1>3, <2>1, <2>2, ComparedAsSorted
<1>5. \A i, j \in 1..n : i < j => ~Before(cell(j), cell(i))
  BY <1>1 DEF QueryInv, RowsInOrder
<1> HIDE DEF cell, P, Q, n, m
<1>6. m \in 0..n /\ \A i \in 1..n : Before(cell(i), value) <=> i <= m
  <2>1. CASE below = {}
    BY <1>1, <2>1 DEF m
  <2>2. CASE below # {}
    <3>1. m \in below /\ \A i \in below : i <= m
      BY <1>1, <2>2, MaxOf DEF m
    <3>2. ASSUME NEW i \in 1..n, i <= m PROVE Before(cell(i), value)
      <4>1. m \in 1..n /\ Before(cell(m), value)
        BY <3>1
      <4>2. CASE i = m
        BY <4>1, <4>2
      <4>3. CASE i < m
        <5>1. ~Before(cell(m), cell(i))
          BY <1>5, <4>1, <4>3
        <5> QED
          BY <1>1, <1>2, <1>3, <4>1, <5>1, BeforeIsOrder
      <4> QED
        BY <1>1, <3>2, <4>1, <4>2, <4>3
    <3>3. m \in 0..n
      BY <1>1, <3>1
    <3> QED
      BY <3>1, <3>2, <3>3
  <2> QED
    BY <2>1, <2>2
<1>7. \A i \in 1..n : (rows[i] \in P <=> i <= m) /\ (rows[i] \in Q <=> i > m)
  BY <1>1, <1>4, <1>6
<1>8. rows = Filtered(rows, P) \o Filtered(rows, Q)
  <2> HIDE DEF rows
  <2> QED
    BY <1>1, <1>6, <1>7, FilteredParts DEF n
<1> QED
  BY <1>8 DEF P, Q

LEMMA QueryAgrees == QueryInv => QueryTypeOK /\ FiltersKeepOrder
  BY FilterCutsOrder DEF QueryInv, QueryTypeOK, FiltersKeepOrder, RowsInOrder

\* Where no cell is a nan, sorting puts each row in its place, rows of equal keys as they stood.
LEMMA SortedInOrder ==
  ASSUME NEW rows \in Seq(DOMAIN Table), IsInjective(rows), NEW column \in Headers, NEW ascending \in BOOLEAN,
         \A i \in DOMAIN rows : ~IsNaN(Cell(rows[i], column))
  PROVE  LET sorted == Sorted(rows, column, ascending) IN
         /\ sorted \in Seq(DOMAIN Table) /\ IsInjective(sorted)
         /\ RowsInOrder(sorted, [column |-> column, ascending |-> ascending, total |-> TRUE])
<1> DEFINE D == DOMAIN rows
           n == Len(rows)
           R == Earliest(rows, column, ascending)
           pos == SortedBy(D, R)
           cell(i) == Cell(rows[i], column)
           comes(i, j) == IF ascending THEN Before(cell(i), cell(j)) ELSE Before(cell(j), cell(i))
           sorted == Sorted(rows, column, ascending)
<1>1. D = 1..n /\ n \in Nat /\ \A i \in D : rows[i] \in DOMAIN Table /\ cell(i) \in TableCells /\ ~IsNaN(cell(i)) /\ i \in Int
  <2>1. D = 1..n /\ n \in Nat /\ \A i \in D : rows[i] \in DOMAIN Table /\ i \in Int
    OBVIOUS
  <2> QED
    BY <2>1, CellsRead
<1>2. IsFiniteSet(D) /\ Cardinality(D) = n
  <2>1. IsFiniteSet(1..n) /\ Cardinality(1..n) = IF 1 > n THEN 0 ELSE n - 1 + 1
    BY <1>1, FS_Interval
  <2> HIDE DEF D, n
  <2> QED
    BY <1>1, <2>1
<1>3. \A i, j \in D : <<i, j>> \in R <=> comes(i, j) \/ (~comes(j, i) /\ i < j)
  <2>1. ASSUME NEW i \in D, NEW j \in D
        PROVE  <<i, j>> \in R <=> comes(i, j) \/ (~comes(j, i) /\ i < j)
    <3>1. CASE ascending
      BY <3>1 DEF Earliest
    <3>2. CASE ~ascending
      BY <3>2 DEF Earliest
    <3> QED
      BY <3>1, <3>2
  <2> HIDE DEF R, D, comes
  <2> QED
    BY <2>1
<1> HIDE DEF R, D, n, cell
<1>4. /\ \A i \in D : ~comes(i, i)
      /\ \A i, j \in D : comes(i, j) => ~comes(j, i)
      /\ \A i, j, k \in D : comes(i, j) /\ ~comes(k, j) => comes(i, k)
      /\ \A i, j, k \in D : ~comes(j, i) /\ comes(j, k) => comes(i, k)
      /\ \A i, j, k \in D : ~comes(j, i) /\ ~comes(k, j) => ~comes(k, i)
  BY <1>1, BeforeIsOrder
<1> HIDE DEF comes
<1>5. StrictOrder(R, D)
  <2>1. \A i \in D : <<i, i>> \notin R
    BY <1>1, <1>3, <1>4
  <2>2. \A i, j, k \in D : <<i, j>> \in R /\ <<j, k>> \in R => <<i, k>> \in R
    <3> SUFFICES ASSUME NEW i \in D, NEW j \in D, NEW k \in D, <<i, j>> \in R, <<j, k>> \in R
                 PROVE  <<i, k>> \in R
      OBVIOUS
    <3>1. ~comes(j, i) /\ ~comes(k, j)
      BY <1>3, <1>4
    <3>2. ~comes(k, i)
      BY <1>4, <3>1
    <3>3. CASE comes(i, j) \/ comes(j, k)
      BY <1>3, <1>4, <3>1, <3>3
    <3>4. CASE ~comes(i, j) /\ ~comes(j, k)
      BY <1>1, <1>3, <3>2, <3>4
    <3> QED
      BY <3>3, <3>4
  <2>3. \A i, j \in D : i = j \/ <<i, j>> \in R \/ <<j, i>> \in R
    <3> SUFFICES ASSUME NEW i \in D, NEW j \in D, i # j PROVE <<i, j>> \in R \/ <<j, i>> \in R
      OBVIOUS
    <3>1. i \in Int /\ j \in Int
      BY <1>1
    <3>2. i < j \/ j < i
      BY <3>1
    <3> QED
      BY <1>3, <3>2
  <2> QED
    BY <2>1, <2>2, <2>3 DEF StrictOrder
<1>6. /\ pos \in [1..n -> D] /\ (\A i, j \in 1..n : <<pos[i], pos[j]>> \in R <=> i < j)
      /\ \A i, j \in 1..n : pos[i] = pos[j] => i = j
  BY <1>2, <1>5, SortedBySorts DEF Sorts
<1>7. sorted = [k \in 1..n |-> rows[pos[k]]]
  BY <1>1 DEF Sorted, R, D
<1> HIDE DEF pos, sorted
<1>8. DOMAIN sorted = 1..n /\ \A k \in 1..n : sorted[k] = rows[pos[k]] /\ pos[k] \in D
  BY <1>6, <1>7
<1>9. sorted \in Seq(DOMAIN Table)
  BY <1>1, <1>6, <1>7
<1>10. IsInjective(sorted)
  BY <1>6, <1>8 DEF IsInjective, D
<1>11. ASSUME NEW i \in 1..n, NEW j \in 1..n, i < j
       PROVE  LET a == Cell(sorted[i], column)    b == Cell(sorted[j], column)
              IN  IF ascending THEN ~Before(b, a) ELSE ~Before(a, b)
  <2>1. <<pos[i], pos[j]>> \in R
    BY <1>6, <1>11
  <2>2. ~comes(pos[j], pos[i])
    BY <1>3, <1>4, <1>8, <2>1
  <2> QED
    BY <1>8, <2>2 DEF comes, cell
<1>12. RowsInOrder(sorted, [column |-> column, ascending |-> ascending, total |-> TRUE])
  BY <1>8, <1>11 DEF RowsInOrder
<1> QED
  BY <1>9, <1>10, <1>12 DEF sorted

\* However rows come out of a sort that met a nan, each is there once.
LEMMA ShuffledRows ==
  ASSUME NEW rows \in Seq(DOMAIN Table), IsInjective(rows), NEW shuffled \in Shuffled(rows)
  PROVE  shuffled \in Seq(DOMAIN Table) /\ IsInjective(shuffled)
<1> DEFINE n == Len(rows)
<1>1. DOMAIN rows = 1..n /\ n \in Nat /\ \A i \in 1..n : rows[i] \in DOMAIN Table
  OBVIOUS
<1>2. PICK places \in [1..n -> 1..n] : IsInjective(places) /\ shuffled = [k \in 1..n |-> rows[places[k]]]
  BY <1>1 DEF Shuffled
<1> HIDE DEF n
<1>3. shuffled \in Seq(DOMAIN Table)
  BY <1>1, <1>2
<1>4. \A i, j \in 1..n : rows[i] = rows[j] => i = j
  BY <1>1 DEF IsInjective
<1>5. \A i, j \in 1..n : places[i] = places[j] => i = j
  BY <1>2 DEF IsInjective
<1>6. DOMAIN shuffled = 1..n /\ \A k \in 1..n : shuffled[k] = rows[places[k]] /\ places[k] \in 1..n
  BY <1>2
<1>7. \A i, j \in 1..n : shuffled[i] = shuffled[j] => i = j
  BY <1>4, <1>5, <1>6
<1> QED
  BY <1>3, <1>6, <1>7 DEF IsInjective

LEMMA QueryMoves == QueryInv /\ [QueryNext]_queryVars => QueryInv'
<1> SUFFICES ASSUME QueryInv, [QueryNext]_queryVars PROVE QueryInv'
  OBVIOUS
<1> DEFINE rows == query.rows
<1>1. /\ query = [rows |-> query.rows, columns |-> query.columns]
      /\ rows \in Seq(DOMAIN Table) /\ query.columns \subseteq Headers
      /\ order = Unordered \/ order \in [column : Headers, ascending : BOOLEAN, total : BOOLEAN]
      /\ IsInjective(rows) /\ RowsInOrder(rows, order)
  BY DEF QueryInv
<1>2. CASE UNCHANGED queryVars
  BY <1>1, <1>2 DEF queryVars, QueryInv, RowsInOrder

\* Whatever takes rows away and leaves the others in their order.
<1>3. ASSUME NEW kept \in Seq(DOMAIN Table), NEW at \in [DOMAIN kept -> DOMAIN rows],
             Climbs(at, Len(kept)), \A k \in DOMAIN kept : kept[k] = rows[at[k]],
             query' = [query EXCEPT !.rows = kept], order' = order
      PROVE  QueryInv'
  <2>1. IsInjective(kept) /\ RowsInOrder(kept, order)
    BY <1>1, <1>3, KeptRowsStay
  <2>2. query' = [rows |-> kept, columns |-> query.columns]
    BY <1>1, <1>3
  <2> QED
    BY <1>1, <1>3, <2>1, <2>2 DEF QueryInv, RowsInOrder
<1>4. ASSUME NEW columns \in SUBSET Headers, Select(columns) PROVE QueryInv'
  <2>1. query' = [rows |-> query.rows, columns |-> columns] /\ order' = order
    BY <1>1, <1>4 DEF Select
  <2> QED
    BY <1>1, <2>1 DEF QueryInv, RowsInOrder
<1>5. ASSUME NEW column \in Headers, NEW op, NEW value, Where(column, op, value) PROVE QueryInv'
  <2> DEFINE kept == Filtered(rows, RowsWhere(column, op, value))
  <2>1. query' = [query EXCEPT !.rows = kept] /\ order' = order
    BY <1>5 DEF Where
  <2>2. IsFiltered(kept, rows, RowsWhere(column, op, value), DOMAIN Table)
    BY <1>1, FilteredKeeps
  <2> HIDE DEF kept, rows
  <2>3. PICK n \in Nat : \E at \in [1..n -> DOMAIN rows] :
           /\ KeptPlaces(at, n, rows, RowsWhere(column, op, value))
           /\ kept = [k \in 1..n |-> rows[at[k]]]
           /\ kept \in Seq(DOMAIN Table) /\ Len(kept) = n /\ DOMAIN kept = 1..n
    BY <2>2 DEF IsFiltered
  <2>4. PICK at \in [1..n -> DOMAIN rows] :
           /\ Climbs(at, n) /\ kept = [k \in 1..n |-> rows[at[k]]]
           /\ kept \in Seq(DOMAIN Table) /\ Len(kept) = n /\ DOMAIN kept = 1..n
    BY <2>3 DEF KeptPlaces
  <2> QED
    BY <1>3, <2>1, <2>4
<1>6. ASSUME NEW m \in DOMAIN Table, Limit(m) PROVE QueryInv'
  <2> DEFINE k == Min({m, Len(rows)})
             kept == SubSeq(rows, 1, k)
  <2>1. query' = [query EXCEPT !.rows = kept] /\ order' = order
    BY <1>6 DEF Limit
  <2>2. m \in Nat /\ Len(rows) \in Nat
    <3>1. DOMAIN Table = 1..Len(Table)
      BY TableAssumption
    <3> QED
      BY <1>1, <3>1
  <2> HIDE DEF rows
  <2>3. k \in 0..Len(rows)
    BY <2>2, MinOfTwo
  <2> HIDE DEF k
  <2>4. /\ kept \in Seq(DOMAIN Table) /\ Len(kept) = k /\ DOMAIN kept = 1..k
        /\ \A i \in 1..k : kept[i] = rows[i]
    <3>1. 1 \in Int /\ k \in Int /\ k >= 0 /\ \A i \in 1..k : rows[i] \in DOMAIN Table
      BY <1>1, <2>2, <2>3
    <3>2. /\ SubSeq(rows, 1, k) \in Seq(DOMAIN Table)
          /\ Len(SubSeq(rows, 1, k)) = IF 1 <= k THEN k - 1 + 1 ELSE 0
          /\ \A i \in 1..(k - 1 + 1) : SubSeq(rows, 1, k)[i] = rows[1 + i - 1]
      BY <1>1, <3>1, SubSeqProperties
    <3> QED
      BY <3>1, <3>2
  <2> HIDE DEF kept
  <2> DEFINE at == [i \in 1..k |-> i]
  <2>5. at \in [DOMAIN kept -> DOMAIN rows] /\ Climbs(at, Len(kept)) /\ \A i \in DOMAIN kept : kept[i] = rows[at[i]]
    <3>1. \A i \in 1..k : i \in DOMAIN rows
      BY <1>1, <2>2, <2>3
    <3> QED
      BY <2>4, <3>1 DEF Climbs
  <2> QED
    BY <1>3, <2>1, <2>4, <2>5
<1>7. ASSUME NEW column \in Headers, NEW ascending \in BOOLEAN, OrderBy(column, ascending) PROVE QueryInv'
  <2> DEFINE o == [column |-> column, ascending |-> ascending, total |-> ~HasNaN(column)]
  <2>1. PICK sorted \in Arrangements(column, ascending) :
           query' = [query EXCEPT !.rows = sorted] /\ order' = o
    BY <1>7 DEF OrderBy
  <2>2. sorted \in Seq(DOMAIN Table) /\ IsInjective(sorted) /\ RowsInOrder(sorted, o)
    <3>1. CASE HasNaN(column)
      <4>1. sorted \in Shuffled(rows)
        BY <2>1, <3>1 DEF Arrangements
      <4>2. sorted \in Seq(DOMAIN Table) /\ IsInjective(sorted)
        BY <1>1, <4>1, ShuffledRows
      <4>3. ~o.total
        BY <3>1
      <4> QED
        BY <4>2, <4>3 DEF RowsInOrder
    <3>2. CASE ~HasNaN(column)
      <4>1. sorted = Sorted(rows, column, ascending)
        BY <2>1, <3>2 DEF Arrangements
      <4>2. o = [column |-> column, ascending |-> ascending, total |-> TRUE]
        BY <3>2
      <4>3. \A i \in DOMAIN rows : ~IsNaN(Cell(rows[i], column))
        BY <3>2 DEF HasNaN
      <4> HIDE DEF o, rows
      <4> QED
        BY <1>1, <4>1, <4>2, <4>3, SortedInOrder
    <3> QED
      BY <3>1, <3>2
  <2>3. o \in [column : Headers, ascending : BOOLEAN, total : BOOLEAN]
    <3>1. \A t \in BOOLEAN : [column |-> column, ascending |-> ascending, total |-> t] \in [column : Headers, ascending : BOOLEAN, total : BOOLEAN]
      OBVIOUS
    <3>2. CASE HasNaN(column)
      <4>1. o = [column |-> column, ascending |-> ascending, total |-> FALSE]
        BY <3>2
      <4> QED
        BY <3>1, <4>1
    <3>3. CASE ~HasNaN(column)
      <4>1. o = [column |-> column, ascending |-> ascending, total |-> TRUE]
        BY <3>3
      <4> QED
        BY <3>1, <4>1
    <3> QED
      BY <3>2, <3>3
  <2> HIDE DEF o
  <2>4. query' = [rows |-> sorted, columns |-> query.columns]
    BY <1>1, <2>1
  <2> QED
    BY <1>1, <2>1, <2>2, <2>3, <2>4 DEF QueryInv, RowsInOrder
<1> QED
  BY <1>2, <1>4, <1>5, <1>6, <1>7 DEF QueryNext

\* For every table, cells that read as nan included, each row is there once, and
\* unless the last order_by met a nan, filters, limits and selections keep the
\* rows in the order it gave them and where cuts it as order_by made it
\* (query.py:7-36, 50-70).
THEOREM FiltersStayInOrder == QuerySpec => [](QueryTypeOK /\ FiltersKeepOrder)
<1> QED
  BY QueryAgrees, QueryStarts, QueryMoves, PTL DEF QuerySpec

-----------------------------------------------------------------------------
\* A walker in a maze.

Nbrs(c) == ToSet(CardinalNeighbors(c))

OpenCells(m) == MazeCells \ m.walls

Spread(m, X) == {c \in OpenCells(m) : c \in X \/ Nbrs(c) \cap X # {}}

\* W is the cells within so many steps of the start of a maze.
IsWithin(W, m) ==
    W \in [Nat -> SUBSET MazeCells] /\ W[0] = {m.start} /\ \A n \in Nat : W[n + 1] = Spread(m, W[n])

LEMMA CellsCounted ==
  /\ IsFiniteSet(MazeCells) /\ Cardinality(MazeCells) = Unreached /\ Unreached \in Nat
  /\ \A c \in MazeCells : c = <<c[1], c[2]>> /\ c[1] \in Int /\ c[2] \in Int
<1>1. 0 \in Int /\ Rows - 1 \in Int /\ Cols - 1 \in Int /\ Rows \in Nat /\ Cols \in Nat
  BY MazeAssumption
<1>2. /\ IsFiniteSet(0..(Rows - 1)) /\ Cardinality(0..(Rows - 1)) = Rows
      /\ IsFiniteSet(0..(Cols - 1)) /\ Cardinality(0..(Cols - 1)) = Cols
  <2>1. \A n \in Nat : IsFiniteSet(0..(n - 1)) /\ Cardinality(0..(n - 1)) = n
    <3> SUFFICES ASSUME NEW n \in Nat PROVE IsFiniteSet(0..(n - 1)) /\ Cardinality(0..(n - 1)) = n
      OBVIOUS
    <3>1. n - 1 \in Int /\ 0 \in Int
      OBVIOUS
    <3>2. IsFiniteSet(0..(n - 1)) /\ Cardinality(0..(n - 1)) = IF 0 > n - 1 THEN 0 ELSE (n - 1) - 0 + 1
      BY <3>1, FS_Interval
    <3> QED
      BY <3>2
  <2> QED
    BY <1>1, <2>1
<1>3. IsFiniteSet(MazeCells) /\ Cardinality(MazeCells) = Rows * Cols
  <2> DEFINE S == 0..(Rows - 1)
             T == 0..(Cols - 1)
  <2> HIDE DEF S, T
  <2>1. IsFiniteSet(S \X T) /\ Cardinality(S \X T) = Cardinality(S) * Cardinality(T)
    BY <1>2, FS_Product DEF S, T
  <2> QED
    BY <1>2, <2>1 DEF MazeCells, S, T
<1>4. Rows * Cols \in Nat
  BY <1>1
<1>5. \A c \in MazeCells : c = <<c[1], c[2]>> /\ c[1] \in Int /\ c[2] \in Int
  BY <1>1 DEF MazeCells
<1> QED
  BY <1>3, <1>4, <1>5 DEF Unreached

LEMMA NeighborsAre ==
  \A c : Nbrs(c) = {<<c[1] - 1, c[2]>>, <<c[1] + 1, c[2]>>, <<c[1], c[2] - 1>>, <<c[1], c[2] + 1>>}
<1> SUFFICES ASSUME NEW c
             PROVE  Nbrs(c) = {<<c[1] - 1, c[2]>>, <<c[1] + 1, c[2]>>, <<c[1], c[2] - 1>>, <<c[1], c[2] + 1>>}
  OBVIOUS
<1> DEFINE s == CardinalNeighbors(c)
<1>1. /\ DOMAIN s = 1..4 /\ s[1] = <<c[1] - 1, c[2]>> /\ s[2] = <<c[1] + 1, c[2]>>
      /\ s[3] = <<c[1], c[2] - 1>> /\ s[4] = <<c[1], c[2] + 1>>
  BY DEF CardinalNeighbors
<1>2. \A i : i \in 1..4 <=> i = 1 \/ i = 2 \/ i = 3 \/ i = 4
  OBVIOUS
<1> HIDE DEF s
<1>3. ToSet(s) = {s[1], s[2], s[3], s[4]}
  BY <1>1, <1>2 DEF ToSet
<1> QED
  BY <1>1, <1>3 DEF Nbrs, s

\* Who is next to whom is next to him.
LEMMA NeighborsBack ==
  ASSUME NEW c \in MazeCells, NEW e \in MazeCells, e \in Nbrs(c)
  PROVE  c \in Nbrs(e)
<1>1. /\ c = <<c[1], c[2]>> /\ c[1] \in Int /\ c[2] \in Int
      /\ e = <<e[1], e[2]>> /\ e[1] \in Int /\ e[2] \in Int
  BY CellsCounted
<1>2. PICK a \in Int, b \in Int : c = <<a, b>>
  BY <1>1
<1>3. PICK x \in Int, y \in Int : e = <<x, y>>
  BY <1>1
<1>4. (x = a - 1 /\ y = b) \/ (x = a + 1 /\ y = b) \/ (x = a /\ y = b - 1) \/ (x = a /\ y = b + 1)
  BY <1>2, <1>3, NeighborsAre
<1>5. c \in {<<x - 1, y>>, <<x + 1, y>>, <<x, y - 1>>, <<x, y + 1>>}
  BY <1>2, <1>4
<1> QED
  BY <1>3, <1>5, NeighborsAre

LEMMA WithinIsWithin ==
  ASSUME maze \in Mazes
  PROVE  IsWithin(Within, maze)
<1> DEFINE S == SUBSET MazeCells
           step == [X \in S |-> Spread(maze, X)]
           Loop(f) == [n \in Nat |-> IF n = 0 THEN {maze.start}
                                     ELSE {c \in MazeCells : IsWalkable(c) /\
                                             (c \in f[n - 1] \/ ToSet(CardinalNeighbors(c)) \cap f[n - 1] # {})}]
<1>1. {maze.start} \in S
  BY MazeAssumption
<1>2. \A X : Spread(maze, X) \in S
  BY DEF Spread, OpenCells
<1>3. step \in [S -> S]
  BY <1>2
<1>4. PICK f \in [Nat -> S] : Steps(f, {maze.start}, step)
  <2> HIDE DEF S, step
  <2> QED
    BY <1>1, <1>3, StepsExist
<1>5. \A X : Spread(maze, X) = {c \in MazeCells : IsWalkable(c) /\
                                  (c \in X \/ ToSet(CardinalNeighbors(c)) \cap X # {})}
  BY DEF Spread, OpenCells, IsWalkable, Nbrs
<1>6. \A g : Loop(g) = [n \in Nat |-> IF n = 0 THEN {maze.start} ELSE Spread(maze, g[n - 1])]
  BY <1>5
<1>7. Within = CHOOSE g : g = Loop(g)
  BY DEF Within
<1> HIDE DEF Loop, S
<1>8. f = Loop(f)
  <2>1. ASSUME NEW n \in Nat PROVE f[n] = IF n = 0 THEN {maze.start} ELSE Spread(maze, f[n - 1])
    <3>1. CASE n = 0
      BY <1>4, <3>1 DEF Steps
    <3>2. CASE n # 0
      <4>1. n - 1 \in Nat /\ (n - 1) + 1 = n
        BY <3>2
      <4>2. f[(n - 1) + 1] = step[f[n - 1]] /\ f[n - 1] \in S
        BY <1>4, <4>1 DEF Steps
      <4> QED
        BY <3>2, <4>1, <4>2
    <3> QED
      BY <3>1, <3>2
  <2>2. f = [n \in Nat |-> f[n]]
    BY <1>4
  <2> QED
    BY <1>6, <2>1, <2>2
<1>9. Within = Loop(Within)
  BY <1>7, <1>8
<1>10. Within = [n \in Nat |-> IF n = 0 THEN {maze.start} ELSE Spread(maze, Within[n - 1])]
  BY <1>6, <1>9
<1>11. \A n \in Nat : Within[n] = IF n = 0 THEN {maze.start} ELSE Spread(maze, Within[n - 1])
  BY <1>10
<1>12. \A n \in Nat : Within[n] \in SUBSET MazeCells
  BY <1>1, <1>2, <1>11 DEF S
<1>13. Within \in [Nat -> SUBSET MazeCells]
  BY <1>10, <1>12
<1>14. \A n \in Nat : Within[n + 1] = Spread(maze, Within[n])
  <2> SUFFICES ASSUME NEW n \in Nat PROVE Within[n + 1] = Spread(maze, Within[n])
    OBVIOUS
  <2>1. n + 1 \in Nat /\ n + 1 # 0 /\ (n + 1) - 1 = n
    OBVIOUS
  <2> QED
    BY <1>11, <2>1
<1> QED
  BY <1>11, <1>13, <1>14 DEF IsWithin

LEMMA WithinGrows ==
  ASSUME NEW m \in Mazes, NEW W, IsWithin(W, m)
  PROVE  /\ \A n \in Nat : W[n] \subseteq OpenCells(m)
         /\ \A j, k \in Nat : j <= k => W[j] \subseteq W[k]
<1>1. m.start \in OpenCells(m)
  BY MazeAssumption DEF OpenCells
<1>2. \A n \in Nat : W[n] \subseteq OpenCells(m)
  <2> DEFINE T == {n \in Nat : W[n] \subseteq OpenCells(m)}
  <2>1. 0 \in T
    BY <1>1 DEF IsWithin
  <2>2. \A n \in Nat : n \in T => n + 1 \in T
    BY DEF IsWithin, Spread
  <2> HIDE DEF T
  <2>3. \A n \in Nat : n \in T
    BY <2>1, <2>2, NumberInduction
  <2> QED
    BY <2>3 DEF T
<1>3. \A n \in Nat : W[n] \subseteq W[n + 1]
  BY <1>2 DEF IsWithin, Spread
<1>4. ASSUME NEW j \in Nat PROVE \A k \in Nat : j <= k => W[j] \subseteq W[k]
  <2> DEFINE T == {k \in Nat : j <= k => W[j] \subseteq W[k]}
  <2>1. 0 \in T
    OBVIOUS
  <2>2. ASSUME NEW n \in Nat, n \in T PROVE n + 1 \in T
    <3> SUFFICES ASSUME j <= n + 1 PROVE W[j] \subseteq W[n + 1]
      OBVIOUS
    <3>1. CASE j = n + 1
      BY <3>1
    <3>2. CASE j <= n
      BY <1>3, <2>2, <3>2
    <3> QED
      BY <3>1, <3>2
  <2> HIDE DEF T
  <2>3. \A n \in Nat : n \in T
    BY <2>1, <2>2, NumberInduction
  <2> QED
    BY <2>3 DEF T
<1> QED
  BY <1>2, <1>4

-----------------------------------------------------------------------------
\* d is how far the cells visited are from the start.
Searched(d, W, w, m) ==
    /\ d \in [w.visited -> Nat]
    /\ m.start \in w.visited /\ d[m.start] = 0
    /\ \A c \in w.visited : c \in W[d[c]] /\ \A k \in Nat : k < d[c] => c \notin W[k]
    /\ w.queue \in Seq(w.visited)
    /\ \A i, j \in DOMAIN w.queue : i < j => d[w.queue[i]] <= d[w.queue[j]] /\ d[w.queue[j]] <= d[w.queue[i]] + 1
    /\ DOMAIN w.cameFrom = w.visited \ {m.start}
    /\ \A c \in DOMAIN w.cameFrom :
          w.cameFrom[c] \in w.visited /\ d[c] = d[w.cameFrom[c]] + 1 /\ c \in Nbrs(w.cameFrom[c])

\* Whoever is off the queue has been looked around from; the end is not.
Waiting(w, m) ==
    /\ \A c \in w.visited : c \notin ToSet(w.queue) => \A e \in Nbrs(c) \cap OpenCells(m) : e \in w.visited
    /\ m.end \in w.visited => m.end \in ToSet(w.queue)
    /\ w.path = <<>>

Arrived(d, W, w, m) ==
    \/ (\A n \in Nat : m.end \notin W[n]) /\ w.path = <<>>
    \/ /\ m.end \in w.visited /\ Len(w.path) = d[m.end] + 1
       /\ w.path[1] = m.start /\ Last(w.path) = m.end
       /\ \A i \in 2..Len(w.path) : w.path[i] \in Nbrs(w.path[i - 1])

IsWalker(w) ==
    /\ w = [state |-> w.state, visited |-> w.visited, queue |-> w.queue, cameFrom |-> w.cameFrom, path |-> w.path]
    /\ w.state \in {"idle", "searching", "done"} /\ w.visited \subseteq MazeCells /\ w.path \in Seq(MazeCells)
    /\ w.cameFrom = [c \in DOMAIN w.cameFrom |-> w.cameFrom[c]]

SearchSound(w, m) ==
    \A W : IsWithin(W, m) => \E d : /\ Searched(d, W, w, m)
                                    /\ w.state = "searching" => Waiting(w, m)
                                    /\ w.state = "done" => Arrived(d, W, w, m)

MazeInv ==
    /\ maze \in Mazes /\ IsWalker(walker)
    /\ walker.state = "idle" => walker.visited = {} /\ walker.queue = <<>> /\ walker.cameFrom = <<>>
    /\ walker.state # "idle" => SearchSound(walker, maze)

\* What is no farther than all that wait has been visited.
LEMMA NearerVisited ==
  ASSUME NEW m \in Mazes, NEW W, IsWithin(W, m), NEW w, NEW d, Searched(d, W, w, m), Waiting(w, m),
         NEW n \in Nat, \A i \in DOMAIN w.queue : n <= d[w.queue[i]]
  PROVE  W[n] \subseteq w.visited
<1> DEFINE T == {k \in Nat : k <= n => W[k] \subseteq w.visited}
<1>1. 0 \in T
  BY DEF IsWithin, Searched
<1>2. ASSUME NEW k \in Nat, k \in T PROVE k + 1 \in T
  <2> SUFFICES ASSUME k + 1 <= n, NEW e \in W[k + 1] PROVE e \in w.visited
    OBVIOUS
  <2>1. W[k] \subseteq w.visited
    BY <1>2
  <2>2. e \in OpenCells(m) /\ (e \in W[k] \/ Nbrs(e) \cap W[k] # {})
    BY DEF IsWithin, Spread
  <2>3. CASE e \in W[k]
    BY <2>1, <2>3
  <2>4. CASE Nbrs(e) \cap W[k] # {}
    <3>1. PICK c \in Nbrs(e) : c \in W[k]
      BY <2>4
    <3>2. c \in w.visited /\ c \in MazeCells /\ e \in MazeCells
      BY <2>1, <2>2, <3>1 DEF IsWithin, OpenCells
    <3>3. d[c] <= k /\ d[c] \in Nat
      <4>1. d[c] \in Nat /\ ~(k < d[c])
        BY <3>1, <3>2 DEF Searched
      <4> QED
        BY <4>1
    <3>4. c \notin ToSet(w.queue)
      <4> SUFFICES ASSUME NEW i \in DOMAIN w.queue, w.queue[i] = c PROVE FALSE
        BY DEF ToSet
      <4>1. n <= d[c]
        OBVIOUS
      <4> QED
        BY <3>3, <4>1
    <3>5. e \in Nbrs(c)
      BY <3>1, <3>2, NeighborsBack
    <3> QED
      BY <2>2, <3>2, <3>4, <3>5 DEF Waiting
  <2> QED
    BY <2>2, <2>3, <2>4
<1> HIDE DEF T
<1>3. \A k \in Nat : k \in T
  BY <1>1, <1>2, NumberInduction
<1> QED
  BY <1>3 DEF T

\* No way is longer than there are cells.
LEMMA NotTooFar ==
  ASSUME NEW m \in Mazes, NEW W, NEW w, NEW d, Searched(d, W, w, m), w.visited \subseteq MazeCells,
         NEW c \in w.visited
  PROVE  d[c] <= Unreached
<1> DEFINE V == w.visited
           far == d[c]
           T == {k \in Nat : k <= far => \E x \in V : d[x] = far - k}
           Image == {d[x] : x \in V}
<1>0. d \in [V -> Nat] /\ far \in Nat
  BY DEF Searched
<1>1. 0 \in T
  BY <1>0
<1>2. ASSUME NEW k \in Nat, k \in T PROVE k + 1 \in T
  <2> SUFFICES ASSUME k + 1 <= far PROVE \E x \in V : d[x] = far - (k + 1)
    OBVIOUS
  <2>1. PICK x \in V : d[x] = far - k
    BY <1>0, <1>2
  <2>2. x # m.start
    BY <1>0, <2>1 DEF Searched
  <2>3. w.cameFrom[x] \in V /\ d[x] = d[w.cameFrom[x]] + 1
    BY <2>2 DEF Searched
  <2>4. d[w.cameFrom[x]] \in Nat
    BY <1>0, <2>3
  <2>5. d[w.cameFrom[x]] = far - (k + 1)
    BY <1>0, <2>1, <2>3, <2>4
  <2> QED
    BY <2>3, <2>5
<1> HIDE DEF T
<1>3. \A k \in Nat : k \in T
  BY <1>1, <1>2, NumberInduction
<1>4. 0..far \subseteq Image
  <2> SUFFICES ASSUME NEW k \in 0..far PROVE \E x \in V : d[x] = k
    OBVIOUS
  <2>1. far - k \in T /\ far - k \in Nat /\ far - k <= far /\ far - (far - k) = k
    BY <1>0, <1>3
  <2> QED
    BY <2>1 DEF T
<1>5. IsFiniteSet(V) /\ Cardinality(V) <= Unreached
  BY CellsCounted, FS_Subset
<1>6. IsFiniteSet(Image) /\ Cardinality(Image) <= Cardinality(V)
  <2>1. d \in Surjection(V, Image)
    <3>1. d \in [V -> Image]
      BY <1>0
    <3>2. \A y \in Image : \E x \in V : d[x] = y
      OBVIOUS
    <3> HIDE DEF Image, V
    <3> QED
      BY <3>1, <3>2 DEF Surjection
  <2> HIDE DEF Image, V
  <2> QED
    BY <1>5, <2>1, FS_Surjection
<1>7. Cardinality(0..far) = far + 1 /\ Cardinality(0..far) <= Cardinality(Image)
  <2>1. Cardinality(0..far) = IF 0 > far THEN 0 ELSE far - 0 + 1
    BY <1>0, FS_Interval
  <2>2. Cardinality(0..far) <= Cardinality(Image)
    <3> HIDE DEF Image, far
    <3> QED
      BY <1>4, <1>6, FS_Subset
  <2> QED
    BY <1>0, <2>1, <2>2
<1>8. Cardinality(V) \in Nat /\ Cardinality(Image) \in Nat /\ Unreached \in Nat
  BY <1>5, <1>6, FS_CardinalityType, CellsCounted
<1> HIDE DEF far, V, Image
<1>9. far <= Unreached
  BY <1>0, <1>5, <1>6, <1>7, <1>8
<1> QED
  BY <1>9 DEF far

LEMMA DistanceIs ==
  ASSUME NEW W, IsWithin(W, maze), W = Within, NEW d, Searched(d, W, walker, maze), maze \in Mazes,
         walker.visited \subseteq MazeCells, NEW c \in walker.visited
  PROVE  Distance(c) = d[c]
<1> DEFINE far == d[c]
           S == {n \in 0..Unreached : c \in W[n] \/ n = Unreached}
<1>1. far \in Nat /\ far <= Unreached /\ Unreached \in Nat
  BY NotTooFar, CellsCounted DEF Searched
<1>2. c \in W[far] /\ \A k \in Nat : k < far => c \notin W[k]
  BY DEF Searched
<1> HIDE DEF far
<1>3. far \in S /\ \A k \in S : far <= k
  BY <1>1, <1>2
<1>4. S \in SUBSET Nat
  OBVIOUS
<1>5. Min(S) \in S /\ Min(S) \in Nat /\ \A k \in S : Min(S) <= k
  <2> HIDE DEF S
  <2>1. Min(S) \in S /\ \A k \in S : Min(S) <= k
    BY <1>3, <1>4, MinOf
  <2> QED
    BY <1>4, <2>1
<1> HIDE DEF S
<1>6. Min(S) = far
  BY <1>1, <1>3, <1>5
<1> QED
  BY <1>6 DEF Distance, S, far

LEMMA MazeAgrees == MazeInv => MazeTypeOK /\ ShortestFound
<1> SUFFICES ASSUME MazeInv PROVE MazeTypeOK /\ ShortestFound
  OBVIOUS
<1>1. maze \in Mazes /\ IsWalker(walker) /\ walker.visited \subseteq MazeCells
  BY DEF MazeInv, IsWalker
<1>2. CASE walker.state = "idle"
  <2>1. walker.visited = {} /\ walker.queue = <<>> /\ walker.cameFrom = <<>>
    BY <1>2 DEF MazeInv
  <2>2. MazeTypeOK
    <3>1. walker.cameFrom \in [DOMAIN walker.cameFrom -> walker.visited]
      BY <2>1
    <3> QED
      BY <1>1, <2>1, <3>1 DEF MazeTypeOK, IsWalker
  <2>3. ShortestFound
    <3>1. DOMAIN walker.queue = {} /\ DOMAIN walker.cameFrom = {}
      BY <2>1
    <3> QED
      BY <1>2, <2>1, <3>1 DEF ShortestFound
  <2> QED
    BY <2>2, <2>3
<1>3. CASE walker.state # "idle"
  <2>1. PICK W : W = Within
    OBVIOUS
  <2>2. IsWithin(W, maze)
    BY <1>1, <2>1, WithinIsWithin
  <2>3. PICK d : /\ Searched(d, W, walker, maze)
                 /\ walker.state = "searching" => Waiting(walker, maze)
                 /\ walker.state = "done" => Arrived(d, W, walker, maze)
    BY <1>3, <2>2 DEF MazeInv, SearchSound
  <2>4. \A c \in walker.visited : Distance(c) = d[c] /\ d[c] \in Nat
    <3>1. \A c \in walker.visited : Distance(c) = d[c]
      BY <1>1, <2>1, <2>2, <2>3, DistanceIs
    <3> QED
      BY <2>3, <3>1 DEF Searched
  <2>5. walker.queue \in Seq(walker.visited) /\ \A i \in DOMAIN walker.queue : walker.queue[i] \in walker.visited
    BY <2>3 DEF Searched
  <2>6. MazeTypeOK
    <3>1. walker.cameFrom \in [DOMAIN walker.cameFrom -> walker.visited]
      <4>1. walker.cameFrom = [c \in DOMAIN walker.cameFrom |-> walker.cameFrom[c]]
        BY <1>1 DEF IsWalker
      <4>2. \A c \in DOMAIN walker.cameFrom : walker.cameFrom[c] \in walker.visited
        BY <2>3 DEF Searched
      <4> QED
        BY <4>1, <4>2, Zenon
    <3>2. walker.queue \in Seq(MazeCells)
      BY <1>1, <2>5
    <3> QED
      BY <1>1, <3>1, <3>2 DEF MazeTypeOK, IsWalker
  <2>7. \A i, j \in DOMAIN walker.queue :
           LET a == Distance(walker.queue[i])    b == Distance(walker.queue[j])
           IN  i < j => a <= b /\ b <= a + 1
    BY <2>3, <2>4, <2>5 DEF Searched
  <2>8. walker.state = "searching" /\ walker.queue # <<>> =>
           Within[Distance(Head(walker.queue))] \subseteq walker.visited
    <3> SUFFICES ASSUME walker.state = "searching", walker.queue # <<>>
                 PROVE  W[Distance(Head(walker.queue))] \subseteq walker.visited
      BY <2>1
    <3> DEFINE q == walker.queue
    <3>1. 1 \in DOMAIN q /\ Head(q) = q[1] /\ q[1] \in walker.visited /\ \A i \in DOMAIN q : i = 1 \/ 1 < i
      BY <2>5
    <3> DEFINE n == d[q[1]]
    <3>2. n \in Nat /\ Distance(Head(q)) = n
      BY <2>4, <3>1
    <3>3. \A i \in DOMAIN q : n <= d[q[i]]
      BY <2>3, <3>1, <3>2 DEF Searched
    <3>4. W[n] \subseteq walker.visited
      <4> HIDE DEF n
      <4> QED
        BY <1>1, <2>2, <2>3, <3>2, <3>3, NearerVisited
    <3> QED
      BY <3>2, <3>4
  <2>9. \A c \in DOMAIN walker.cameFrom : Distance(c) = Distance(walker.cameFrom[c]) + 1
    <3> SUFFICES ASSUME NEW c \in DOMAIN walker.cameFrom
                 PROVE  Distance(c) = Distance(walker.cameFrom[c]) + 1
      OBVIOUS
    <3>1. c \in walker.visited /\ walker.cameFrom[c] \in walker.visited /\ d[c] = d[walker.cameFrom[c]] + 1
      BY <2>3 DEF Searched
    <3> QED
      BY <2>4, <3>1
  <2>10. walker.state = "done" =>
            IF maze.end \notin Within[Unreached] THEN walker.path = <<>>
            ELSE /\ Len(walker.path) = Distance(maze.end) + 1
                 /\ walker.path[1] = maze.start /\ Last(walker.path) = maze.end
                 /\ \A i \in 2..Len(walker.path) :
                       walker.path[i] \in ToSet(CardinalNeighbors(walker.path[i - 1]))
    <3> SUFFICES ASSUME walker.state = "done"
                 PROVE  IF maze.end \notin W[Unreached] THEN walker.path = <<>>
                        ELSE /\ Len(walker.path) = Distance(maze.end) + 1
                             /\ walker.path[1] = maze.start /\ Last(walker.path) = maze.end
                             /\ \A i \in 2..Len(walker.path) :
                                   walker.path[i] \in ToSet(CardinalNeighbors(walker.path[i - 1]))
      BY <2>1
    <3>0. Unreached \in Nat
      BY CellsCounted
    <3>1. CASE (\A n \in Nat : maze.end \notin W[n]) /\ walker.path = <<>>
      BY <3>0, <3>1
    <3>2. CASE /\ maze.end \in walker.visited /\ Len(walker.path) = d[maze.end] + 1
               /\ walker.path[1] = maze.start /\ Last(walker.path) = maze.end
               /\ \A i \in 2..Len(walker.path) : walker.path[i] \in Nbrs(walker.path[i - 1])
      <4>1. maze.end \in W[d[maze.end]] /\ d[maze.end] <= Unreached /\ d[maze.end] \in Nat
        BY <1>1, <2>3, <2>4, <3>2, NotTooFar DEF Searched
      <4>2. maze.end \in W[Unreached]
        BY <1>1, <2>2, <3>0, <4>1, WithinGrows
      <4> QED
        BY <2>4, <3>2, <4>2 DEF Nbrs
    <3> QED
      BY <2>3, <3>1, <3>2 DEF Arrived
  <2> QED
    BY <2>6, <2>7, <2>8, <2>9, <2>10 DEF ShortestFound
<1> QED
  BY <1>2, <1>3

LEMMA MazeStarts == MazeInit => MazeInv
  BY DEF MazeInit, MazeInv, IsWalker, SearchSound

LEMMA FoundAre ==
  ASSUME NEW current \in MazeCells
  PROVE  LET found == {e \in Nbrs(current) \cap OpenCells(maze) : e \notin walker.visited} IN
         ToSet(FoundFrom(current)) = found /\ FoundFrom(current) \in Seq(found)
<1> DEFINE s == CardinalNeighbors(current)
           P == {c \in MazeCells : IsWalkable(c)} \ walker.visited
           found == {e \in Nbrs(current) \cap OpenCells(maze) : e \notin walker.visited}
<1>1. s \in Seq({s[1], s[2], s[3], s[4]})
  BY DEF CardinalNeighbors
<1>2. ToSet(s) \cap P = found
  BY DEF Nbrs, OpenCells, IsWalkable
<1> HIDE DEF s, P, found
<1>3. ToSet(Filtered(s, P)) = ToSet(s) \cap P /\ Filtered(s, P) \in Seq(ToSet(s) \cap P)
  BY <1>1, FilteredSet
<1> QED
  BY <1>2, <1>3 DEF FoundFrom, s, P, found

\* What holds of the walker and the maze after a step is the invariant then.
LEMMA InvAfter ==
  ASSUME maze' \in Mazes, IsWalker(walker'), walker'.state # "idle", SearchSound(walker', maze')
  PROVE  MazeInv'
<1>1. IsWalker(walker)' <=> IsWalker(walker')
  BY DEF IsWalker
<1>2. \A d, W : Searched(d, W, walker, maze)' <=> Searched(d, W, walker', maze')
  BY DEF Searched
<1>3. Waiting(walker, maze)' <=> Waiting(walker', maze')
  BY DEF Waiting, OpenCells
<1>4. \A d, W : Arrived(d, W, walker, maze)' <=> Arrived(d, W, walker', maze')
  BY DEF Arrived
<1>5. \A W : IsWithin(W, maze)' <=> IsWithin(W, maze')
  BY DEF IsWithin, Spread, OpenCells
<1>6. SearchSound(walker, maze)'
  BY <1>2, <1>3, <1>4, <1>5 DEF SearchSound
<1> QED
  BY <1>1, <1>6 DEF MazeInv

LEMMA SearchBegins ==
  ASSUME MazeInv, FindPath, maze' = maze
  PROVE  MazeInv'
<1>1. walker' = [state |-> "searching", visited |-> {maze.start}, queue |-> <<maze.start>>,
                 cameFrom |-> <<>>, path |-> <<>>]
  BY DEF FindPath
<1>2. maze \in Mazes /\ maze.start \in MazeCells
  BY MazeAssumption DEF MazeInv
<1>3. /\ walker'.state = "searching" /\ walker'.visited = {maze.start} /\ walker'.queue = <<maze.start>>
      /\ walker'.cameFrom = <<>> /\ walker'.path = <<>> /\ DOMAIN walker'.cameFrom = {}
      /\ DOMAIN walker'.queue = 1..1 /\ walker'.queue[1] = maze.start
  BY <1>1
<1>4. IsWalker(walker')
  BY <1>1, <1>2, <1>3 DEF IsWalker
<1>5. ASSUME NEW W, IsWithin(W, maze)
      PROVE  \E d : Searched(d, W, walker', maze) /\ Waiting(walker', maze)
  <2> DEFINE d == [c \in {maze.start} |-> 0]
  <2>1. Searched(d, W, walker', maze)
    BY <1>3, <1>5 DEF Searched, IsWithin
  <2>2. Waiting(walker', maze)
    BY <1>3 DEF Waiting, ToSet
  <2> QED
    BY <2>1, <2>2
<1>6. SearchSound(walker', maze)
  BY <1>3, <1>5 DEF SearchSound
<1> QED
  BY <1>2, <1>3, <1>4, <1>6, InvAfter

LEMMA WalkerExplores ==
  ASSUME MazeInv, Explore, maze' = maze
  PROVE  MazeInv'
<1> DEFINE V == walker.visited
           q == walker.queue
           current == Head(q)
           found == FoundFrom(current)
           F == {e \in Nbrs(current) \cap OpenCells(maze) : e \notin V}
           from == [c \in DOMAIN walker.cameFrom \cup ToSet(found) |->
                      IF c \in ToSet(found) THEN current ELSE walker.cameFrom[c]]
<1>1. /\ maze \in Mazes /\ IsWalker(walker) /\ walker.state = "searching" /\ SearchSound(walker, maze)
      /\ q # <<>> /\ current # maze.end
  BY DEF MazeInv, Explore
<1>2. walker' = [state |-> "searching", visited |-> V \cup ToSet(found), queue |-> Tail(q) \o found,
                 cameFrom |-> from, path |-> walker.path]
  BY <1>1 DEF Explore, IsWalker
<1>3. /\ walker'.state = "searching" /\ walker'.visited = V \cup ToSet(found) /\ walker'.queue = Tail(q) \o found
      /\ walker'.cameFrom = from /\ walker'.path = walker.path
  <2> HIDE DEF V, q, current, found, from
  <2> QED
    BY <1>2
<1>4. V \subseteq MazeCells /\ walker.path \in Seq(MazeCells)
  BY <1>1 DEF IsWalker
<1>5. ASSUME NEW W, IsWithin(W, maze)
      PROVE  \E d : Searched(d, W, walker, maze) /\ Waiting(walker, maze)
  BY <1>1, <1>5 DEF SearchSound
<1>6. q \in Seq(V)
  <2>1. \E W : IsWithin(W, maze)
    BY <1>1, WithinIsWithin
  <2> QED
    BY <1>5, <2>1 DEF Searched
<1>7. /\ current \in V /\ current = q[1] /\ 1 \in DOMAIN q /\ DOMAIN q = 1..Len(q) /\ Len(q) \in Nat \ {0}
      /\ Tail(q) \in Seq(V) /\ Len(Tail(q)) = Len(q) - 1
      /\ \A i \in 1..(Len(q) - 1) : Tail(q)[i] = q[i + 1] /\ i + 1 \in DOMAIN q
  BY <1>1, <1>6, HeadAndTail
<1>8. ToSet(found) = F /\ found \in Seq(F)
  BY <1>4, <1>7, FoundAre
<1>9. F \subseteq MazeCells /\ F \cap V = {}
  BY DEF OpenCells
<1>10. IsWalker(walker')
  <2>1. from = [c \in DOMAIN from |-> from[c]]
    OBVIOUS
  <2> HIDE DEF V, q, current, found, from, F
  <2> QED
    BY <1>2, <1>3, <1>4, <1>8, <1>9, <2>1 DEF IsWalker
<1>11. /\ DOMAIN from = DOMAIN walker.cameFrom \cup F
       /\ \A c \in F : from[c] = current
       /\ \A c \in DOMAIN walker.cameFrom \ F : from[c] = walker.cameFrom[c]
  BY <1>8
<1> HIDE DEF found, from
<1> DEFINE next == Tail(q) \o found
           rest == Len(q) - 1
<1>12. /\ next \in Seq(V \cup F) /\ rest \in Nat /\ Len(next) = rest + Len(found) /\ Len(found) \in Nat
       /\ DOMAIN next = 1..Len(next) /\ DOMAIN found = 1..Len(found)
       /\ \A i \in 1..rest : next[i] = q[i + 1] /\ i + 1 \in DOMAIN q
       /\ \A i \in DOMAIN next : rest < i => i - rest \in DOMAIN found /\ next[i] = found[i - rest]
       /\ \A i \in DOMAIN found : next[rest + i] = found[i] /\ rest + i \in DOMAIN next
  <2> HIDE DEF V, F, q
  <2>1. Tail(q) \in Seq(V \cup F) /\ found \in Seq(V \cup F)
    BY <1>7, <1>8
  <2> QED
    BY <1>7, <2>1
<1>13. ToSet(next) = ToSet(Tail(q)) \cup F
  <2> HIDE DEF V, F, q, next, rest
  <2>1. \A x \in F : \E i \in DOMAIN found : found[i] = x
    BY <1>8 DEF ToSet
  <2>2. \A i \in DOMAIN found : found[i] \in F
    BY <1>8 DEF ToSet
  <2>3. DOMAIN Tail(q) = 1..rest
    BY <1>7, <1>12 DEF rest
  <2>4. \A i \in 1..rest : i \in DOMAIN next /\ next[i] = Tail(q)[i]
    BY <1>7, <1>12 DEF rest
  <2>5. \A i \in DOMAIN next : next[i] \in ToSet(Tail(q)) \cup F
    <3> SUFFICES ASSUME NEW i \in DOMAIN next PROVE next[i] \in ToSet(Tail(q)) \cup F
      OBVIOUS
    <3>1. CASE rest < i
      BY <1>12, <2>2, <3>1
    <3>2. CASE i <= rest
      BY <1>12, <2>3, <2>4, <3>2 DEF ToSet
    <3> QED
      BY <1>12, <3>1, <3>2
  <2>6. \A x \in ToSet(Tail(q)) \cup F : \E i \in DOMAIN next : next[i] = x
    <3>1. \A x \in F : \E i \in DOMAIN next : next[i] = x
      BY <1>12, <2>1
    <3>2. \A x \in ToSet(Tail(q)) : \E i \in DOMAIN next : next[i] = x
      BY <2>3, <2>4 DEF ToSet
    <3> QED
      BY <3>1, <3>2
  <2> QED
    BY <2>5, <2>6 DEF ToSet
<1>14. ToSet(q) = ToSet(Tail(q)) \cup {current}
  BY <1>1, <1>6, HeadAndTail
<1>15. ASSUME NEW W, IsWithin(W, maze), NEW d, Searched(d, W, walker, maze), Waiting(walker, maze)
       PROVE  \E dd : Searched(dd, W, walker', maze) /\ Waiting(walker', maze)
  <2> DEFINE n == d[current]
             dd == [c \in V \cup F |-> IF c \in V THEN d[c] ELSE n + 1]
  <2>1. /\ d \in [V -> Nat] /\ n \in Nat /\ current \in W[n]
        /\ maze.start \in V /\ d[maze.start] = 0
        /\ \A c \in V : c \in W[d[c]] /\ \A k \in Nat : k < d[c] => c \notin W[k]
        /\ \A i, j \in DOMAIN q : i < j => d[q[i]] <= d[q[j]] /\ d[q[j]] <= d[q[i]] + 1
        /\ DOMAIN walker.cameFrom = V \ {maze.start}
        /\ \A c \in DOMAIN walker.cameFrom :
              walker.cameFrom[c] \in V /\ d[c] = d[walker.cameFrom[c]] + 1 /\ c \in Nbrs(walker.cameFrom[c])
    BY <1>7, <1>15 DEF Searched
  <2>2. /\ dd \in [V \cup F -> Nat] /\ \A c \in V : dd[c] = d[c]
        /\ \A c \in F : dd[c] = n + 1
    <3> HIDE DEF V, F, n
    <3>1. \A c \in F : c \notin V
      BY <1>9
    <3> QED
      BY <2>1, <3>1
  <2>3. \A i \in DOMAIN q : d[q[i]] \in Nat /\ q[i] \in V /\ n <= d[q[i]] /\ d[q[i]] <= n + 1
    <3> SUFFICES ASSUME NEW i \in DOMAIN q PROVE d[q[i]] \in Nat /\ q[i] \in V /\ n <= d[q[i]] /\ d[q[i]] <= n + 1
      OBVIOUS
    <3>1. q[i] \in V /\ d[q[i]] \in Nat
      BY <1>6, <2>1
    <3>2. i = 1 \/ 1 < i
      BY <1>7
    <3> HIDE DEF V, q
    <3>3. CASE i = 1
      BY <1>7, <2>1, <3>1, <3>3
    <3>4. CASE 1 < i
      BY <1>7, <2>1, <3>1, <3>4
    <3> QED
      BY <3>1, <3>2, <3>3, <3>4
  <2>4. \A k \in Nat : k <= n => W[k] \subseteq V
    <3>1. W[n] \subseteq V
      <4> HIDE DEF n
      <4> QED
        BY <1>1, <1>15, <2>1, <2>3, NearerVisited
    <3> QED
      BY <1>1, <1>15, <2>1, <3>1, WithinGrows
  <2>5. \A c \in F : c \in W[n + 1]
    <3> SUFFICES ASSUME NEW c \in F PROVE c \in W[n + 1]
      OBVIOUS
    <3>1. c \in MazeCells /\ c \in OpenCells(maze) /\ c \in Nbrs(current)
      BY DEF OpenCells
    <3>2. current \in Nbrs(c)
      BY <1>4, <1>7, <3>1, NeighborsBack
    <3>3. c \in Spread(maze, W[n])
      BY <2>1, <3>1, <3>2 DEF Spread
    <3> QED
      BY <1>15, <2>1, <3>3 DEF IsWithin
  <2> HIDE DEF V, F, q, current, n, dd, next, rest
  <2>6. \A c \in V \cup F : c \in W[dd[c]] /\ \A k \in Nat : k < dd[c] => c \notin W[k]
    <3>1. \A c \in F : \A k \in Nat : k < n + 1 => c \notin W[k]
      BY <1>9, <2>1, <2>4
    <3> QED
      BY <2>1, <2>2, <2>5, <3>1
  <2>7. \A i, j \in DOMAIN next : i < j => dd[next[i]] <= dd[next[j]] /\ dd[next[j]] <= dd[next[i]] + 1
    <3>1. \A i \in DOMAIN next : i <= rest => i \in 1..rest /\ dd[next[i]] = d[q[i + 1]] /\ i + 1 \in DOMAIN q
      BY <1>12, <2>2, <2>3
    <3>2. \A i \in DOMAIN next : rest < i => dd[next[i]] = n + 1
      <4>1. \A i \in DOMAIN found : found[i] \in F
        BY <1>8
      <4> QED
        BY <1>12, <2>2, <4>1
    <3> SUFFICES ASSUME NEW i \in DOMAIN next, NEW j \in DOMAIN next, i < j
                 PROVE  dd[next[i]] <= dd[next[j]] /\ dd[next[j]] <= dd[next[i]] + 1
      OBVIOUS
    <3>3. i \in Nat /\ j \in Nat
      BY <1>12
    <3>4. CASE j <= rest
      <4>1. i <= rest /\ i + 1 < j + 1
        BY <1>12, <3>3, <3>4
      <4> QED
        BY <2>1, <3>1, <3>4, <4>1
    <3>5. CASE i <= rest /\ rest < j
      <4>1. dd[next[i]] = d[q[i + 1]] /\ i + 1 \in DOMAIN q /\ dd[next[j]] = n + 1
        BY <3>1, <3>2, <3>5
      <4>2. d[q[i + 1]] \in Nat /\ n <= d[q[i + 1]] /\ d[q[i + 1]] <= n + 1
        BY <2>3, <4>1
      <4> QED
        BY <2>1, <4>1, <4>2
    <3>6. CASE rest < i
      <4>1. dd[next[i]] = n + 1 /\ dd[next[j]] = n + 1
        BY <1>12, <3>2, <3>3, <3>6
      <4> QED
        BY <2>1, <4>1
    <3> QED
      BY <1>12, <3>3, <3>4, <3>5, <3>6
  <2>8. DOMAIN walker'.cameFrom = walker'.visited \ {maze.start}
    BY <1>3, <1>8, <1>9, <1>11, <2>1
  <2>9. \A c \in DOMAIN walker'.cameFrom :
           /\ walker'.cameFrom[c] \in walker'.visited /\ dd[c] = dd[walker'.cameFrom[c]] + 1
           /\ c \in Nbrs(walker'.cameFrom[c])
    <3> SUFFICES ASSUME NEW c \in DOMAIN from
                 PROVE  from[c] \in V \cup F /\ dd[c] = dd[from[c]] + 1 /\ c \in Nbrs(from[c])
      BY <1>3, <1>8
    <3>1. CASE c \in F
      <4>1. from[c] = current /\ dd[current] = n /\ dd[c] = n + 1
        BY <1>7, <1>11, <2>2, <3>1 DEF n
      <4>2. c \in Nbrs(current)
        BY <3>1 DEF F
      <4> QED
        BY <1>7, <4>1, <4>2
    <3>2. CASE c \notin F
      <4>1. c \in DOMAIN walker.cameFrom /\ from[c] = walker.cameFrom[c] /\ c \in V
        BY <1>11, <2>1, <3>2
      <4> QED
        BY <2>1, <2>2, <4>1
    <3> QED
      BY <3>1, <3>2
  <2>10. Searched(dd, W, walker', maze)
    <3>1. walker'.visited = V \cup F /\ walker'.queue = next
      BY <1>3, <1>8 DEF next
    <3>2. dd[maze.start] = 0 /\ maze.start \in V \cup F
      BY <2>1, <2>2
    <3> QED
      BY <1>12, <2>2, <2>6, <2>7, <2>8, <2>9, <3>1, <3>2 DEF Searched
  <2>11. Waiting(walker', maze)
    <3>0. walker'.visited = V \cup F /\ walker'.queue = next /\ walker'.path = <<>>
      BY <1>3, <1>8, <1>15 DEF next, Waiting
    <3>1. ASSUME NEW c \in V \cup F, c \notin ToSet(next), NEW e \in Nbrs(c) \cap OpenCells(maze)
          PROVE  e \in V \cup F
      <4>1. c \in V /\ c \notin ToSet(Tail(q))
        BY <1>13, <3>1
      <4>2. CASE c = current
        BY <4>2 DEF F
      <4>3. CASE c # current
        <5>1. c \notin ToSet(q)
          BY <1>14, <4>1, <4>3
        <5> QED
          BY <1>15, <4>1, <5>1 DEF Waiting, V, q
      <4> QED
        BY <4>2, <4>3
    <3>2. maze.end \in V \cup F => maze.end \in ToSet(next)
      <4>1. maze.end \in V => maze.end \in ToSet(q)
        BY <1>15 DEF Waiting, V, q
      <4> QED
        BY <1>1, <1>13, <1>14, <4>1
    <3> QED
      BY <3>0, <3>1, <3>2 DEF Waiting
  <2> QED
    BY <2>10, <2>11
<1>16. SearchSound(walker', maze)
  BY <1>3, <1>5, <1>15 DEF SearchSound
<1> QED
  BY <1>1, <1>3, <1>10, <1>16, InvAfter

\* The way back from the end gets one step nearer the start every time.
LEMMA BackGetsNearer ==
  ASSUME NEW W, NEW d, Searched(d, W, walker, maze), maze.end \in walker.visited
  PROVE  LET far == d[maze.end] IN
         /\ far \in Nat /\ Back[0] = maze.end
         /\ \A n \in 0..far : Back[n] \in walker.visited /\ d[Back[n]] = far - n
                              /\ (Back[n] = maze.start <=> n = far)
         /\ \A n \in 0..far : n < far => Back[n] \in Nbrs(Back[n + 1])
<1> DEFINE V == walker.visited
           far == d[maze.end]
           step == [x \in V |-> IF x = maze.start THEN maze.start ELSE walker.cameFrom[x]]
           Loop(f) == [n \in Nat |-> IF n = 0 THEN maze.end
                                     ELSE IF f[n - 1] = maze.start THEN maze.start ELSE walker.cameFrom[f[n - 1]]]
<1>1. /\ d \in [V -> Nat] /\ far \in Nat /\ maze.start \in V /\ d[maze.start] = 0
      /\ DOMAIN walker.cameFrom = V \ {maze.start}
      /\ \A c \in DOMAIN walker.cameFrom :
            walker.cameFrom[c] \in V /\ d[c] = d[walker.cameFrom[c]] + 1 /\ c \in Nbrs(walker.cameFrom[c])
  BY DEF Searched
<1>2. step \in [V -> V]
  BY <1>1
<1>3. PICK f \in [Nat -> V] : Steps(f, maze.end, step)
  <2> HIDE DEF V, step
  <2> QED
    BY <1>2, StepsExist DEF V
<1>4. Back = CHOOSE g : g = Loop(g)
  BY DEF Back
<1>5. f = Loop(f)
  <2>1. ASSUME NEW n \in Nat
        PROVE  f[n] = IF n = 0 THEN maze.end
                      ELSE IF f[n - 1] = maze.start THEN maze.start ELSE walker.cameFrom[f[n - 1]]
    <3>1. CASE n = 0
      BY <1>3, <3>1 DEF Steps
    <3>2. CASE n # 0
      <4>1. n - 1 \in Nat /\ (n - 1) + 1 = n
        BY <3>2
      <4>2. f[(n - 1) + 1] = step[f[n - 1]] /\ f[n - 1] \in V
        BY <1>3, <4>1 DEF Steps
      <4> QED
        BY <3>2, <4>1, <4>2
    <3> QED
      BY <3>1, <3>2
  <2>2. f = [n \in Nat |-> f[n]]
    BY <1>3
  <2> QED
    BY <2>1, <2>2
<1> HIDE DEF Loop
<1>6. Back = Loop(Back)
  BY <1>4, <1>5
<1>7. \A n \in Nat : Back[n] = IF n = 0 THEN maze.end
                               ELSE IF Back[n - 1] = maze.start THEN maze.start ELSE walker.cameFrom[Back[n - 1]]
  BY <1>6 DEF Loop
<1>8. \A n \in Nat : Back[n + 1] = IF Back[n] = maze.start THEN maze.start ELSE walker.cameFrom[Back[n]]
  <2> SUFFICES ASSUME NEW n \in Nat
               PROVE  Back[n + 1] = IF Back[n] = maze.start THEN maze.start ELSE walker.cameFrom[Back[n]]
    OBVIOUS
  <2>1. n + 1 \in Nat /\ n + 1 # 0 /\ (n + 1) - 1 = n
    OBVIOUS
  <2> QED
    BY <1>7, <2>1
<1>9. Back[0] = maze.end
  BY <1>7
<1> HIDE DEF V, far, step
<1>10. \A x \in V : x = maze.start <=> d[x] = 0
  BY <1>1
<1> DEFINE T == {n \in Nat : n <= far => Back[n] \in V /\ d[Back[n]] = far - n}
<1>11. 0 \in T
  BY <1>1, <1>9 DEF far, V
<1>12. ASSUME NEW n \in Nat, n \in T PROVE n + 1 \in T
  <2> SUFFICES ASSUME n + 1 <= far PROVE Back[n + 1] \in V /\ d[Back[n + 1]] = far - (n + 1)
    OBVIOUS
  <2>1. Back[n] \in V /\ d[Back[n]] = far - n /\ far - n # 0
    BY <1>1, <1>12
  <2>2. Back[n] # maze.start
    BY <1>10, <2>1
  <2>3. Back[n + 1] = walker.cameFrom[Back[n]]
    BY <1>8, <2>2
  <2>4. Back[n + 1] \in V /\ d[Back[n]] = d[Back[n + 1]] + 1
    BY <1>1, <2>1, <2>2, <2>3
  <2>5. d[Back[n + 1]] \in Nat
    BY <1>1, <2>4
  <2> QED
    BY <1>1, <2>1, <2>4, <2>5
<1> HIDE DEF T
<1>13. \A n \in Nat : n \in T
  BY <1>11, <1>12, NumberInduction
<1>14. \A n \in 0..far : Back[n] \in V /\ d[Back[n]] = far - n /\ (Back[n] = maze.start <=> n = far)
  <2> SUFFICES ASSUME NEW n \in 0..far
               PROVE  Back[n] \in V /\ d[Back[n]] = far - n /\ (Back[n] = maze.start <=> n = far)
    OBVIOUS
  <2>1. n \in T /\ n \in Nat /\ n <= far
    BY <1>1, <1>13
  <2>2. Back[n] \in V /\ d[Back[n]] = far - n
    BY <2>1 DEF T
  <2>3. Back[n] = maze.start <=> far - n = 0
    BY <1>10, <2>2
  <2> QED
    BY <1>1, <2>1, <2>2, <2>3
<1>15. \A n \in 0..far : n < far => Back[n] \in Nbrs(Back[n + 1])
  <2> SUFFICES ASSUME NEW n \in 0..far, n < far PROVE Back[n] \in Nbrs(Back[n + 1])
    OBVIOUS
  <2>1. Back[n] \in V /\ Back[n] # maze.start /\ n \in Nat
    BY <1>1, <1>14
  <2>2. Back[n + 1] = walker.cameFrom[Back[n]] /\ Back[n] \in DOMAIN walker.cameFrom
    BY <1>1, <1>8, <2>1
  <2> QED
    BY <1>1, <2>2
<1> QED
  BY <1>1, <1>9, <1>14, <1>15 DEF V, far

LEMMA PathIsBack ==
  ASSUME NEW W, NEW d, Searched(d, W, walker, maze), maze.end \in walker.visited, maze \in Mazes,
         walker.visited \subseteq MazeCells
  PROVE  LET far == d[maze.end]    path == ReconstructPath IN
         /\ path \in Seq(MazeCells) /\ Len(path) = far + 1
         /\ path[1] = maze.start /\ Last(path) = maze.end
         /\ \A i \in 2..Len(path) : path[i] \in Nbrs(path[i - 1])
<1> DEFINE far == d[maze.end]
           path == ReconstructPath
           P(n) == Back[n] = maze.start /\ \A i \in 0..(n - 1) : Back[i] # maze.start
           steps == CHOOSE n \in 0..Unreached : P(n)
<1>1. /\ far \in Nat /\ Back[0] = maze.end
      /\ \A n \in 0..far : Back[n] \in walker.visited /\ (Back[n] = maze.start <=> n = far)
      /\ \A n \in 0..far : n < far => Back[n] \in Nbrs(Back[n + 1])
  BY BackGetsNearer
<1>2. far <= Unreached /\ Unreached \in Nat
  BY NotTooFar, CellsCounted
<1> HIDE DEF far
<1>3. P(far)
  BY <1>1
<1>4. steps \in 0..Unreached /\ P(steps)
  <2>1. far \in 0..Unreached
    BY <1>1, <1>2
  <2> HIDE DEF P
  <2> QED
    BY <1>3, <2>1
<1>5. steps = far
  <2> HIDE DEF steps
  <2>1. CASE steps < far
    <3>1. steps \in 0..far
      BY <1>1, <1>4, <2>1
    <3> QED
      BY <1>1, <1>4, <2>1, <3>1
  <2>2. CASE far < steps
    <3>1. far \in 0..(steps - 1)
      BY <1>1, <1>4, <2>2
    <3> QED
      BY <1>3, <1>4, <3>1
  <2> QED
    BY <1>1, <1>2, <1>4, <2>1, <2>2
<1>6. path = [i \in 1..(far + 1) |-> Back[far + 1 - i]]
  <2>1. path = [i \in 1..(steps + 1) |-> Back[steps + 1 - i]]
    BY DEF ReconstructPath, Unreached
  <2> HIDE DEF path, steps
  <2> QED
    BY <1>5, <2>1
<1> HIDE DEF path, steps, P
<1>7. \A i \in 1..(far + 1) : far + 1 - i \in 0..far /\ path[i] = Back[far + 1 - i] /\ path[i] \in MazeCells
  <2>1. \A i \in 1..(far + 1) : far + 1 - i \in 0..far
    BY <1>1
  <2>2. \A i \in 1..(far + 1) : path[i] = Back[far + 1 - i]
    BY <1>6
  <2> QED
    BY <1>1, <2>1, <2>2
<1>8. path \in Seq(MazeCells) /\ Len(path) = far + 1 /\ DOMAIN path = 1..(far + 1)
  <2>1. far + 1 \in Nat /\ DOMAIN path = 1..(far + 1)
    BY <1>1, <1>6
  <2>2. path = [i \in 1..(far + 1) |-> path[i]]
    BY <1>6, <1>7
  <2> QED
    BY <1>7, <2>1, <2>2
<1>9. path[1] = maze.start
  <2>1. 1 \in 1..(far + 1) /\ far + 1 - 1 = far /\ far \in 0..far
    BY <1>1
  <2> QED
    BY <1>1, <1>7, <2>1
<1>10. Last(path) = maze.end
  <2>1. far + 1 \in 1..(far + 1) /\ far + 1 - (far + 1) = 0
    BY <1>1
  <2>2. Last(path) = path[far + 1]
    BY <1>8 DEF Last
  <2> QED
    BY <1>1, <1>7, <2>1, <2>2
<1>11. ASSUME NEW i \in 2..(far + 1) PROVE path[i] \in Nbrs(path[i - 1])
  <2> DEFINE n == far + 1 - i
  <2>1. n \in 0..far /\ n < far /\ far + 1 - (i - 1) = n + 1 /\ i \in 1..(far + 1) /\ i - 1 \in 1..(far + 1)
    BY <1>1
  <2>2. path[i] = Back[n] /\ path[i - 1] = Back[n + 1]
    BY <1>7, <2>1
  <2> HIDE DEF n
  <2> QED
    BY <1>1, <2>1, <2>2
<1> QED
  BY <1>8, <1>9, <1>10, <1>11 DEF far, path

LEMMA WalkerReaches ==
  ASSUME MazeInv, Reach, maze' = maze
  PROVE  MazeInv'
<1> DEFINE q == walker.queue
<1>1. /\ maze \in Mazes /\ IsWalker(walker) /\ walker.state = "searching" /\ SearchSound(walker, maze)
      /\ q # <<>> /\ Head(q) = maze.end /\ walker.visited \subseteq MazeCells
  BY DEF MazeInv, Reach, IsWalker
<1>2. walker' = [state |-> "done", visited |-> walker.visited, queue |-> Tail(q),
                 cameFrom |-> walker.cameFrom, path |-> ReconstructPath]
  BY <1>1 DEF Reach, IsWalker
<1>3. /\ walker'.state = "done" /\ walker'.visited = walker.visited /\ walker'.queue = Tail(q)
      /\ walker'.cameFrom = walker.cameFrom /\ walker'.path = ReconstructPath
  <2> HIDE DEF q
  <2> QED
    BY <1>2
<1>4. ASSUME NEW W, IsWithin(W, maze)
      PROVE  \E d : Searched(d, W, walker', maze) /\ Arrived(d, W, walker', maze) /\ ReconstructPath \in Seq(MazeCells)
  <2>1. PICK d : Searched(d, W, walker, maze)
    BY <1>1, <1>4 DEF SearchSound
  <2>2. q \in Seq(walker.visited)
    BY <2>1 DEF Searched
  <2>3. /\ Tail(q) \in Seq(walker.visited) /\ maze.end \in walker.visited
        /\ \A i \in DOMAIN Tail(q) : Tail(q)[i] = q[i + 1] /\ i + 1 \in DOMAIN q /\ i \in Nat
    <3>1. q # <<>> /\ Head(q) = maze.end
      BY <1>1
    <3> HIDE DEF q
    <3> QED
      BY <2>2, <3>1, HeadAndTail
  <2>4. \A i, j \in DOMAIN Tail(q) : i < j =>
           d[Tail(q)[i]] <= d[Tail(q)[j]] /\ d[Tail(q)[j]] <= d[Tail(q)[i]] + 1
    <3> SUFFICES ASSUME NEW i \in DOMAIN Tail(q), NEW j \in DOMAIN Tail(q), i < j
                 PROVE  d[Tail(q)[i]] <= d[Tail(q)[j]] /\ d[Tail(q)[j]] <= d[Tail(q)[i]] + 1
      OBVIOUS
    <3>1. i + 1 \in DOMAIN q /\ j + 1 \in DOMAIN q /\ i + 1 < j + 1 /\ Tail(q)[i] = q[i + 1] /\ Tail(q)[j] = q[j + 1]
      BY <2>3
    <3>2. d[q[i + 1]] <= d[q[j + 1]] /\ d[q[j + 1]] <= d[q[i + 1]] + 1
      BY <2>1, <3>1 DEF Searched
    <3> QED
      BY <3>1, <3>2
  <2> HIDE DEF q
  <2>5. Searched(d, W, walker', maze)
    BY <1>3, <2>1, <2>3, <2>4 DEF Searched
  <2>6. /\ ReconstructPath \in Seq(MazeCells) /\ Len(ReconstructPath) = d[maze.end] + 1
        /\ ReconstructPath[1] = maze.start /\ Last(ReconstructPath) = maze.end
        /\ \A i \in 2..Len(ReconstructPath) : ReconstructPath[i] \in Nbrs(ReconstructPath[i - 1])
    BY <1>1, <2>1, <2>3, PathIsBack
  <2>7. Arrived(d, W, walker', maze)
    BY <1>3, <2>3, <2>6 DEF Arrived
  <2> QED
    BY <2>5, <2>6, <2>7
<1>5. ReconstructPath \in Seq(MazeCells)
  BY <1>1, <1>4, WithinIsWithin
<1>6. IsWalker(walker')
  <2>1. walker.cameFrom = [c \in DOMAIN walker.cameFrom |-> walker.cameFrom[c]]
    BY <1>1 DEF IsWalker
  <2> HIDE DEF q
  <2> QED
    BY <1>1, <1>2, <1>3, <1>5, <2>1 DEF IsWalker
<1>7. SearchSound(walker', maze)
  BY <1>3, <1>4 DEF SearchSound
<1> QED
  BY <1>1, <1>3, <1>6, <1>7, InvAfter

LEMMA WalkerGivesUp ==
  ASSUME MazeInv, GiveUp, maze' = maze
  PROVE  MazeInv'
<1>1. /\ maze \in Mazes /\ IsWalker(walker) /\ walker.state = "searching" /\ SearchSound(walker, maze)
      /\ walker.queue = <<>>
  BY DEF MazeInv, GiveUp
<1>2. walker' = [state |-> "done", visited |-> walker.visited, queue |-> walker.queue,
                 cameFrom |-> walker.cameFrom, path |-> walker.path]
  BY <1>1 DEF GiveUp, IsWalker
<1>3. /\ walker'.state = "done" /\ walker'.visited = walker.visited /\ walker'.queue = walker.queue
      /\ walker'.cameFrom = walker.cameFrom /\ walker'.path = walker.path
  BY <1>2
<1>4. IsWalker(walker')
  <2>1. walker.cameFrom = [c \in DOMAIN walker.cameFrom |-> walker.cameFrom[c]]
    BY <1>1 DEF IsWalker
  <2> QED
    BY <1>1, <1>2, <1>3, <2>1 DEF IsWalker
<1>5. ASSUME NEW W, IsWithin(W, maze)
      PROVE  \E d : Searched(d, W, walker', maze) /\ Arrived(d, W, walker', maze)
  <2>1. PICK d : Searched(d, W, walker, maze) /\ Waiting(walker, maze)
    BY <1>1, <1>5 DEF SearchSound
  <2>2. DOMAIN walker.queue = {} /\ ToSet(walker.queue) = {}
    BY <1>1 DEF ToSet
  <2>3. \A n \in Nat : W[n] \subseteq walker.visited
    BY <1>1, <1>5, <2>1, <2>2, NearerVisited
  <2>4. \A n \in Nat : maze.end \notin W[n]
    BY <2>1, <2>2, <2>3 DEF Waiting
  <2>5. Arrived(d, W, walker', maze)
    BY <1>3, <2>1, <2>4 DEF Arrived, Waiting
  <2>6. Searched(d, W, walker', maze)
    BY <1>3, <2>1 DEF Searched
  <2> QED
    BY <2>5, <2>6
<1>6. SearchSound(walker', maze)
  BY <1>3, <1>5 DEF SearchSound
<1> QED
  BY <1>1, <1>3, <1>4, <1>6, InvAfter

LEMMA MazeMoves == MazeInv /\ [MazeNext]_mazeVars => MazeInv'
<1> SUFFICES ASSUME MazeInv, [MazeNext]_mazeVars PROVE MazeInv'
  OBVIOUS
<1>1. CASE MazeNext
  <2>1. maze' = maze
    BY <1>1 DEF MazeNext
  <2> QED
    BY <1>1, <2>1, SearchBegins, WalkerExplores, WalkerReaches, WalkerGivesUp DEF MazeNext
<1>2. CASE UNCHANGED mazeVars
  <2>1. walker' = walker /\ maze' = maze
    BY <1>2 DEF mazeVars
  <2>2. CASE walker.state = "idle"
    BY <2>1, <2>2 DEF MazeInv, IsWalker
  <2>3. CASE walker.state # "idle"
    BY <2>1, <2>3, InvAfter DEF MazeInv
  <2> QED
    BY <2>2, <2>3
<1> QED
  BY <1>1, <1>2

\* Every path the search returns is a shortest one, and it gives up only where
\* no path leads to the exit (walker.py:20-58).
THEOREM PathsStayShortest == MazeSpec => [](MazeTypeOK /\ ShortestFound)
<1>1. MazeSpec => []MazeInv
  BY MazeStarts, MazeMoves, PTL DEF MazeSpec
<1> QED
  BY <1>1, MazeAgrees, PTL

-----------------------------------------------------------------------------
\* Hands of cards.

Same(x, y) == IF x = y THEN 1 ELSE 0

\* How often a value is among five, and what five hold of each other.
TimesHeld(f, r) == Same(f[1], r) + Same(f[2], r) + Same(f[3], r) + Same(f[4], r) + Same(f[5], r)

Weight(f) == TimesHeld(f, f[1]) + TimesHeld(f, f[2]) + TimesHeld(f, f[3]) + TimesHeld(f, f[4]) + TimesHeld(f, f[5])

\* The larger group comes first, of two of one size the higher.
GroupAhead(f, x, y) == TimesHeld(f, x) > TimesHeld(f, y) \/ (TimesHeld(f, x) = TimesHeld(f, y) /\ x > y)

Gathered(f) == \A j, k \in 1..5 : j < k => f[j] = f[k] \/ GroupAhead(f, f[j], f[k])

LEMMA SameIs == \A x, y : Same(x, y) \in {0, 1} /\ (Same(x, y) = 1 <=> x = y) /\ Same(x, y) = Same(y, x)
  BY DEF Same

LEMMA TimesIs == \A f, r : TimesHeld(f, r) \in 0..5
  BY SameIs DEF TimesHeld

LEMMA FiveCounted ==
  ASSUME NEW f, NEW r
  PROVE  Cardinality({i \in 1..5 : f[i] = r}) = TimesHeld(f, r)
<1> DEFINE T == {i \in 1..5 : f[i] = r}
           C(S) == Cardinality(S \cap T)
           N(i) == Same(f[i], r)
           S0 == {}
           S1 == S0 \cup {1}
           S2 == S1 \cup {2}
           S3 == S2 \cup {3}
           S4 == S3 \cup {4}
           S5 == S4 \cup {5}
<1>1. IsFiniteSet(S0) /\ C(S0) = 0
  BY FS_EmptySet
<1>2. 1 \notin S0 /\ 2 \notin S1 /\ 3 \notin S2 /\ 4 \notin S3 /\ 5 \notin S4 /\ T = S5 \cap T
  OBVIOUS
<1>3. \A i \in 1..5 : (IF i \in T THEN 1 ELSE 0) = N(i)
  BY DEF Same
<1>4. /\ (IF 1 \in T THEN 1 ELSE 0) = N(1) /\ (IF 2 \in T THEN 1 ELSE 0) = N(2)
      /\ (IF 3 \in T THEN 1 ELSE 0) = N(3) /\ (IF 4 \in T THEN 1 ELSE 0) = N(4)
      /\ (IF 5 \in T THEN 1 ELSE 0) = N(5)
  BY <1>3
<1> HIDE DEF T, N
<1>5. ASSUME NEW S, IsFiniteSet(S), NEW x, x \notin S
      PROVE  IsFiniteSet(S \cup {x}) /\ C(S \cup {x}) = C(S) + (IF x \in T THEN 1 ELSE 0)
  BY <1>5, OneMore
<1> HIDE DEF C, S0
<1>6. IsFiniteSet(S1) /\ C(S1) = C(S0) + N(1)
  BY <1>1, <1>2, <1>4, <1>5
<1> HIDE DEF S1
<1>7. IsFiniteSet(S2) /\ C(S2) = C(S1) + N(2)
  BY <1>2, <1>4, <1>5, <1>6
<1> HIDE DEF S2
<1>8. IsFiniteSet(S3) /\ C(S3) = C(S2) + N(3)
  BY <1>2, <1>4, <1>5, <1>7
<1> HIDE DEF S3
<1>9. IsFiniteSet(S4) /\ C(S4) = C(S3) + N(4)
  BY <1>2, <1>4, <1>5, <1>8
<1> HIDE DEF S4
<1>10. C(S5) = C(S4) + N(5)
  BY <1>2, <1>4, <1>5, <1>9
<1>11. \A i : N(i) \in Int
  BY SameIs DEF N
<1>12. C(S5) = N(1) + N(2) + N(3) + N(4) + N(5)
  BY <1>1, <1>6, <1>7, <1>8, <1>9, <1>10, <1>11
<1>13. Cardinality(T) = C(S5)
  BY <1>2 DEF C
<1> QED
  BY <1>12, <1>13 DEF T, N, TimesHeld

LEMMA PairsCounted ==
  ASSUME NEW f
  PROVE  Cardinality({p \in (1..5) \X (1..5) : p[1] < p[2] /\ f[p[1]] = f[p[2]]}) =
            Same(f[1], f[2]) + Same(f[1], f[3]) + Same(f[1], f[4]) + Same(f[1], f[5]) + Same(f[2], f[3])
            + Same(f[2], f[4]) + Same(f[2], f[5]) + Same(f[3], f[4]) + Same(f[3], f[5]) + Same(f[4], f[5])
<1> DEFINE T == {p \in (1..5) \X (1..5) : p[1] < p[2] /\ f[p[1]] = f[p[2]]}
           C(S) == Cardinality(S \cap T)
           N(i, j) == Same(f[i], f[j])
           S0 == {}
           S1 == S0 \cup {<<1, 2>>}
           S2 == S1 \cup {<<1, 3>>}
           S3 == S2 \cup {<<1, 4>>}
           S4 == S3 \cup {<<1, 5>>}
           S5 == S4 \cup {<<2, 3>>}
           S6 == S5 \cup {<<2, 4>>}
           S7 == S6 \cup {<<2, 5>>}
           S8 == S7 \cup {<<3, 4>>}
           S9 == S8 \cup {<<3, 5>>}
           S10 == S9 \cup {<<4, 5>>}
<1>1. IsFiniteSet(S0) /\ C(S0) = 0
  BY FS_EmptySet
<1>2. /\ <<1, 2>> \notin S0 /\ <<1, 3>> \notin S1 /\ <<1, 4>> \notin S2 /\ <<1, 5>> \notin S3 /\ <<2, 3>> \notin S4
      /\ <<2, 4>> \notin S5 /\ <<2, 5>> \notin S6 /\ <<3, 4>> \notin S7 /\ <<3, 5>> \notin S8 /\ <<4, 5>> \notin S9
  OBVIOUS
<1>3. T = S10 \cap T
  <2>1. \A p \in T : p \in S10
    <3> SUFFICES ASSUME NEW i \in 1..5, NEW j \in 1..5, i < j PROVE <<i, j>> \in S10
      OBVIOUS
    <3>1. \/ (i = 1 /\ j = 2) \/ (i = 1 /\ j = 3) \/ (i = 1 /\ j = 4) \/ (i = 1 /\ j = 5) \/ (i = 2 /\ j = 3)
          \/ (i = 2 /\ j = 4) \/ (i = 2 /\ j = 5) \/ (i = 3 /\ j = 4) \/ (i = 3 /\ j = 5) \/ (i = 4 /\ j = 5)
      OBVIOUS
    <3> QED
      BY <3>1
  <2> QED
    BY <2>1
<1>4. \A i, j \in 1..5 : i < j => (IF <<i, j>> \in T THEN 1 ELSE 0) = N(i, j)
  BY DEF Same
<1>5. /\ (IF <<1, 2>> \in T THEN 1 ELSE 0) = N(1, 2) /\ (IF <<1, 3>> \in T THEN 1 ELSE 0) = N(1, 3)
      /\ (IF <<1, 4>> \in T THEN 1 ELSE 0) = N(1, 4) /\ (IF <<1, 5>> \in T THEN 1 ELSE 0) = N(1, 5)
      /\ (IF <<2, 3>> \in T THEN 1 ELSE 0) = N(2, 3) /\ (IF <<2, 4>> \in T THEN 1 ELSE 0) = N(2, 4)
      /\ (IF <<2, 5>> \in T THEN 1 ELSE 0) = N(2, 5) /\ (IF <<3, 4>> \in T THEN 1 ELSE 0) = N(3, 4)
      /\ (IF <<3, 5>> \in T THEN 1 ELSE 0) = N(3, 5) /\ (IF <<4, 5>> \in T THEN 1 ELSE 0) = N(4, 5)
  BY <1>4
<1> HIDE DEF T, N
<1>6. ASSUME NEW S, IsFiniteSet(S), NEW x, x \notin S
      PROVE  IsFiniteSet(S \cup {x}) /\ C(S \cup {x}) = C(S) + (IF x \in T THEN 1 ELSE 0)
  BY <1>6, OneMore
<1> HIDE DEF C, S0
<1>7. IsFiniteSet(S1) /\ C(S1) = C(S0) + N(1, 2)
  BY <1>1, <1>2, <1>5, <1>6
<1> HIDE DEF S1
<1>8. IsFiniteSet(S2) /\ C(S2) = C(S1) + N(1, 3)
  BY <1>2, <1>5, <1>6, <1>7
<1> HIDE DEF S2
<1>9. IsFiniteSet(S3) /\ C(S3) = C(S2) + N(1, 4)
  BY <1>2, <1>5, <1>6, <1>8
<1> HIDE DEF S3
<1>10. IsFiniteSet(S4) /\ C(S4) = C(S3) + N(1, 5)
  BY <1>2, <1>5, <1>6, <1>9
<1> HIDE DEF S4
<1>11. IsFiniteSet(S5) /\ C(S5) = C(S4) + N(2, 3)
  BY <1>2, <1>5, <1>6, <1>10
<1> HIDE DEF S5
<1>12. IsFiniteSet(S6) /\ C(S6) = C(S5) + N(2, 4)
  BY <1>2, <1>5, <1>6, <1>11
<1> HIDE DEF S6
<1>13. IsFiniteSet(S7) /\ C(S7) = C(S6) + N(2, 5)
  BY <1>2, <1>5, <1>6, <1>12
<1> HIDE DEF S7
<1>14. IsFiniteSet(S8) /\ C(S8) = C(S7) + N(3, 4)
  BY <1>2, <1>5, <1>6, <1>13
<1> HIDE DEF S8
<1>15. IsFiniteSet(S9) /\ C(S9) = C(S8) + N(3, 5)
  BY <1>2, <1>5, <1>6, <1>14
<1> HIDE DEF S9
<1>16. C(S10) = C(S9) + N(4, 5)
  BY <1>2, <1>5, <1>6, <1>15
<1>17. \A i, j : N(i, j) \in Int
  BY SameIs DEF N
<1>18. C(S10) = N(1, 2) + N(1, 3) + N(1, 4) + N(1, 5) + N(2, 3) + N(2, 4) + N(2, 5) + N(3, 4) + N(3, 5) + N(4, 5)
  BY <1>1, <1>7, <1>8, <1>9, <1>10, <1>11, <1>12, <1>13, <1>14, <1>15, <1>16, <1>17
<1>19. Cardinality(T) = C(S10)
  BY <1>3 DEF C
<1> QED
  BY <1>18, <1>19 DEF T, N

LEMMA WeightIsPairs ==
  ASSUME NEW f
  PROVE  Weight(f) = 5 + 2 * (Same(f[1], f[2]) + Same(f[1], f[3]) + Same(f[1], f[4]) + Same(f[1], f[5]) + Same(f[2], f[3])
            + Same(f[2], f[4]) + Same(f[2], f[5]) + Same(f[3], f[4]) + Same(f[3], f[5]) + Same(f[4], f[5]))
<1>1. \A i, j : Same(f[i], f[j]) = Same(f[j], f[i]) /\ Same(f[i], f[j]) \in Int /\ Same(f[i], f[i]) = 1
  BY SameIs
<1> QED
  BY <1>1 DEF Weight, TimesHeld

LEMMA SumOfDistinct ==
  ASSUME NEW e \in [1..5 -> Int],
         NEW a \in 1..5, NEW b \in 1..5, NEW c \in 1..5, NEW d \in 1..5, NEW x \in 1..5,
         a # b, a # c, a # d, a # x, b # c, b # d, b # x, c # d, c # x, d # x
  PROVE  e[a] + e[b] + e[c] + e[d] + e[x] = e[1] + e[2] + e[3] + e[4] + e[5]
<1>1. e[1] \in Int /\ e[2] \in Int /\ e[3] \in Int /\ e[4] \in Int /\ e[5] \in Int
  OBVIOUS
<1>2. /\ a = 1 \/ a = 2 \/ a = 3 \/ a = 4 \/ a = 5
      /\ b = 1 \/ b = 2 \/ b = 3 \/ b = 4 \/ b = 5
      /\ c = 1 \/ c = 2 \/ c = 3 \/ c = 4 \/ c = 5
      /\ d = 1 \/ d = 2 \/ d = 3 \/ d = 4 \/ d = 5
      /\ x = 1 \/ x = 2 \/ x = 3 \/ x = 4 \/ x = 5
  OBVIOUS
<1>3. CASE a = 1
  BY <1>1, <1>2, <1>3
<1>4. CASE a = 2
  BY <1>1, <1>2, <1>4
<1>5. CASE a = 3
  BY <1>1, <1>2, <1>5
<1>6. CASE a = 4
  BY <1>1, <1>2, <1>6
<1>7. CASE a = 5
  BY <1>1, <1>2, <1>7
<1> QED
  BY <1>2, <1>3, <1>4, <1>5, <1>6, <1>7

LEMMA SumPermuted ==
  ASSUME NEW p \in [1..5 -> 1..5], \A j, k \in 1..5 : p[j] = p[k] => j = k, NEW e \in [1..5 -> Int]
  PROVE  e[p[1]] + e[p[2]] + e[p[3]] + e[p[4]] + e[p[5]] = e[1] + e[2] + e[3] + e[4] + e[5]
<1>1. PICK a \in 1..5, b \in 1..5, c \in 1..5, d \in 1..5, x \in 1..5 :
         a = p[1] /\ b = p[2] /\ c = p[3] /\ d = p[4] /\ x = p[5]
  OBVIOUS
<1>2. a # b /\ a # c /\ a # d /\ a # x /\ b # c /\ b # d /\ b # x /\ c # d /\ c # x /\ d # x
  BY <1>1
<1>3. e[a] + e[b] + e[c] + e[d] + e[x] = e[1] + e[2] + e[3] + e[4] + e[5]
  BY <1>2, SumOfDistinct
<1> QED
  BY <1>1, <1>3

LEMMA TimesPermuted ==
  ASSUME NEW p \in [1..5 -> 1..5], \A j, k \in 1..5 : p[j] = p[k] => j = k,
         NEW f, NEW g, \A k \in 1..5 : g[k] = f[p[k]]
  PROVE  (\A r : TimesHeld(g, r) = TimesHeld(f, r)) /\ Weight(g) = Weight(f)
<1>1. ASSUME NEW r PROVE TimesHeld(g, r) = TimesHeld(f, r)
  <2> DEFINE e == [i \in 1..5 |-> Same(f[i], r)]
  <2>1. e \in [1..5 -> Int]
    BY SameIs
  <2>2. \A k \in 1..5 : e[p[k]] = Same(g[k], r) /\ e[k] = Same(f[k], r)
    OBVIOUS
  <2> HIDE DEF e
  <2>3. e[p[1]] + e[p[2]] + e[p[3]] + e[p[4]] + e[p[5]] = e[1] + e[2] + e[3] + e[4] + e[5]
    BY <2>1, SumPermuted
  <2> QED
    BY <2>2, <2>3 DEF TimesHeld
<1>2. Weight(g) = Weight(f)
  <2> DEFINE e == [i \in 1..5 |-> TimesHeld(f, f[i])]
  <2>1. e \in [1..5 -> Int]
    BY TimesIs
  <2>2. \A k \in 1..5 : e[p[k]] = TimesHeld(g, g[k]) /\ e[k] = TimesHeld(f, f[k])
    BY <1>1
  <2> HIDE DEF e
  <2>3. e[p[1]] + e[p[2]] + e[p[3]] + e[p[4]] + e[p[5]] = e[1] + e[2] + e[3] + e[4] + e[5]
    BY <2>1, SumPermuted
  <2> QED
    BY <2>2, <2>3 DEF Weight
<1> QED
  BY <1>1, <1>2

\* How a hand can be grouped, and what each group holds.
LEMMA GroupsAre ==
  ASSUME NEW g \in [1..5 -> Int], Gathered(g), TimesHeld(g, g[1]) # 5
  PROVE  LET first == TimesHeld(g, g[1])
             second == TimesHeld(g, g[first + 1])
         IN  \/ first = 4 /\ second = 1 /\ Weight(g) = 17
             \/ first = 3 /\ second = 2 /\ Weight(g) = 13
             \/ first = 3 /\ second = 1 /\ Weight(g) = 11
             \/ first = 2 /\ second = 2 /\ Weight(g) = 9
             \/ first = 2 /\ second = 1 /\ Weight(g) = 7
             \/ first = 1 /\ second = 1 /\ Weight(g) = 5
<1>1. /\ g[1] \in Int /\ g[2] \in Int /\ g[3] \in Int /\ g[4] \in Int /\ g[5] \in Int
  OBVIOUS
<1> QED
  BY <1>1, SMTT(60) DEF Gathered, GroupAhead, Weight, TimesHeld, Same

\* The same values as often.
Rearranged(g, f) ==
    g \in [1..5 -> Int] /\ (\A r : TimesHeld(g, r) = TimesHeld(f, r)) /\ Weight(g) = Weight(f)
    /\ \A r : (\E i \in 1..5 : f[i] = r) <=> (\E i \in 1..5 : g[i] = r)

LEMMA HandIs ==
  ASSUME NEW h, IsHand(h)
  PROVE  /\ DOMAIN h = 1..5 /\ h \in Seq(Ranks \X Suits) /\ Len(h) = 5
         /\ RanksOf(h) \in [1..5 -> Int] /\ \A i \in 1..5 : RanksOf(h)[i] = h[i][1] /\ h[i][1] \in Ranks
         /\ \A i, j \in 1..5 : h[i][1] = h[j][1] /\ h[i][2] = h[j][2] => i = j
         /\ \A i \in 1..5 : h[i][2] \in Suits
<1>1. ToSet(Deck) \subseteq Ranks \X Suits
  BY DeckAssumption DEF ToSet
<1>2. h \in [1..5 -> Ranks \X Suits] /\ IsInjective(h) /\ DOMAIN h = 1..5
  BY <1>1 DEF IsHand, HandSize
<1>3. \A i \in 1..5 : h[i] = <<h[i][1], h[i][2]>> /\ h[i][1] \in Ranks /\ h[i][2] \in Suits
  BY <1>2
<1>4. \A i, j \in 1..5 : h[i][1] = h[j][1] /\ h[i][2] = h[j][2] => i = j
  <2> SUFFICES ASSUME NEW i \in 1..5, NEW j \in 1..5, h[i][1] = h[j][1], h[i][2] = h[j][2] PROVE i = j
    OBVIOUS
  <2>1. h[i] = h[j]
    BY <1>3
  <2> QED
    BY <1>2, <2>1 DEF IsInjective
<1>5. RanksOf(h) \in [1..5 -> Int] /\ \A i \in 1..5 : RanksOf(h)[i] = h[i][1]
  BY <1>2, <1>3 DEF RanksOf, Ranks
<1>6. h \in Seq(Ranks \X Suits) /\ Len(h) = 5
  <2>1. 5 \in Nat /\ h = [i \in 1..5 |-> h[i]] /\ \A i \in 1..5 : h[i] \in Ranks \X Suits
    BY <1>2
  <2> HIDE DEF HandSize
  <2> QED
    BY <1>2, <2>1
<1> QED
  BY <1>2, <1>3, <1>4, <1>5, <1>6

LEMMA HeldIsTimes ==
  ASSUME NEW h, IsHand(h), NEW r
  PROVE  HeldOf(h, r) = TimesHeld(RanksOf(h), r)
<1>1. {i \in DOMAIN h : h[i][1] = r} = {i \in 1..5 : RanksOf(h)[i] = r}
  BY HandIs
<1> QED
  BY <1>1, FiveCounted DEF HeldOf

LEMMA PlacesAre ==
  ASSUME NEW R, StrictOrder(R, 1..5)
  PROVE  LET p == SortedBy(1..5, R) IN
         /\ p \in [1..5 -> 1..5] /\ \A j, k \in 1..5 : p[j] = p[k] => j = k
         /\ \A i \in 1..5 : \E k \in 1..5 : p[k] = i
         /\ \A j, k \in 1..5 : <<p[j], p[k]>> \in R <=> j < k
<1>1. IsFiniteSet(1..5) /\ Cardinality(1..5) = 5
  <2>1. 1 \in Int /\ 5 \in Int
    OBVIOUS
  <2>2. IsFiniteSet(1..5) /\ Cardinality(1..5) = IF 1 > 5 THEN 0 ELSE 5 - 1 + 1
    BY <2>1, FS_Interval
  <2> QED
    BY <2>2
<1>2. Sorts(SortedBy(1..5, R), 1..5, R)
  BY <1>1, SortedBySorts
<1> QED
  BY <1>1, <1>2 DEF Sorts

LEMMA RanksSorted ==
  ASSUME NEW h, IsHand(h), NEW R, StrictOrder(R, 1..5), NEW g,
         g = [k \in 1..5 |-> h[SortedBy(1..5, R)[k]][1]]
  PROVE  Rearranged(g, RanksOf(h))
<1> DEFINE p == SortedBy(1..5, R)
           f == RanksOf(h)
<1>1. /\ p \in [1..5 -> 1..5] /\ \A j, k \in 1..5 : p[j] = p[k] => j = k
      /\ \A i \in 1..5 : \E k \in 1..5 : p[k] = i
  BY PlacesAre
<1>2. f \in [1..5 -> Int] /\ \A i \in 1..5 : f[i] = h[i][1]
  BY HandIs
<1> HIDE DEF p, f
<1>3. g = [k \in 1..5 |-> h[p[k]][1]]
  BY DEF p
<1>4. g \in [1..5 -> Int] /\ \A k \in 1..5 : g[k] = f[p[k]]
  BY <1>1, <1>2, <1>3
<1>5. (\A r : TimesHeld(g, r) = TimesHeld(f, r)) /\ Weight(g) = Weight(f)
  BY <1>1, <1>4, TimesPermuted
<1>6. \A r : (\E i \in 1..5 : f[i] = r) <=> (\E i \in 1..5 : g[i] = r)
  BY <1>1, <1>4
<1> QED
  BY <1>4, <1>5, <1>6 DEF Rearranged, f

LEMMA StrongestOrders ==
  ASSUME NEW h, IsHand(h)
  PROVE  /\ StrictOrder(Strongest(h), 1..5)
         /\ \A i, j \in 1..5 : <<i, j>> \in Strongest(h) =>
               h[i][1] = h[j][1] \/ GroupAhead(RanksOf(h), h[i][1], h[j][1])
<1> DEFINE f == RanksOf(h)
           held == [i \in DOMAIN h |-> HeldOf(h, h[i][1])]
<1>1. DOMAIN h = 1..5 /\ f \in [1..5 -> Int] /\ \A i \in 1..5 : f[i] = h[i][1]
  BY HandIs
<1>2. \A i \in 1..5 : held[i] = TimesHeld(f, f[i])
  BY <1>1, HeldIsTimes
<1> HIDE DEF f, held
<1>3. \A i, j \in 1..5 : <<i, j>> \in Strongest(h) <=>
           \/ TimesHeld(f, f[i]) > TimesHeld(f, f[j])
           \/ TimesHeld(f, f[i]) = TimesHeld(f, f[j]) /\ f[i] > f[j]
           \/ f[i] = f[j] /\ i < j
  BY <1>1, <1>2 DEF Strongest, held
<1>4. \A i \in 1..5 : TimesHeld(f, f[i]) \in Int /\ f[i] \in Int
  BY <1>1, TimesIs
<1>5. StrictOrder(Strongest(h), 1..5)
  <2>1. \A i \in 1..5 : <<i, i>> \notin Strongest(h)
    BY <1>3, <1>4
  <2>2. \A i, j, k \in 1..5 : <<i, j>> \in Strongest(h) /\ <<j, k>> \in Strongest(h) => <<i, k>> \in Strongest(h)
    BY <1>3, <1>4
  <2>3. \A i, j \in 1..5 : i = j \/ <<i, j>> \in Strongest(h) \/ <<j, i>> \in Strongest(h)
    BY <1>3, <1>4
  <2> QED
    BY <2>1, <2>2, <2>3 DEF StrictOrder
<1>6. \A i, j \in 1..5 : <<i, j>> \in Strongest(h) => f[i] = f[j] \/ GroupAhead(f, f[i], f[j])
  BY <1>3 DEF GroupAhead
<1> QED
  BY <1>1, <1>5, <1>6 DEF f

LEMMA SignatureIs ==
  ASSUME NEW h, IsHand(h)
  PROVE  /\ TieBreakSignature(h) = [k \in 1..5 |-> TieBreakSignature(h)[k]]
         /\ Rearranged(TieBreakSignature(h), RanksOf(h)) /\ Gathered(TieBreakSignature(h))
<1> DEFINE g == TieBreakSignature(h)
           f == RanksOf(h)
           p == SortedBy(1..5, Strongest(h))
<1>1. DOMAIN h = 1..5
  BY HandIs
<1>2. g = [k \in 1..5 |-> h[p[k]][1]]
  BY <1>1 DEF TieBreakSignature
<1>3. StrictOrder(Strongest(h), 1..5)
  BY StrongestOrders
<1>4. Rearranged(g, f)
  <2> HIDE DEF g
  <2> QED
    BY <1>2, <1>3, RanksSorted
<1>5. \A j, k \in 1..5 : j < k => <<p[j], p[k]>> \in Strongest(h) /\ p[j] \in 1..5 /\ p[k] \in 1..5
  <2>1. /\ p \in [1..5 -> 1..5]
        /\ \A j, k \in 1..5 : <<p[j], p[k]>> \in Strongest(h) <=> j < k
    BY <1>3, PlacesAre
  <2> HIDE DEF p
  <2> QED
    BY <2>1
<1> HIDE DEF g, f, p
<1>6. \A j, k \in 1..5 : j < k => g[j] = g[k] \/ GroupAhead(f, g[j], g[k])
  BY <1>2, <1>5, StrongestOrders DEF f
<1>7. \A x, y : GroupAhead(f, x, y) => GroupAhead(g, x, y)
  BY <1>4 DEF Rearranged, GroupAhead
<1>8. Gathered(g)
  BY <1>6, <1>7 DEF Gathered
<1>9. g = [k \in 1..5 |-> g[k]]
  BY <1>4 DEF Rearranged
<1> QED
  BY <1>4, <1>8, <1>9 DEF f, g

-----------------------------------------------------------------------------
\* Five cards of one rank would need a fifth suit.
LEMMA NoFive ==
  ASSUME NEW h, IsHand(h)
  PROVE  \A r : TimesHeld(RanksOf(h), r) # 5
<1> SUFFICES ASSUME NEW r, TimesHeld(RanksOf(h), r) = 5 PROVE FALSE
  OBVIOUS
<1> DEFINE f == RanksOf(h)
<1>1. f[1] = r /\ f[2] = r /\ f[3] = r /\ f[4] = r /\ f[5] = r
  <2> HIDE DEF f
  <2>1. Same(f[1], r) + Same(f[2], r) + Same(f[3], r) + Same(f[4], r) + Same(f[5], r) = 5
    BY DEF TimesHeld, f
  <2> QED
    BY <2>1 DEF Same
<1>2. /\ h[1][1] = r /\ h[2][1] = r /\ h[3][1] = r /\ h[4][1] = r /\ h[5][1] = r
  BY <1>1, HandIs
<1>3. /\ \A i, j \in 1..5 : h[i][1] = h[j][1] /\ h[i][2] = h[j][2] => i = j
      /\ h[1][2] \in Suits /\ h[2][2] \in Suits /\ h[3][2] \in Suits /\ h[4][2] \in Suits /\ h[5][2] \in Suits
  BY HandIs
<1>4. /\ h[1][2] # h[2][2] /\ h[1][2] # h[3][2] /\ h[1][2] # h[4][2] /\ h[1][2] # h[5][2] /\ h[2][2] # h[3][2]
      /\ h[2][2] # h[4][2] /\ h[2][2] # h[5][2] /\ h[3][2] # h[4][2] /\ h[3][2] # h[5][2] /\ h[4][2] # h[5][2]
  BY <1>2, <1>3
<1> QED
  BY <1>3, <1>4 DEF Suits

LEMMA RankPairsAre ==
  ASSUME NEW h, IsHand(h)
  PROVE  2 * RankPairs(h) + 5 = Weight(RanksOf(h)) /\ RankPairs(h) \in Int
<1> DEFINE f == RanksOf(h)
           n == Same(f[1], f[2]) + Same(f[1], f[3]) + Same(f[1], f[4]) + Same(f[1], f[5]) + Same(f[2], f[3])
            + Same(f[2], f[4]) + Same(f[2], f[5]) + Same(f[3], f[4]) + Same(f[3], f[5]) + Same(f[4], f[5])
<1>1. Len(h) = 5 /\ \A i \in 1..5 : f[i] = h[i][1]
  BY HandIs
<1>2. {p \in (1..5) \X (1..5) : p[1] < p[2] /\ h[p[1]][1] = h[p[2]][1]} =
      {p \in (1..5) \X (1..5) : p[1] < p[2] /\ f[p[1]] = f[p[2]]}
  <2> HIDE DEF f
  <2> QED
    BY <1>1
<1>3. RankPairs(h) = n
  BY <1>1, <1>2, PairsCounted DEF RankPairs
<1>4. n \in Int /\ Weight(f) = 5 + 2 * n
  BY SameIs, WeightIsPairs
<1> HIDE DEF n
<1> QED
  BY <1>3, <1>4 DEF f

\* No two cards of one rank, if there are no pairs of such; and a flush has none.
LEMMA NoPairs ==
  ASSUME NEW h, IsHand(h)
  PROVE  /\ RankPairs(h) >= 0
         /\ RankPairs(h) = 0 <=> \A i, j \in 1..5 : h[i][1] = h[j][1] => i = j
         /\ IsFlush(h) => RankPairs(h) = 0
<1> DEFINE f == RanksOf(h)
           n == Same(f[1], f[2]) + Same(f[1], f[3]) + Same(f[1], f[4]) + Same(f[1], f[5]) + Same(f[2], f[3])
            + Same(f[2], f[4]) + Same(f[2], f[5]) + Same(f[3], f[4]) + Same(f[3], f[5]) + Same(f[4], f[5])
<1>1. \A i \in 1..5 : f[i] = h[i][1]
  BY HandIs
<1>2. RankPairs(h) = n
  BY RankPairsAre, WeightIsPairs, SameIs
<1> HIDE DEF f
<1>3. /\ n >= 0
      /\ n = 0 <=> /\ f[1] # f[2] /\ f[1] # f[3] /\ f[1] # f[4] /\ f[1] # f[5] /\ f[2] # f[3]
                   /\ f[2] # f[4] /\ f[2] # f[5] /\ f[3] # f[4] /\ f[3] # f[5] /\ f[4] # f[5]
  BY SameIs
<1>4. (\A i, j \in 1..5 : f[i] = f[j] => i = j) <=>
                   /\ f[1] # f[2] /\ f[1] # f[3] /\ f[1] # f[4] /\ f[1] # f[5] /\ f[2] # f[3]
                   /\ f[2] # f[4] /\ f[2] # f[5] /\ f[3] # f[4] /\ f[3] # f[5] /\ f[4] # f[5]
  <2>1. \A i \in 1..5 : i = 1 \/ i = 2 \/ i = 3 \/ i = 4 \/ i = 5
    OBVIOUS
  <2> QED
    BY <2>1
<1> HIDE DEF n
<1>5. IsFlush(h) => \A i, j \in 1..5 : h[i][1] = h[j][1] => i = j
  <2>1. /\ DOMAIN h = 1..5
        /\ \A i, j \in 1..5 : h[i][1] = h[j][1] /\ h[i][2] = h[j][2] => i = j
    BY HandIs
  <2> QED
    BY <2>1 DEF IsFlush
<1> QED
  BY <1>1, <1>2, <1>3, <1>4, <1>5

LEMMA LowestOrders ==
  ASSUME NEW h, IsHand(h)
  PROVE  StrictOrder(Lowest(h), 1..5) /\ \A i, j \in 1..5 : <<i, j>> \in Lowest(h) => h[i][1] <= h[j][1]
<1>1. DOMAIN h = 1..5 /\ \A i \in 1..5 : h[i][1] \in Int
  BY HandIs DEF Ranks
<1>2. \A i, j \in 1..5 : <<i, j>> \in Lowest(h) <=> h[i][1] < h[j][1] \/ (h[i][1] = h[j][1] /\ i < j)
  BY <1>1 DEF Lowest
<1>3. \A i \in 1..5 : <<i, i>> \notin Lowest(h)
  BY <1>1, <1>2
<1>4. \A i, j, k \in 1..5 : <<i, j>> \in Lowest(h) /\ <<j, k>> \in Lowest(h) => <<i, k>> \in Lowest(h)
  BY <1>1, <1>2
<1>5. \A i, j \in 1..5 : i = j \/ <<i, j>> \in Lowest(h) \/ <<j, i>> \in Lowest(h)
  BY <1>1, <1>2
<1> QED
  BY <1>1, <1>2, <1>3, <1>4, <1>5 DEF StrictOrder

IsRow(h) == Max(Range(RanksOf(h))) - Min(Range(RanksOf(h))) = 4

LEMMA StraightIs ==
  ASSUME NEW h, IsHand(h)
  PROVE  IsStraight(h) <=> RankPairs(h) = 0 /\ IsRow(h)
<1> DEFINE f == RanksOf(h)
           p == SortedBy(1..5, Lowest(h))
           o == [k \in 1..5 |-> h[p[k]][1]]
<1>1. /\ DOMAIN h = 1..5 /\ f \in [1..5 -> Int] /\ \A i \in 1..5 : f[i] = h[i][1]
      /\ \A i \in 1..5 : h[i][1] \in Nat
  <2>1. Ranks \subseteq Nat
    BY DEF Ranks
  <2> QED
    BY <2>1, HandIs
<1>2. StrictOrder(Lowest(h), 1..5)
  BY LowestOrders
<1>3. /\ p \in [1..5 -> 1..5] /\ \A j, k \in 1..5 : p[j] = p[k] => j = k
      /\ \A i \in 1..5 : \E k \in 1..5 : p[k] = i
      /\ \A j, k \in 1..5 : <<p[j], p[k]>> \in Lowest(h) <=> j < k
  BY <1>2, PlacesAre
<1>4. IsStraight(h) <=> \A i \in 2..5 : o[i] = o[i - 1] + 1
  BY <1>1 DEF IsStraight, HandSize
<1> HIDE DEF p, f
<1>5. \A k \in 1..5 : o[k] = h[p[k]][1] /\ o[k] \in Nat
  BY <1>1, <1>3
<1> HIDE DEF o
<1>6. \A j, k \in 1..5 : j < k => o[j] <= o[k]
  <2>1. \A i, j \in 1..5 : <<i, j>> \in Lowest(h) => h[i][1] <= h[j][1]
    BY LowestOrders
  <2> SUFFICES ASSUME NEW j \in 1..5, NEW k \in 1..5, j < k PROVE o[j] <= o[k]
    OBVIOUS
  <2>2. p[j] \in 1..5 /\ p[k] \in 1..5 /\ <<p[j], p[k]>> \in Lowest(h)
    BY <1>3
  <2>3. h[p[j]][1] <= h[p[k]][1]
    BY <2>1, <2>2
  <2> QED
    BY <1>5, <2>3
<1>7. RankPairs(h) = 0 <=> \A j, k \in 1..5 : o[j] = o[k] => j = k
  <2>1. (\A i, j \in 1..5 : h[i][1] = h[j][1] => i = j) <=> \A j, k \in 1..5 : o[j] = o[k] => j = k
    BY <1>3, <1>5
  <2> QED
    BY <2>1, NoPairs
<1>8. Max(Range(f)) = o[5] /\ Min(Range(f)) = o[1]
  <2>1. \A x \in Range(f) : x \in Nat /\ o[1] <= x /\ x <= o[5]
    <3> SUFFICES ASSUME NEW i \in 1..5 PROVE f[i] \in Nat /\ o[1] <= f[i] /\ f[i] <= o[5]
      BY <1>1 DEF Range
    <3>1. PICK k \in 1..5 : p[k] = i
      BY <1>3
    <3>2. f[i] = o[k] /\ f[i] \in Nat
      BY <1>1, <1>5, <3>1
    <3>3. (k = 1 \/ 1 < k) /\ (k = 5 \/ k < 5)
      OBVIOUS
    <3> QED
      BY <1>5, <1>6, <3>2, <3>3
  <2>2. o[1] \in Range(f) /\ o[5] \in Range(f)
    BY <1>1, <1>3, <1>5 DEF Range
  <2>3. Min(Range(f)) \in Range(f) /\ \A c \in Range(f) : Min(Range(f)) <= c
    <3>1. Range(f) \in SUBSET Nat /\ Range(f) # {}
      BY <2>1, <2>2
    <3> HIDE DEF f
    <3> QED
      BY <3>1, MinOf
  <2>4. Max(Range(f)) \in Range(f) /\ \A c \in Range(f) : Max(Range(f)) >= c
    <3>1. \E x \in Range(f) : \A y \in Range(f) : x >= y
      BY <2>1, <2>2
    <3> QED
      BY <3>1 DEF Max
  <2>5. Min(Range(f)) \in Nat /\ Max(Range(f)) \in Nat /\ o[1] \in Nat /\ o[5] \in Nat
    BY <2>1, <2>2, <2>3, <2>4
  <2>6. o[1] <= Min(Range(f)) /\ Min(Range(f)) <= o[1] /\ o[5] <= Max(Range(f)) /\ Max(Range(f)) <= o[5]
    BY <2>1, <2>2, <2>3, <2>4
  <2> QED
    BY <2>5, <2>6
<1>9. IsRow(h) <=> o[5] - o[1] = 4
  BY <1>8 DEF IsRow, f
<1>10. /\ o[1] \in Nat /\ o[2] \in Nat /\ o[3] \in Nat /\ o[4] \in Nat /\ o[5] \in Nat
       /\ o[1] <= o[2] /\ o[2] <= o[3] /\ o[3] <= o[4] /\ o[4] <= o[5]
  BY <1>5, <1>6
<1>11. (\A i \in 2..5 : o[i] = o[i - 1] + 1) <=>
       o[2] = o[1] + 1 /\ o[3] = o[2] + 1 /\ o[4] = o[3] + 1 /\ o[5] = o[4] + 1
  <2>1. \A i \in 2..5 : i = 2 \/ i = 3 \/ i = 4 \/ i = 5
    OBVIOUS
  <2> QED
    BY <2>1
<1>12. (\A j, k \in 1..5 : o[j] = o[k] => j = k) <=> o[1] < o[2] /\ o[2] < o[3] /\ o[3] < o[4] /\ o[4] < o[5]
  <2>1. \A i \in 1..5 : i = 1 \/ i = 2 \/ i = 3 \/ i = 4 \/ i = 5
    OBVIOUS
  <2>2. ASSUME \A j, k \in 1..5 : o[j] = o[k] => j = k
        PROVE  o[1] < o[2] /\ o[2] < o[3] /\ o[3] < o[4] /\ o[4] < o[5]
    <3>1. o[1] # o[2] /\ o[2] # o[3] /\ o[3] # o[4] /\ o[4] # o[5]
      BY <2>2
    <3> QED
      BY <1>10, <3>1
  <2>3. ASSUME o[1] < o[2], o[2] < o[3], o[3] < o[4], o[4] < o[5]
        PROVE  \A j, k \in 1..5 : o[j] = o[k] => j = k
    BY <1>10, <2>1, <2>3
  <2> QED
    BY <2>2, <2>3
<1> QED
  BY <1>4, <1>7, <1>9, <1>10, <1>11, <1>12

\* A hand ranks as the pairs in it, its suits and its ends say.
LEMMA EvaluateIs ==
  ASSUME NEW h, IsHand(h)
  PROVE  /\ Evaluate(h) = ByPairs(h)
         /\ RankPairs(h) \in {0, 1, 2, 3, 4, 6}
         /\ Evaluate(h) = IF RankPairs(h) = 0
                          THEN IF IsFlush(h) THEN IF IsRow(h) THEN 9 ELSE 6 ELSE IF IsRow(h) THEN 5 ELSE 1
                          ELSE IF RankPairs(h) = 4 THEN 7 ELSE IF RankPairs(h) = 6 THEN 8 ELSE RankPairs(h) + 1
<1> DEFINE g == TieBreakSignature(h)
           f == RanksOf(h)
           first == TimesHeld(g, g[1])
           second == TimesHeld(g, g[first + 1])
           pairs == RankPairs(h)
           counts == GroupCounts(h)
<1>1. Rearranged(g, f) /\ Gathered(g)
  BY SignatureIs
<1>2. \A r : HeldOf(h, r) = TimesHeld(g, r)
  BY <1>1, HeldIsTimes DEF Rearranged
<1>3. first \in 0..5 /\ first # 5
  BY <1>1, NoFive, TimesIs DEF Rearranged
<1>4. counts = <<first, second>>
  <2> HIDE DEF g
  <2>1. HeldOf(h, g[1]) = first /\ HeldOf(h, g[first + 1]) = second /\ first < HandSize
    BY <1>2, <1>3 DEF HandSize
  <2> HIDE DEF first, second
  <2> QED
    BY <2>1 DEF GroupCounts, g
<1>5. 2 * pairs + 5 = Weight(g) /\ pairs \in Int
  BY <1>1, RankPairsAre DEF Rearranged
<1>6. \/ first = 4 /\ second = 1 /\ pairs = 6
      \/ first = 3 /\ second = 2 /\ pairs = 4
      \/ first = 3 /\ second = 1 /\ pairs = 3
      \/ first = 2 /\ second = 2 /\ pairs = 2
      \/ first = 2 /\ second = 1 /\ pairs = 1
      \/ first = 1 /\ second = 1 /\ pairs = 0
  <2> HIDE DEF g, pairs
  <2>1. \/ first = 4 /\ second = 1 /\ Weight(g) = 17
        \/ first = 3 /\ second = 2 /\ Weight(g) = 13
        \/ first = 3 /\ second = 1 /\ Weight(g) = 11
        \/ first = 2 /\ second = 2 /\ Weight(g) = 9
        \/ first = 2 /\ second = 1 /\ Weight(g) = 7
        \/ first = 1 /\ second = 1 /\ Weight(g) = 5
    BY <1>1, <1>3, GroupsAre DEF Rearranged
  <2> HIDE DEF first, second
  <2> QED
    BY <1>5, <2>1
<1>7. (IsStraight(h) <=> pairs = 0 /\ IsRow(h)) /\ (IsFlush(h) => pairs = 0)
  BY StraightIs, NoPairs
<1>8. counts[1] = first /\ (\A x, y : counts = <<x, y>> <=> first = x /\ second = y)
  <2> HIDE DEF counts, first, second
  <2> QED
    BY <1>4
<1> HIDE DEF g, f, first, second, pairs, counts
<1>9. Evaluate(h) = CASE IsStraight(h) /\ IsFlush(h) -> 9
          [] counts[1] = 4 -> 8
          [] counts = <<3, 2>> -> 7
          [] IsFlush(h) /\ ~IsStraight(h) -> 6
          [] IsStraight(h) /\ ~IsFlush(h) -> 5
          [] counts = <<3, 1>> -> 4
          [] counts = <<2, 2>> -> 3
          [] counts = <<2, 1>> -> 2
          [] OTHER -> 1
  BY DEF Evaluate, counts
<1>10. Evaluate(h) = CASE pairs = 0 /\ IsRow(h) /\ IsFlush(h) -> 9
          [] first = 4 -> 8
          [] first = 3 /\ second = 2 -> 7
          [] IsFlush(h) /\ ~(pairs = 0 /\ IsRow(h)) -> 6
          [] (pairs = 0 /\ IsRow(h)) /\ ~IsFlush(h) -> 5
          [] first = 3 /\ second = 1 -> 4
          [] first = 2 /\ second = 2 -> 3
          [] first = 2 /\ second = 1 -> 2
          [] OTHER -> 1
  BY <1>7, <1>8, <1>9
<1>11. Evaluate(h) = IF pairs = 0
                     THEN IF IsFlush(h) THEN IF IsRow(h) THEN 9 ELSE 6 ELSE IF IsRow(h) THEN 5 ELSE 1
                     ELSE IF pairs = 4 THEN 7 ELSE IF pairs = 6 THEN 8 ELSE pairs + 1
  BY <1>6, <1>7, <1>10
<1>12. ByPairs(h) = IF pairs = 0
                     THEN IF IsFlush(h) THEN IF IsRow(h) THEN 9 ELSE 6 ELSE IF IsRow(h) THEN 5 ELSE 1
                     ELSE IF pairs = 4 THEN 7 ELSE IF pairs = 6 THEN 8 ELSE pairs + 1
  BY DEF ByPairs, IsRow, pairs
<1> QED
  BY <1>6, <1>11, <1>12 DEF pairs

\* The first of six that differs is higher in a.
Wins(a, b) == \E i \in 1..6 : a[i] > b[i] /\ \A j \in 1..6 : j < i => a[j] = b[j]

Key(h) == <<Evaluate(h)>> \o TieBreakSignature(h)

LEMMA WinsOnce ==
  ASSUME NEW a \in [1..6 -> Int], NEW b \in [1..6 -> Int]
  PROVE  ~(Wins(a, b) /\ Wins(b, a))
<1> SUFFICES ASSUME Wins(a, b), Wins(b, a) PROVE FALSE
  OBVIOUS
<1>1. PICK i \in 1..6 : a[i] > b[i] /\ \A j \in 1..6 : j < i => a[j] = b[j]
  BY DEF Wins
<1>2. PICK k \in 1..6 : b[k] > a[k] /\ \A j \in 1..6 : j < k => b[j] = a[j]
  BY DEF Wins
<1>3. i < k \/ k < i \/ i = k
  OBVIOUS
<1>4. a[i] \in Int /\ b[i] \in Int /\ a[k] \in Int /\ b[k] \in Int
  OBVIOUS
<1> QED
  BY <1>1, <1>2, <1>3, <1>4

LEMMA WinsThrough ==
  ASSUME NEW a \in [1..6 -> Int], NEW b \in [1..6 -> Int], NEW c \in [1..6 -> Int], Wins(a, b), Wins(b, c)
  PROVE  Wins(a, c)
<1>1. PICK i \in 1..6 : a[i] > b[i] /\ \A j \in 1..6 : j < i => a[j] = b[j]
  BY DEF Wins
<1>2. PICK k \in 1..6 : b[k] > c[k] /\ \A j \in 1..6 : j < k => b[j] = c[j]
  BY DEF Wins
<1>3. a[i] \in Int /\ b[i] \in Int /\ c[i] \in Int /\ a[k] \in Int /\ b[k] \in Int /\ c[k] \in Int
  OBVIOUS
<1>4. CASE i <= k
  <2>1. a[i] > c[i]
    BY <1>1, <1>2, <1>3, <1>4
  <2>2. \A j \in 1..6 : j < i => a[j] = c[j]
    BY <1>1, <1>2, <1>4
  <2> QED
    BY <2>1, <2>2 DEF Wins
<1>5. CASE k < i
  <2>1. a[k] > c[k]
    BY <1>1, <1>2, <1>3, <1>5
  <2>2. \A j \in 1..6 : j < k => a[j] = c[j]
    BY <1>1, <1>2, <1>5
  <2> QED
    BY <2>1, <2>2 DEF Wins
<1> QED
  BY <1>4, <1>5

LEMMA KeyIs ==
  ASSUME NEW h, IsHand(h)
  PROVE  /\ Key(h) \in [1..6 -> Int] /\ Key(h)[1] = Evaluate(h) /\ Evaluate(h) \in Int
         /\ \A i \in 1..5 : Key(h)[i + 1] = TieBreakSignature(h)[i]
<1> DEFINE g == TieBreakSignature(h)
<1>1. g \in [1..5 -> Int] /\ g = [k \in 1..5 |-> g[k]]
  BY SignatureIs DEF Rearranged
<1>2. Evaluate(h) \in Int
  <2>1. RankPairs(h) \in Int
    BY RankPairsAre
  <2> QED
    BY <2>1, EvaluateIs
<1> HIDE DEF g
<1>3. g \in Seq(Int) /\ Len(g) = 5
  <2>1. 5 \in Nat /\ \A k \in 1..5 : g[k] \in Int
    BY <1>1
  <2> QED
    BY <1>1, <2>1
<1>4. <<Evaluate(h)>> \in Seq(Int) /\ Len(<<Evaluate(h)>>) = 1
  BY <1>2
<1>5. Key(h) = <<Evaluate(h)>> \o g
  BY DEF Key, g
<1> DEFINE e == <<Evaluate(h)>>
<1>6. e[1] = Evaluate(h)
  OBVIOUS
<1> HIDE DEF e
<1>7. PICK t : t = e \o g
  OBVIOUS
<1>8. Fronted(e \o g, e[1], g, Int)
  <2>1. e \in Seq(Int) /\ Len(e) = 1 /\ g \in Seq(Int)
    BY <1>3, <1>4 DEF e
  <2> QED
    BY <2>1, OneBefore
<1>9. t \in Seq(Int) /\ Len(t) = Len(g) + 1 /\ t[1] = e[1] /\ \A i \in 1..Len(g) : t[i + 1] = g[i]
  BY <1>7, <1>8 DEF Fronted
<1>10. t \in [1..6 -> Int] /\ t[1] = e[1] /\ \A i \in 1..5 : t[i + 1] = g[i]
  <2>1. t \in [1..Len(t) -> Int]
    BY <1>9, LenProperties
  <2> QED
    BY <1>3, <1>9, <2>1
<1>11. Key(h) = t
  BY <1>5, <1>7 DEF e
<1> QED
  BY <1>2, <1>6, <1>10, <1>11 DEF g

LEMMA ComparedByKeys ==
  ASSUME NEW mine, NEW theirs, IsHand(mine), IsHand(theirs)
  PROVE  /\ CompareTo(mine, theirs) \in {0, 1, 2}
         /\ CompareTo(mine, theirs) = 1 <=> Wins(Key(mine), Key(theirs))
         /\ CompareTo(mine, theirs) = 2 <=> Wins(Key(theirs), Key(mine))
         /\ CompareTo(mine, theirs) = 0 <=> \A i \in 1..6 : Key(mine)[i] = Key(theirs)[i]
<1> DEFINE a == Key(mine)
           b == Key(theirs)
           differs == {i \in DOMAIN a : a[i] # b[i]}
<1>1. a \in [1..6 -> Int] /\ b \in [1..6 -> Int]
  BY KeyIs
<1>2. CompareTo(mine, theirs) = IF differs = {} THEN 0 ELSE IF a[Min(differs)] > b[Min(differs)] THEN 1 ELSE 2
  BY DEF CompareTo, Key
<1>3. differs = {i \in 1..6 : a[i] # b[i]}
  BY <1>1
<1> HIDE DEF a, b, differs
<1>4. CASE differs = {}
  <2>1. \A i \in 1..6 : a[i] = b[i]
    BY <1>3, <1>4
  <2>2. ~Wins(a, b) /\ ~Wins(b, a)
    BY <1>1, <2>1 DEF Wins
  <2> QED
    BY <1>2, <1>4, <2>1, <2>2 DEF a, b
<1>5. CASE differs # {}
  <2> DEFINE i == Min(differs)
  <2>1. i \in differs /\ \A j \in differs : i <= j
    <3>1. differs \in SUBSET Nat
      BY <1>3
    <3> QED
      BY <1>5, <3>1, MinOf
  <2> HIDE DEF i
  <2>2. i \in 1..6 /\ a[i] # b[i] /\ a[i] \in Int /\ b[i] \in Int
    BY <1>1, <1>3, <2>1
  <2>3. \A j \in 1..6 : j < i => a[j] = b[j]
    <3> SUFFICES ASSUME NEW j \in 1..6, j < i, a[j] # b[j] PROVE FALSE
      OBVIOUS
    <3>1. i <= j
      BY <1>3, <2>1
    <3> QED
      BY <2>2, <3>1
  <2>4. CASE a[i] > b[i]
    <3>1. Wins(a, b) /\ ~Wins(b, a)
      BY <1>1, <2>2, <2>3, <2>4, WinsOnce DEF Wins
    <3>2. CompareTo(mine, theirs) = 1
      BY <1>2, <1>5, <2>4 DEF i
    <3> QED
      BY <2>2, <3>1, <3>2 DEF a, b
  <2>5. CASE ~(a[i] > b[i])
    <3>1. b[i] > a[i]
      BY <2>2, <2>5
    <3>2. Wins(b, a) /\ ~Wins(a, b)
      BY <1>1, <2>2, <2>3, <3>1, WinsOnce DEF Wins
    <3>3. CompareTo(mine, theirs) = 2
      BY <1>2, <1>5, <2>5 DEF i
    <3> QED
      BY <2>2, <3>2, <3>3 DEF a, b
  <2> QED
    BY <2>4, <2>5
<1> QED
  BY <1>4, <1>5

-----------------------------------------------------------------------------
\* How often each value occurs says in which order five are grouped.
LEMMA GroupedOnce ==
  ASSUME NEW f \in [1..5 -> Int], NEW g \in [1..5 -> Int], Gathered(f), Gathered(g),
         \A r : TimesHeld(f, r) = TimesHeld(g, r)
  PROVE  \A i \in 1..5 : f[i] = g[i]
<1>1. /\ f[1] \in Int /\ f[2] \in Int /\ f[3] \in Int /\ f[4] \in Int /\ f[5] \in Int
      /\ g[1] \in Int /\ g[2] \in Int /\ g[3] \in Int /\ g[4] \in Int /\ g[5] \in Int
  OBVIOUS
<1>2. \A x, y : GroupAhead(f, x, y) <=> GroupAhead(g, x, y)
  BY DEF GroupAhead
<1>3. \A x, y \in Int : x = y \/ GroupAhead(g, x, y) \/ GroupAhead(g, y, x)
  BY TimesIs DEF GroupAhead
<1>4. /\ \A x, y \in Int : ~(GroupAhead(g, x, y) /\ GroupAhead(g, y, x)) /\ ~GroupAhead(g, x, x)
      /\ \A x, y, z \in Int : GroupAhead(g, x, y) /\ GroupAhead(g, y, z) => GroupAhead(g, x, z)
  BY TimesIs DEF GroupAhead
<1>5. /\ \A j, k \in 1..5 : j < k => f[j] = f[k] \/ GroupAhead(g, f[j], f[k])
      /\ \A j, k \in 1..5 : j < k => g[j] = g[k] \/ GroupAhead(g, g[j], g[k])
  BY <1>2 DEF Gathered
<1>6. ASSUME NEW k \in 1..5, \A j \in 1..5 : j < k => f[j] = g[j]
      PROVE  f[k] = g[k]
  <2>0. f[k] \in Int /\ g[k] \in Int /\ \A j \in 1..5 : f[j] \in Int /\ g[j] \in Int
    OBVIOUS
  <2>1. ASSUME GroupAhead(g, f[k], g[k]) PROVE FALSE
    <3>1. \A j \in 1..5 : j >= k => g[j] # f[k]
      BY <1>4, <1>5, <2>0, <2>1
    <3>2. TimesHeld(f, f[k]) = TimesHeld(g, f[k])
      OBVIOUS
    <3>3. \A j \in 1..5 : Same(g[j], f[k]) <= Same(f[j], f[k]) /\ Same(g[j], f[k]) \in Int /\ Same(f[j], f[k]) \in Int
      <4> SUFFICES ASSUME NEW j \in 1..5
                   PROVE  Same(g[j], f[k]) <= Same(f[j], f[k]) /\ Same(g[j], f[k]) \in Int /\ Same(f[j], f[k]) \in Int
        OBVIOUS
      <4>1. CASE j < k
        BY <1>6, <4>1 DEF Same
      <4>2. CASE j >= k
        BY <3>1, <4>2 DEF Same
      <4> QED
        BY <4>1, <4>2
    <3>4. Same(g[k], f[k]) = 0 /\ Same(f[k], f[k]) = 1
      BY <3>1 DEF Same
    <3>5. k = 1 \/ k = 2 \/ k = 3 \/ k = 4 \/ k = 5
      OBVIOUS
    <3> QED
      BY <3>2, <3>3, <3>4, <3>5 DEF TimesHeld
  <2>2. ASSUME GroupAhead(g, g[k], f[k]) PROVE FALSE
    <3>1. \A j \in 1..5 : j >= k => f[j] # g[k]
      BY <1>4, <1>5, <2>0, <2>2
    <3>2. TimesHeld(f, g[k]) = TimesHeld(g, g[k])
      OBVIOUS
    <3>3. \A j \in 1..5 : Same(f[j], g[k]) <= Same(g[j], g[k]) /\ Same(g[j], g[k]) \in Int /\ Same(f[j], g[k]) \in Int
      <4> SUFFICES ASSUME NEW j \in 1..5
                   PROVE  Same(f[j], g[k]) <= Same(g[j], g[k]) /\ Same(g[j], g[k]) \in Int /\ Same(f[j], g[k]) \in Int
        OBVIOUS
      <4>1. CASE j < k
        BY <1>6, <4>1 DEF Same
      <4>2. CASE j >= k
        BY <3>1, <4>2 DEF Same
      <4> QED
        BY <4>1, <4>2
    <3>4. Same(f[k], g[k]) = 0 /\ Same(g[k], g[k]) = 1
      BY <3>1 DEF Same
    <3>5. k = 1 \/ k = 2 \/ k = 3 \/ k = 4 \/ k = 5
      OBVIOUS
    <3> QED
      BY <3>2, <3>3, <3>4, <3>5 DEF TimesHeld
  <2> QED
    BY <1>3, <2>0, <2>1, <2>2
<1>7. f[1] = g[1]
  BY <1>6
<1>8. f[2] = g[2]
  <2>1. \A j \in 1..5 : j < 2 => j = 1
    OBVIOUS
  <2> QED
    BY <1>6, <1>7, <2>1
<1>9. f[3] = g[3]
  <2>1. \A j \in 1..5 : j < 3 => j = 1 \/ j = 2
    OBVIOUS
  <2> QED
    BY <1>6, <1>7, <1>8, <2>1
<1>10. f[4] = g[4]
  <2>1. \A j \in 1..5 : j < 4 => j = 1 \/ j = 2 \/ j = 3
    OBVIOUS
  <2> QED
    BY <1>6, <1>7, <1>8, <1>9, <2>1
<1>11. f[5] = g[5]
  <2>1. \A j \in 1..5 : j < 5 => j = 1 \/ j = 2 \/ j = 3 \/ j = 4
    OBVIOUS
  <2> QED
    BY <1>6, <1>7, <1>8, <1>9, <1>10, <2>1
<1>12. \A i \in 1..5 : i = 1 \/ i = 2 \/ i = 3 \/ i = 4 \/ i = 5
  OBVIOUS
<1> QED
  BY <1>7, <1>8, <1>9, <1>10, <1>11, <1>12

\* Hands that group alike have as many pairs and reach as far.
LEMMA AlikeIs ==
  ASSUME NEW a, NEW b, IsHand(a), IsHand(b),
         \A i \in 1..5 : TieBreakSignature(a)[i] = TieBreakSignature(b)[i]
  PROVE  /\ RankPairs(a) = RankPairs(b) /\ (IsRow(a) <=> IsRow(b))
         /\ \A r : HeldOf(a, r) = HeldOf(b, r)
<1> DEFINE f == TieBreakSignature(a)
           g == TieBreakSignature(b)
<1>1. /\ Rearranged(f, RanksOf(a)) /\ Rearranged(g, RanksOf(b))
      /\ DOMAIN RanksOf(a) = 1..5 /\ DOMAIN RanksOf(b) = 1..5
  BY SignatureIs, HandIs
<1> HIDE DEF f, g
<1>2. \A i \in 1..5 : f[i] = g[i]
  BY DEF f, g
<1>3. (\A r : TimesHeld(f, r) = TimesHeld(g, r)) /\ Weight(f) = Weight(g)
  BY <1>2 DEF TimesHeld, Weight
<1>4. \A r : HeldOf(a, r) = HeldOf(b, r)
  BY <1>1, <1>3, HeldIsTimes DEF Rearranged
<1>5. RankPairs(a) = RankPairs(b)
  <2>1. 2 * RankPairs(a) + 5 = Weight(f) /\ RankPairs(a) \in Int /\ 2 * RankPairs(b) + 5 = Weight(f) /\ RankPairs(b) \in Int
    BY <1>1, <1>3, RankPairsAre DEF Rearranged
  <2> QED
    BY <2>1
<1>6. Range(RanksOf(a)) = Range(RanksOf(b))
  <2>1. \A r : r \in Range(RanksOf(a)) <=> r \in Range(RanksOf(b))
    BY <1>1, <1>2 DEF Rearranged, Range
  <2> QED
    BY <2>1
<1> QED
  BY <1>4, <1>5, <1>6 DEF IsRow

\* A tie is one of rank and ranks.
LEMMA TiesAre ==
  ASSUME NEW a, NEW b, IsHand(a), IsHand(b)
  PROVE  (\A i \in 1..6 : Key(a)[i] = Key(b)[i]) <=>
            (IsFlush(a) <=> IsFlush(b)) /\ \A r \in Ranks : HeldOf(a, r) = HeldOf(b, r)
<1> DEFINE f == TieBreakSignature(a)
           g == TieBreakSignature(b)
<1>1. (\A i \in 1..6 : Key(a)[i] = Key(b)[i]) <=> Evaluate(a) = Evaluate(b) /\ \A i \in 1..5 : f[i] = g[i]
  <2>1. \A i \in 1..6 : i = 1 \/ (i - 1 \in 1..5 /\ (i - 1) + 1 = i)
    OBVIOUS
  <2>2. \A i \in 1..5 : i + 1 \in 1..6
    OBVIOUS
  <2> HIDE DEF f, g
  <2>3. /\ Key(a)[1] = Evaluate(a) /\ Key(b)[1] = Evaluate(b) /\ 1 \in 1..6
        /\ \A i \in 1..5 : Key(a)[i + 1] = f[i] /\ Key(b)[i + 1] = g[i]
    BY KeyIs DEF f, g
  <2> QED
    BY <2>1, <2>2, <2>3
<1>2. ASSUME Evaluate(a) = Evaluate(b), \A i \in 1..5 : f[i] = g[i]
      PROVE  (IsFlush(a) <=> IsFlush(b)) /\ \A r \in Ranks : HeldOf(a, r) = HeldOf(b, r)
  <2>1. RankPairs(a) = RankPairs(b) /\ (IsRow(a) <=> IsRow(b)) /\ \A r : HeldOf(a, r) = HeldOf(b, r)
    BY <1>2, AlikeIs
  <2>2. (IsFlush(a) => RankPairs(a) = 0) /\ (IsFlush(b) => RankPairs(b) = 0)
    BY NoPairs
  <2>3. RankPairs(a) = 0 => (IsFlush(a) <=> Evaluate(a) \in {6, 9})
    BY EvaluateIs
  <2>4. RankPairs(b) = 0 => (IsFlush(b) <=> Evaluate(b) \in {6, 9})
    BY EvaluateIs
  <2> QED
    BY <1>2, <2>1, <2>2, <2>3, <2>4
<1>3. ASSUME IsFlush(a) <=> IsFlush(b), \A r \in Ranks : HeldOf(a, r) = HeldOf(b, r)
      PROVE  Evaluate(a) = Evaluate(b) /\ \A i \in 1..5 : f[i] = g[i]
  <2>1. Rearranged(f, RanksOf(a)) /\ Rearranged(g, RanksOf(b)) /\ Gathered(f) /\ Gathered(g)
    BY SignatureIs
  <2>2. \A r : HeldOf(a, r) = TimesHeld(f, r) /\ HeldOf(b, r) = TimesHeld(g, r)
    BY <2>1, HeldIsTimes DEF Rearranged
  <2>3. \A i \in 1..5 : f[i] \in Ranks /\ g[i] \in Ranks
    <3>1. \A i \in 1..5 : RanksOf(a)[i] \in Ranks /\ RanksOf(b)[i] \in Ranks
      BY HandIs
    <3> HIDE DEF f, g
    <3> QED
      BY <2>1, <3>1 DEF Rearranged
  <2> HIDE DEF f, g
  <2>4. ASSUME NEW r, r \notin Ranks
        PROVE  TimesHeld(f, r) = 0 /\ TimesHeld(g, r) = 0
    <3>1. /\ f[1] # r /\ f[2] # r /\ f[3] # r /\ f[4] # r /\ f[5] # r
          /\ g[1] # r /\ g[2] # r /\ g[3] # r /\ g[4] # r /\ g[5] # r
      BY <2>3, <2>4
    <3> QED
      BY <3>1 DEF TimesHeld, Same
  <2>5. \A r : TimesHeld(f, r) = TimesHeld(g, r)
    BY <1>3, <2>2, <2>4
  <2>6. \A i \in 1..5 : f[i] = g[i]
    BY <2>1, <2>5, GroupedOnce DEF Rearranged
  <2>7. RankPairs(a) = RankPairs(b) /\ (IsRow(a) <=> IsRow(b))
    BY <2>6, AlikeIs DEF f, g
  <2>8. Evaluate(a) = Evaluate(b)
    BY <1>3, <2>7, EvaluateIs
  <2> QED
    BY <2>6, <2>8
<1> QED
  BY <1>1, <1>2, <1>3

LEMMA HandsOrdered == PokerTypeOK => HandsAreOrdered
<1> SUFFICES ASSUME PokerTypeOK, hand # NoHand PROVE HandsAreOrdered
  BY DEF HandsAreOrdered
<1>1. IsHand(hand) /\ \A h \in Rivals : IsHand(h)
  BY DeckAssumption DEF PokerTypeOK
<1> DEFINE result == [other \in Rivals |-> CompareTo(hand, other)]
<1>2. ASSUME NEW other \in Rivals
      PROVE  /\ CompareTo(other, hand) = <<0, 2, 1>>[result[other] + 1]
             /\ result[other] = 0 <=> /\ IsFlush(hand) <=> IsFlush(other)
                                      /\ \A r \in Ranks : HeldOf(hand, r) = HeldOf(other, r)
             /\ result[other] = 1 => \A third \in Beaten[other] : result[third] = 1
  <2>1. /\ IsHand(other) /\ result[other] = CompareTo(hand, other)
        /\ CompareTo(hand, other) \in {0, 1, 2} /\ CompareTo(other, hand) \in {0, 1, 2}
        /\ CompareTo(hand, other) = 1 <=> Wins(Key(hand), Key(other))
        /\ CompareTo(hand, other) = 2 <=> Wins(Key(other), Key(hand))
        /\ CompareTo(hand, other) = 0 <=> \A i \in 1..6 : Key(hand)[i] = Key(other)[i]
        /\ CompareTo(other, hand) = 1 <=> Wins(Key(other), Key(hand))
        /\ CompareTo(other, hand) = 2 <=> Wins(Key(hand), Key(other))
    BY <1>1, ComparedByKeys
  <2> HIDE DEF result
  <2>2. CompareTo(other, hand) = <<0, 2, 1>>[result[other] + 1]
    <3>1. <<0, 2, 1>>[0 + 1] = 0 /\ <<0, 2, 1>>[1 + 1] = 2 /\ <<0, 2, 1>>[2 + 1] = 1
      OBVIOUS
    <3> QED
      BY <2>1, <3>1
  <2>3. result[other] = 0 <=> /\ IsFlush(hand) <=> IsFlush(other)
                              /\ \A r \in Ranks : HeldOf(hand, r) = HeldOf(other, r)
    BY <1>1, <2>1, TiesAre
  <2>4. ASSUME result[other] = 1, NEW third \in Beaten[other]
        PROVE  result[third] = 1
    <3>1. third \in Rivals /\ CompareTo(other, third) = 1
      BY <2>4 DEF Beaten
    <3>2. IsHand(third) /\ Wins(Key(hand), Key(other)) /\ Wins(Key(other), Key(third))
      BY <1>1, <2>1, <2>4, <3>1, ComparedByKeys
    <3>3. Key(hand) \in [1..6 -> Int] /\ Key(other) \in [1..6 -> Int] /\ Key(third) \in [1..6 -> Int]
      BY <1>1, <3>2, KeyIs
    <3>4. Wins(Key(hand), Key(third))
      BY <3>2, <3>3, WinsThrough
    <3> QED
      BY <1>1, <3>1, <3>2, <3>4, ComparedByKeys DEF result
  <2> QED
    BY <2>2, <2>3, <2>4
<1>3. Evaluate(hand) = ByPairs(hand)
  BY <1>1, EvaluateIs
<1> QED
  BY <1>2, <1>3 DEF HandsAreOrdered

LEMMA HandDealt == PokerTypeOK /\ [Deal]_hand => PokerTypeOK'
<1> SUFFICES ASSUME PokerTypeOK, [Deal]_hand PROVE PokerTypeOK'
  OBVIOUS
<1>1. CASE UNCHANGED hand
  BY <1>1 DEF PokerTypeOK, IsHand, NoHand
<1>2. CASE Deal
  <2>1. PICK at \in [1..5 -> DOMAIN Deck] :
           (\A i \in 2..5 : at[i - 1] < at[i]) /\ hand' = [i \in 1..5 |-> Deck[at[i]]]
    BY <1>2 DEF Deal, HandSize
  <2>2. IsInjective(Deck) /\ DOMAIN Deck \subseteq Nat /\ \A i \in DOMAIN Deck : Deck[i] \in ToSet(Deck)
    BY DeckAssumption DEF ToSet
  <2>3. at[1] < at[2] /\ at[2] < at[3] /\ at[3] < at[4] /\ at[4] < at[5]
    BY <2>1
  <2>4. \A i, j \in 1..5 : at[i] = at[j] => i = j
    <3>1. at[1] \in Nat /\ at[2] \in Nat /\ at[3] \in Nat /\ at[4] \in Nat /\ at[5] \in Nat
      BY <2>2
    <3>2. \A i \in 1..5 : i = 1 \/ i = 2 \/ i = 3 \/ i = 4 \/ i = 5
      OBVIOUS
    <3> QED
      BY <2>3, <3>1, <3>2
  <2>5. hand' \in [1..5 -> ToSet(Deck)] /\ \A i \in 1..5 : hand'[i] = Deck[at[i]] /\ at[i] \in DOMAIN Deck
    BY <2>1, <2>2
  <2>6. \A i, j \in 1..5 : hand'[i] = hand'[j] => i = j
    BY <2>2, <2>4, <2>5 DEF IsInjective
  <2>7. IsInjective(hand')
    BY <2>5, <2>6 DEF IsInjective
  <2>8. IsHand(hand)'
    BY <2>5, <2>7 DEF IsHand, HandSize, IsInjective
  <2> QED
    BY <2>8 DEF PokerTypeOK
<1> QED
  BY <1>1, <1>2

\* Hands are ranked as their cards are, the comparison never contradicts itself
\* and only equal hands tie (hand.py:47-86).
THEOREM HandsStayOrdered == PokerSpec => [](PokerTypeOK /\ HandsAreOrdered)
<1>1. PokerInit => PokerTypeOK
  BY DEF PokerInit, PokerTypeOK
<1>2. PokerSpec => []PokerTypeOK
  BY <1>1, HandDealt, PTL DEF PokerSpec
<1> QED
  BY <1>2, HandsOrdered, PTL

-----------------------------------------------------------------------------
\* Listings and posts, rows filtered before and after they are sorted, nodes
\* and the sequence built, alerts and statistics agree: two ways to look at
\* the same data never tell different things (blog.py, query.py,
\* linked_list.py, station.py).
THEOREM ViewsStayAgreed == ViewsSpec => []ViewsAgree
<1>1. ListingsAgree /\ FiltersKeepOrder /\ ChainIsSequence /\ AlertsMatchStatistics => ViewsAgree
  BY DEF ViewsAgree
<1> QED
  BY <1>1, ListingsStayAgreed, FiltersStayInOrder, ChainStaysSequence, AlertsStayTrue, PTL DEF ViewsSpec

\* The path of a walker is a shortest one, and there is none only when the
\* exit cannot be reached (walker.py); hands rank as their cards do, and of
\* two the same one wins whoever is asked (hand.py).
THEOREM SearchesStayExact == SearchesSpec => []SearchesAreExact
<1>1. ShortestFound /\ HandsAreOrdered => SearchesAreExact
  BY DEF SearchesAreExact
<1> QED
  BY <1>1, PathsStayShortest, HandsStayOrdered, PTL DEF SearchesSpec
=============================================================================
