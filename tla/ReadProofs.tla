----------------------------- MODULE ReadProofs -----------------------------
(***************************************************************************)
(* Proofs about what peers read of the device.  A range of a log holds the *)
(* records that were logged, in their order, for any length of the log and *)
(* whatever happened to it; and all ways to read an object, each property  *)
(* alone, all together, an array by its elements, agree for every type.    *)
(***************************************************************************)
EXTENDS DeviceProofs

-----------------------------------------------------------------------------
(* The ring of a log: its records are those that were logged, in order. *)
RingFields == {"entries", "index", "count", "total", "history"}
Counting(log) ==
    /\ log.count \in 0 .. TL_MAX_ENTRIES /\ log.index \in 0 .. TL_MAX_ENTRIES - 1
    /\ log.count < TL_MAX_ENTRIES => log.index = log.count
    /\ log.total \in 0 .. SequenceRange - 1
\* Of the history it matters only what it has at each index.
Remembers(log) ==
    /\ log.history \in Seq({log.history[k] : k \in DOMAIN log.history})
    /\ Len(log.history) = log.count
    /\ DOMAIN log.entries = 0 .. TL_MAX_ENTRIES - 1
    /\ \A k \in 1 .. log.count : TL_encode_entry(log, k) = log.history[k]
\* Nothing is dated later than now, and nothing before what precedes it.
Dated(log, at) ==
    /\ \A k \in 1 .. log.count : log.history[k][1] \in Nat /\ log.history[k][1] <= at
    /\ \A j, k \in 1 .. log.count : j <= k => log.history[j][1] <= log.history[k][1]
RingOK(log, at) ==
    /\ RingFields \subseteq DOMAIN log
    /\ Counting(log) /\ Remembers(log) /\ Dated(log, at)
RingsOK(tl, at) ==
    /\ DOMAIN tl = Trend_Log_Instances
    /\ \A n \in Trend_Log_Instances : RingOK(tl[n], at)

LEMMA OwnElements ==
  ASSUME NEW S, NEW h, h \in Seq(S)
  PROVE  h \in Seq({h[k] : k \in DOMAIN h})
  <1>1. /\ Len(h) \in Nat /\ DOMAIN h = 1 .. Len(h)
        /\ h = [k \in 1 .. Len(h) |-> h[k]]
    OBVIOUS
  <1>2. PICK T : T = {h[k] : k \in DOMAIN h} OBVIOUS
  <1>3. h \in [1 .. Len(h) -> T] BY <1>1, <1>2
  <1> QED BY <1>1, <1>2, <1>3

LEMMA LogSizes ==
  /\ TL_MAX_ENTRIES \in Nat \ {0} /\ SequenceRange \in Nat
  /\ SequenceRange > 10 * TL_MAX_ENTRIES
  BY TrendLogAssumption

\* Where an entry is.
LEMMA EntryPlace ==
  ASSUME NEW log, Counting(log), NEW k \in 1 .. TL_MAX_ENTRIES
  PROVE  TL_encode_entry(log, k)
            = log.entries[IF log.count < TL_MAX_ENTRIES THEN k - 1
                          ELSE IF log.index + k - 1 < TL_MAX_ENTRIES THEN log.index + k - 1
                          ELSE log.index + k - 1 - TL_MAX_ENTRIES]
  <1>1. PICK m : m = TL_MAX_ENTRIES OBVIOUS
  <1>2. m \in Nat \ {0} BY <1>1, LogSizes
  <1>3. PICK i \in 0 .. m - 1 : i = log.index BY <1>1 DEF Counting
  <1>4. CASE log.count < m
    <2>1. k - 1 \in 0 .. (2 * m) - 1 /\ k - 1 < m BY <1>1, <1>2
    <2>2. (k - 1) % m = k - 1 BY <1>2, <2>1, RemainderBelow
    <2> QED BY <1>1, <1>4, <2>2 DEF TL_encode_entry
  <1>5. CASE ~(log.count < m)
    <2>1. PICK x \in 0 .. (2 * m) - 1 : x = i + k - 1 BY <1>1, <1>2, <1>3
    <2>2. x % m = IF x < m THEN x ELSE x - m BY <1>2, RemainderBelow
    <2>3. TL_encode_entry(log, k) = log.entries[x % m]
      BY <1>1, <1>3, <1>5, <2>1, Zenon DEF TL_encode_entry
    <2>4. PICK y : y = x % m OBVIOUS
    <2>5. y = IF i + k - 1 < m THEN i + k - 1 ELSE i + k - 1 - m
      BY <1>1, <1>2, <2>1, <2>2, <2>4
    <2>6. PICK z : z = IF log.count < TL_MAX_ENTRIES THEN k - 1
                       ELSE IF log.index + k - 1 < TL_MAX_ENTRIES THEN log.index + k - 1
                       ELSE log.index + k - 1 - TL_MAX_ENTRIES
      OBVIOUS
    <2>7. z = y BY <1>1, <1>2, <1>3, <1>5, <2>5, <2>6
    <2> QED BY <2>3, <2>4, <2>6, <2>7, Zenon
  <1> QED BY <1>4, <1>5

\* One more record, in a log that is not full or in the place of its oldest.
LEMMA RecordedOK ==
  ASSUME NEW at \in Nat, NEW log, RingOK(log, at),
         NEW record, record[1] \in Nat, at <= record[1], NEW after, after = Recorded(log, record)
  PROVE  RingOK(after, record[1]) /\ DOMAIN after = DOMAIN log
  <1> DEFINE m == TL_MAX_ENTRIES
             i == log.index
             c == log.count
             h == log.history
             full == Append(h, record)
  <1>1. m \in Nat \ {0} /\ SequenceRange \in Nat \ {0} BY LogSizes
  <1>2. /\ c \in 0 .. m /\ i \in 0 .. m - 1 /\ (c < m => i = c) /\ log.total \in Nat
        /\ Counting(log)
    BY DEF RingOK, Counting
  <1>3. /\ RingFields \subseteq DOMAIN log
        /\ h \in Seq({h[k] : k \in DOMAIN h}) /\ Len(h) = c /\ DOMAIN log.entries = 0 .. m - 1
    BY DEF RingOK, Remembers
  <1>4. \A k \in 1 .. c : TL_encode_entry(log, k) = h[k] BY DEF RingOK, Remembers
  <1>5. /\ \A k \in 1 .. c : h[k][1] \in Nat /\ h[k][1] <= at
        /\ \A j, k \in 1 .. c : j <= k => h[j][1] <= h[k][1]
    BY DEF RingOK, Dated
  <1>6. /\ DOMAIN after = DOMAIN log
        /\ after.entries = [log.entries EXCEPT ![i] = record]
        /\ after.index = IF i + 1 >= m THEN 0 ELSE i + 1
        /\ after.total = (log.total + 1) % SequenceRange
        /\ after.count = IF c < m THEN c + 1 ELSE c
        /\ after.history = Newest(full)
    BY <1>3, Zenon DEF Recorded, RingFields
  <1>7. /\ after.count \in 1 .. m /\ after.index \in 0 .. m - 1
        /\ after.count < m => after.index = after.count
    BY <1>1, <1>2, <1>6
  <1>8. after.total \in 0 .. SequenceRange - 1
    <2>1. log.total + 1 \in Nat BY <1>2
    <2> QED BY <1>1, <1>6, <2>1, DivisionExists
  <1>9. Counting(after) BY <1>7, <1>8, <1>1 DEF Counting
  <1>10. PICK S : h \in Seq(S) /\ record \in S
    <2>1. PICK T : h \in Seq(T) BY <1>3
    <2>2. h \in Seq(T \cup {record})
      <3> HIDE DEF h
      <3> QED BY <2>1
    <2> QED BY <2>2
  <1>11. /\ full \in Seq(S) /\ Len(full) = c + 1 /\ full[c + 1] = record
         /\ \A k \in 1 .. c : full[k] = h[k]
    <2> HIDE DEF h, c
    <2> QED BY <1>3, <1>10
  \* the history is the newest of these, and the ring has them
  <1>12. PICK skipped \in {0, 1} :
            /\ skipped = IF c < m THEN 0 ELSE 1
            /\ after.history \in Seq(S) /\ Len(after.history) = after.count
            /\ after.count + skipped = c + 1
            /\ \A k \in 1 .. after.count : after.history[k] = full[k + skipped]
    <2>1. CASE c < m
      <3>1. after.history = full BY <1>1, <1>2, <1>6, <1>11, <2>1 DEF Newest
      <3>2. after.count = c + 1 BY <1>6, <2>1
      <3> HIDE DEF full
      <3>3. \A k \in 1 .. after.count : after.history[k] = full[k + 0] BY <3>1, <1>2, <3>2
      <3> QED BY <1>2, <1>11, <2>1, <3>1, <3>2, <3>3
    <2>2. CASE c = m
      <3>1. ~(Len(full) <= m) BY <1>1, <1>11, <2>2
      <3>2. after.history = Tail(full) BY <1>6, <3>1 DEF Newest
      <3>3. after.count = c BY <1>1, <1>6, <2>2
      <3> HIDE DEF full, c, m
      <3>4. full # << >> /\ c \in Nat BY <1>2, <1>11, <3>1
      <3>5. Tail(full) \in Seq(S) /\ Len(Tail(full)) = c BY <1>11, <3>4
      <3>6. \A k \in 1 .. c : Tail(full)[k] = full[k + 1] BY <1>11, <3>4
      <3>7. ~(c < m) BY <1>1, <2>2
      <3> QED BY <3>2, <3>3, <3>4, <3>5, <3>6, <3>7
    <2>3. c < m \/ c = m BY <1>1, <1>2
    <2> QED BY <2>1, <2>2, <2>3, Zenon
  <1>13. ASSUME NEW k \in 1 .. after.count
         PROVE  TL_encode_entry(after, k) = full[k + skipped]
    <2>1. k \in 1 .. m BY <1>1, <1>7
    <2>2. PICK place : place = IF after.count < m THEN k - 1
                               ELSE IF after.index + k - 1 < m THEN after.index + k - 1
                               ELSE after.index + k - 1 - m
      OBVIOUS
    <2>3. TL_encode_entry(after, k) = after.entries[place] BY <1>9, <2>1, <2>2, EntryPlace
    <2>4. CASE k + skipped = c + 1
      <3>1. place = i BY <1>1, <1>2, <1>6, <1>7, <1>12, <2>2, <2>4
      <3> QED BY <1>2, <1>3, <1>6, <1>11, <2>3, <2>4, <3>1
    <2>5. CASE k + skipped # c + 1
      <3>1. k + skipped \in 1 .. c BY <1>2, <1>7, <1>12, <2>5
      <3>2. k + skipped \in 1 .. m BY <1>1, <1>2, <3>1
      <3>3. PICK j : j = k + skipped OBVIOUS
      <3>4. TL_encode_entry(log, j)
                = log.entries[IF c < m THEN j - 1 ELSE IF i + j - 1 < m THEN i + j - 1 ELSE i + j - 1 - m]
        BY <1>2, <3>2, <3>3, EntryPlace
      <3>5. /\ place = IF c < m THEN j - 1 ELSE IF i + j - 1 < m THEN i + j - 1 ELSE i + j - 1 - m
            /\ place # i /\ place \in 0 .. m - 1
        <4>1. PICK c2, i2 : c2 = after.count /\ i2 = after.index OBVIOUS
        <4>2. /\ c2 = (IF c < m THEN c + 1 ELSE c) /\ i2 = (IF i + 1 >= m THEN 0 ELSE i + 1)
              /\ k \in 1 .. c2
          BY <1>6, <4>1
        <4>3. place = IF c2 < m THEN k - 1 ELSE IF i2 + k - 1 < m THEN i2 + k - 1 ELSE i2 + k - 1 - m
          BY <2>2, <4>1
        <4>4. j = k + skipped /\ j \in 1 .. c /\ skipped = IF c < m THEN 0 ELSE 1
          BY <1>12, <3>1, <3>3
        <4>5. c \in 0 .. m /\ i \in 0 .. m - 1 /\ (c < m => i = c) BY <1>2
        <4> HIDE DEF c, i, m
        <4>6. CASE c < m
          <5>1. j = k /\ i = c /\ c2 = c + 1 /\ k \in 1 .. c BY <1>1, <4>2, <4>4, <4>5, <4>6
          <5>2. place = k - 1
            <6>1. CASE c2 < m BY <4>3, <6>1
            <6>2. CASE ~(c2 < m)
              <7>1. i2 = 0 BY <1>1, <4>2, <4>5, <5>1, <6>2
              <7> QED BY <1>1, <4>3, <4>5, <5>1, <6>2, <7>1
            <6> QED BY <6>1, <6>2
          <5> QED BY <1>1, <4>5, <4>6, <5>1, <5>2
        <4>7. CASE ~(c < m)
          <5>1. j = k + 1 /\ c2 = m /\ c = m /\ k \in 1 .. m - 1
            BY <1>1, <4>2, <4>4, <4>5, <4>7
          <5> QED BY <1>1, <4>2, <4>3, <4>5, <4>7, <5>1
        <4> QED BY <4>6, <4>7
      <3>6. after.entries[place] = log.entries[place] BY <1>3, <1>6, <3>5
      <3>7. log.entries[place] = h[j] BY <1>4, <3>1, <3>3, <3>4, <3>5
      <3>8. full[j] = h[j] BY <1>11, <3>1, <3>3
      <3> QED BY <2>3, <3>3, <3>6, <3>7, <3>8
    <2> QED BY <2>4, <2>5
  <1>14. Remembers(after)
    <2>1. DOMAIN after.entries = 0 .. m - 1 BY <1>3, <1>6
    <2>2. after.history \in Seq({after.history[k] : k \in DOMAIN after.history})
      BY <1>12, OwnElements
    <2> QED BY <1>12, <1>13, <2>1, <2>2 DEF Remembers
  <1>15. Dated(after, record[1])
    <2>1. ASSUME NEW k \in 1 .. after.count
          PROVE  k + skipped \in 1 .. c + 1 /\ after.history[k] = full[k + skipped]
      <3>1. PICK c2 \in Nat : c2 = after.count BY <1>1, <1>7
      <3>2. c2 + skipped = c + 1 /\ k \in 1 .. c2 BY <1>12, <3>1
      <3>3. c \in Nat BY <1>1, <1>2
      <3> HIDE DEF c
      <3>4. k + skipped \in 1 .. c + 1 BY <3>2, <3>3
      <3> QED BY <1>12, <3>4 DEF c
    <2>2. /\ \A k \in 1 .. c + 1 : full[k][1] \in Nat /\ full[k][1] <= record[1]
          /\ \A j, k \in 1 .. c + 1 : j <= k => full[j][1] <= full[k][1]
      <3>1. c \in Nat BY <1>1, <1>2
      <3>2. \A k \in 1 .. c + 1 : \/ k \in 1 .. c /\ full[k] = h[k]
                                  \/ k = c + 1 /\ full[k] = record
        BY <1>11, <3>1
      <3> HIDE DEF full, h, c
      <3> QED BY <1>5, <3>1, <3>2
    <2>3. \A j, k \in 1 .. after.count : j <= k => j + skipped <= k + skipped BY <1>12
    <2> HIDE DEF full, h, c
    <2> QED BY <2>1, <2>2, <2>3 DEF Dated
  <1>16. RingFields \subseteq DOMAIN after BY <1>3, <1>6
  <1> QED BY <1>6, <1>9, <1>14, <1>15, <1>16 DEF RingOK

\* What changes a log's settings only.
SameRing(log, r) == DOMAIN r = DOMAIN log /\ \A f \in RingFields : r[f] = log[f]

LEMMA RingKept ==
  ASSUME NEW at \in Nat, NEW log, RingOK(log, at), NEW r, SameRing(log, r),
         NEW time \in Nat, at <= time
  PROVE  RingOK(r, time)
  <1>1. /\ r.entries = log.entries /\ r.index = log.index /\ r.count = log.count
        /\ r.total = log.total /\ r.history = log.history /\ RingFields \subseteq DOMAIN r
    BY DEF SameRing, RingFields, RingOK
  <1>2. Counting(r) BY <1>1 DEF RingOK, Counting
  <1>3. Remembers(r)
    <2>1. \A k : TL_encode_entry(r, k) = TL_encode_entry(log, k) BY <1>1 DEF TL_encode_entry
    <2> QED BY <1>1, <2>1 DEF RingOK, Remembers
  <1>4. Dated(r, time)
    <2>1. /\ \A k \in 1 .. log.count : log.history[k][1] \in Nat /\ log.history[k][1] <= at
          /\ \A j, k \in 1 .. log.count : j <= k => log.history[j][1] <= log.history[k][1]
      BY DEF RingOK, Dated
    <2>2. \A k \in 1 .. log.count : log.history[k][1] <= time BY <2>1
    <2> QED BY <1>1, <2>1, <2>2 DEF Dated
  <1> QED BY <1>1, <1>2, <1>3, <1>4 DEF RingOK

LEMMA SettingKept ==
  ASSUME NEW log, NEW f, f \notin RingFields, NEW v
  PROVE  SameRing(log, [log EXCEPT ![f] = v])
  BY DEF SameRing

LEMMA StatusOK ==
  ASSUME NEW at \in Nat, NEW log, RingOK(log, at), NEW time \in Nat, at <= time, NEW status
  PROVE  RingOK(TL_Insert_Status_Rec(log, status, time), time)
  <1>1. PICK record : record = << time, << "status", status >>, NoFlags >> OBVIOUS
  <1>2. record[1] = time BY <1>1
  <1>3. TL_Insert_Status_Rec(log, status, time) = Recorded(log, record)
    BY <1>1 DEF TL_Insert_Status_Rec
  <1> QED BY <1>2, <1>3, RecordedOK

LEMMA PurgedOK ==
  ASSUME NEW at \in Nat, NEW log, RingOK(log, at), NEW time \in Nat, at <= time
  PROVE  RingOK(Purged(log, time), time)
  <1>1. PICK empty : empty = [log EXCEPT !.count = 0, !.index = 0, !.history = << >>] OBVIOUS
  <1>2. /\ empty.entries = log.entries /\ empty.index = 0 /\ empty.count = 0
        /\ empty.total = log.total /\ empty.history = << >> /\ DOMAIN empty = DOMAIN log
    BY <1>1 DEF RingOK, RingFields
  <1>3. Counting(empty) BY <1>2, LogSizes DEF RingOK, Counting
  <1>4. Remembers(empty)
    <2>1. << >> \in Seq({<< >>[k] : k \in DOMAIN << >>}) /\ Len(<< >>) = 0 OBVIOUS
    <2> QED BY <1>2, <2>1 DEF RingOK, Remembers
  <1>5. Dated(empty, at) BY <1>2 DEF Dated
  <1>6. RingOK(empty, at) BY <1>2, <1>3, <1>4, <1>5 DEF RingOK
  <1>7. Purged(log, time) = TL_Insert_Status_Rec(empty, "buffer_purged", time) BY <1>1 DEF Purged
  <1> QED BY <1>6, <1>7, StatusOK

LEMMA SwitchedOK ==
  ASSUME NEW at \in Nat, NEW log, RingOK(log, at), NEW time \in Nat, at <= time,
         NEW after, SameRing(log, after)
  PROVE  RingOK(Switched(log, after, time), time)
  <1>1. RingOK(after, time) BY RingKept
  <1>2. \/ Switched(log, after, time) = after
        \/ \E status : Switched(log, after, time) = TL_Insert_Status_Rec(after, status, time)
    BY DEF Switched
  <1> QED BY <1>1, <1>2, StatusOK

LEMMA LogWrittenOK ==
  ASSUME NEW at \in Nat, NEW log, RingOK(log, at), NEW time \in Nat, at <= time,
         NEW wp, NEW device
  PROVE  RingOK(LogWritten(log, wp, device, time).after, time)
  <1> DEFINE v == wp.value[2]
  <1>0. PICK w : w = LogWritten(log, wp, device, time) OBVIOUS
  <1>a. SameRing(log, log) BY DEF SameRing
  <1>b. RingOK(log, time) BY <1>a, RingKept
  <1>c. /\ \A f \in {"enable", "stopWhenFull", "type", "interval", "aligned", "offset", "trigger",
                     "start", "stop", "source"} : f \notin RingFields
    BY DEF RingFields
  <1>1. CASE \E code : w = Refused(log, code)
    <2>1. w.after = log BY <1>1 DEF Refused
    <2> QED BY <1>0, <1>b, <2>1
  <1>2. ASSUME NEW r, w = Done(r), RingOK(r, time) PROVE RingOK(w.after, time)
    BY <1>2 DEF Done
  <1>3. ASSUME NEW r, w = Done(r), NEW after, SameRing(log, after),
               r = after \/ r = Switched(log, after, time)
        PROVE  RingOK(w.after, time)
    <2>1. CASE r = after BY <1>2, <1>3, <2>1, RingKept
    <2>2. CASE r = Switched(log, after, time) BY <1>2, <1>3, <2>2, SwitchedOK
    <2> QED BY <1>3, <2>1, <2>2
  <1>4. CASE wp.property = "enable"
    <2>1. PICK after : after = [log EXCEPT !["enable"] = v] OBVIOUS
    <2>2. SameRing(log, after) BY <1>c, <2>1, SettingKept
    <2>3. \/ \E code : w = Refused(log, code)
          \/ w = EnableWritten(log, v, time)
      BY <1>0, <1>4, Zenon DEF LogWritten
    <2>4. \/ \E code : w = Refused(log, code)
          \/ w = Done(Switched(log, after, time))
      BY <2>1, <2>3 DEF EnableWritten
    <2> QED BY <1>0, <1>1, <1>3, <2>2, <2>4
  <1>5. CASE wp.property = "stop_when_full"
    <2>1. PICK stopping : stopping = [log EXCEPT !["stopWhenFull"] = v] OBVIOUS
    <2>2. SameRing(log, stopping) BY <1>c, <2>1, SettingKept
    <2>3. PICK stopped : stopped = [stopping EXCEPT !["enable"] = FALSE] OBVIOUS
    <2>4. SameRing(stopping, stopped) BY <1>c, <2>3, SettingKept
    <2>5. PICK r : r = StopWhenFullWritten(log, v, time) OBVIOUS
    <2>6. \/ \E code : w = Refused(log, code)
          \/ w = Done(r)
      BY <1>0, <1>5, <2>5, Zenon DEF LogWritten
    <2>7. r = stopping \/ r = TL_Insert_Status_Rec(stopped, "log_disabled", time)
      BY <2>1, <2>3, <2>5 DEF StopWhenFullWritten
    <2>8. RingOK(stopping, time) /\ RingOK(stopped, time) BY <2>2, <2>4, RingKept DEF SameRing
    <2>9. RingOK(r, time) BY <2>7, <2>8, StatusOK
    <2> QED BY <1>0, <1>1, <1>2, <2>6, <2>9
  <1>6. CASE wp.property = "record_count"
    <2>1. PICK r : r = IF v = 0 THEN Purged(log, time) ELSE log OBVIOUS
    <2>2. \/ \E code : w = Refused(log, code)
          \/ w = Done(r)
      BY <1>0, <1>6, <2>1, Zenon DEF LogWritten
    <2>3. RingOK(r, time) BY <1>b, <2>1, PurgedOK
    <2> QED BY <1>0, <1>1, <1>2, <2>2, <2>3
  <1>7. CASE wp.property = "logging_type"
    <2>1. PICK r : r = TypeWritten(log, v) OBVIOUS
    <2>2. \/ \E code : w = Refused(log, code)
          \/ w = Done(r)
      BY <1>0, <1>7, <2>1, Zenon DEF LogWritten
    <2>3. SameRing(log, r) BY <2>1 DEF TypeWritten, SameRing, RingFields
    <2> QED BY <1>0, <1>1, <1>3, <2>2, <2>3
  <1>8. CASE wp.property = "start_time"
    <2>1. PICK after : after = [log EXCEPT !["start"] = v] OBVIOUS
    <2>2. \/ \E code : w = Refused(log, code)
          \/ w = Done(Switched(log, after, time))
      BY <1>0, <1>8, <2>1, Zenon DEF LogWritten
    <2>3. SameRing(log, after) BY <1>c, <2>1, SettingKept
    <2> QED BY <1>0, <1>1, <1>3, <2>2, <2>3
  <1>9. CASE wp.property = "stop_time"
    <2>1. PICK after : after = [log EXCEPT !["stop"] = v] OBVIOUS
    <2>2. \/ \E code : w = Refused(log, code)
          \/ w = Done(Switched(log, after, time))
      BY <1>0, <1>9, <2>1, Zenon DEF LogWritten
    <2>3. SameRing(log, after) BY <1>c, <2>1, SettingKept
    <2> QED BY <1>0, <1>1, <1>3, <2>2, <2>3
  <1>10. CASE wp.property = "log_device_object_property"
    <2>1. PICK source : source = SubSeq(wp.value[2], 1, 4) OBVIOUS
    <2>2. PICK from : from = IF source # log.source THEN Purged(log, time) ELSE log OBVIOUS
    <2>3. PICK r : r = [from EXCEPT !["source"] = source] OBVIOUS
    <2>4. w = SourceWritten(log, wp, device, time) BY <1>0, <1>10, Zenon DEF LogWritten
    <2>5. \/ \E code : w = Refused(log, code)
          \/ w = Done(r)
      BY <2>1, <2>2, <2>3, <2>4 DEF SourceWritten
    <2>6. RingOK(from, time) BY <1>b, <2>2, PurgedOK
    <2>7. SameRing(from, r) BY <1>c, <2>3, SettingKept
    <2>8. RingOK(r, time) BY <2>6, <2>7, RingKept
    <2> QED BY <1>0, <1>1, <1>2, <2>5, <2>8
  <1>11. CASE wp.property = "log_interval"
    <2>1. PICK after : after = [log EXCEPT !["interval"] = v \div 100] OBVIOUS
    <2>2. \/ \E code : w = Refused(log, code)
          \/ w = Done(after)
      BY <1>0, <1>11, <2>1, Zenon DEF LogWritten
    <2>3. SameRing(log, after) BY <1>c, <2>1, SettingKept
    <2> QED BY <1>0, <1>1, <1>3, <2>2, <2>3
  <1>12. CASE wp.property = "align_intervals"
    <2>1. PICK after : after = [log EXCEPT !["aligned"] = v] OBVIOUS
    <2>2. \/ \E code : w = Refused(log, code)
          \/ w = Done(after)
      BY <1>0, <1>12, <2>1, Zenon DEF LogWritten
    <2>3. SameRing(log, after) BY <1>c, <2>1, SettingKept
    <2> QED BY <1>0, <1>1, <1>3, <2>2, <2>3
  <1>13. CASE wp.property = "interval_offset"
    <2>1. PICK after : after = [log EXCEPT !["offset"] = v \div 100] OBVIOUS
    <2>2. \/ \E code : w = Refused(log, code)
          \/ w = Done(after)
      BY <1>0, <1>13, <2>1, Zenon DEF LogWritten
    <2>3. SameRing(log, after) BY <1>c, <2>1, SettingKept
    <2> QED BY <1>0, <1>1, <1>3, <2>2, <2>3
  <1>14. CASE wp.property = "trigger"
    <2>1. PICK after : after = [log EXCEPT !["trigger"] = v] OBVIOUS
    <2>2. \/ \E code : w = Refused(log, code)
          \/ w = Done(after)
      BY <1>0, <1>14, <2>1, Zenon DEF LogWritten
    <2>3. SameRing(log, after) BY <1>c, <2>1, SettingKept
    <2> QED BY <1>0, <1>1, <1>3, <2>2, <2>3
  <1>15. CASE wp.property \notin {"enable", "stop_when_full", "record_count", "logging_type",
                "start_time", "stop_time", "log_device_object_property", "log_interval",
                "align_intervals", "interval_offset", "trigger"}
    <2>1. w = Refused(log, "write_access_denied") BY <1>0, <1>15, Zenon DEF LogWritten
    <2> QED BY <1>0, <1>1, <2>1
  <1>16. RingOK(w.after, time)
    BY <1>0, <1>4, <1>5, <1>6, <1>7, <1>8, <1>9, <1>10, <1>11, <1>12, <1>13, <1>14, <1>15
  <1> QED BY <1>0, <1>16

\* Of all that a write can do, this is what it does to logs.
LEMMA ServiceLogs ==
  ASSUME NEW o, Formed(o), NEW wp, NEW time, NEW segmented, NEW w,
         w = handler_write_property(o, time, wp, segmented)
  PROVE  \/ w.after["tl"] = o["tl"]
         \/ \E n \in Trend_Log_Instances : \E device :
                w.after["tl"] = [o["tl"] EXCEPT ![n] = LogWritten(@, wp, device, time).after]
  <1>1. CASE w.after = o BY <1>1
  <1>2. CASE /\ Device_Objects_Find_Functions(wp.type)
             /\ Object_Valid_Instance(o.device, wp.type, wp.instance)
             /\ w = Device_Write_Property(o, time, wp)
    <2>1. PICK written : written = Object_Write_Property(o, time, wp) OBVIOUS
    <2>2. w.after = [o EXCEPT ![wp.type] = written.after]
      BY <1>2, <2>1 DEF Device_Write_Property
    <2>3. "tl" \in DOMAIN o BY DEF Formed, Types
    <2>4. CASE wp.type # "tl" BY <2>2, <2>3, <2>4
    <2>5. CASE wp.type = "tl"
      <3>1. Object_Instances(o.device, "tl") = Trend_Log_Instances BY Zenon DEF Object_Instances
      <3>2. wp.instance \in Trend_Log_Instances BY <1>2, <2>5, <3>1 DEF Object_Valid_Instance
      <3>3. written = Trend_Log_Write_Property(o["tl"], wp, o["device"].instance, time)
        BY <2>1, <2>5, OtherWriteFunctions
      <3>4. written.after = [o["tl"] EXCEPT ![wp.instance] =
                                LogWritten(@, wp, o["device"].instance, time).after]
        BY <3>3 DEF Trend_Log_Write_Property
      <3>5. w.after["tl"] = written.after BY <2>2, <2>3, <2>5
      <3> QED BY <3>2, <3>4, <3>5
    <2> QED BY <2>4, <2>5
  <1>3. \/ w.after = o
        \/ /\ Device_Objects_Find_Functions(wp.type)
           /\ Object_Valid_Instance(o.device, wp.type, wp.instance)
           /\ w = Device_Write_Property(o, time, wp)
    BY DEF handler_write_property, Device_Write_Property, Refused
  <1> QED BY <1>1, <1>2, <1>3

LEMMA PolledOK ==
  ASSUME NEW at \in Nat, NEW tl, RingsOK(tl, at), NEW values, NEW flags
  PROVE  RingsOK(trend_log_timer(tl, at, values, flags), at)
  <1>1. PICK after : after = trend_log_timer(tl, at, values, flags) OBVIOUS
  <1>2. DOMAIN after = DOMAIN tl BY <1>1, Zenon DEF trend_log_timer
  <1>3. ASSUME NEW n \in Trend_Log_Instances PROVE RingOK(after[n], at)
    <2>1. PICK log : log = tl[n] OBVIOUS
    <2>2. RingOK(log, at) /\ n \in DOMAIN tl BY <2>1 DEF RingsOK
    <2>3. PICK fetched : fetched = TL_fetch_property(log, at, values[n], flags[n]) OBVIOUS
    <2>4. PICK stamped : stamped = [log EXCEPT !["last"] = at] OBVIOUS
    <2>5. RingOK(stamped, at)
      <3>1. SameRing(log, stamped) BY <2>4, SettingKept DEF RingFields
      <3> QED BY <2>2, <3>1, RingKept
    <2>6. RingOK(fetched, at)
      <3>0. \E datum, f : fetched = Recorded(stamped, << at, datum, f >>)
        BY <2>3, <2>4, Zenon DEF TL_fetch_property
      <3>1. PICK record : record[1] = at /\ fetched = Recorded(stamped, record)
        BY <3>0
      <3> QED BY <2>5, <3>1, RecordedOK
    <2>7. \/ after[n] = log
          \/ \E from \in {log, fetched} : after[n] = [from EXCEPT !["trigger"] = FALSE]
      BY <1>1, <2>1, <2>2, <2>3 DEF trend_log_timer
    <2>8. ASSUME NEW from, RingOK(from, at) PROVE RingOK([from EXCEPT !["trigger"] = FALSE], at)
      <3>1. SameRing(from, [from EXCEPT !["trigger"] = FALSE]) BY SettingKept DEF RingFields
      <3> QED BY <2>8, <3>1, RingKept
    <2> QED BY <2>2, <2>6, <2>7, <2>8
  <1> QED BY <1>1, <1>2, <1>3 DEF RingsOK

RingInv == now \in Nat /\ RingsOK(objects["tl"], now)

LEMMA RingInit == DeviceServerInit => RingInv
  <1> SUFFICES ASSUME DeviceServerInit PROVE RingInv OBVIOUS
  <1> DEFINE m == TL_MAX_ENTRIES
  <1>1. objects["tl"] = Trend_Log_Init /\ now = Started
    BY Zenon DEF DeviceServerInit, Device_Init
  <1>2. Started \in Nat /\ Started > m * DefaultInterval BY DeviceServerAssumption
  <1>3. m \in Nat \ {0} /\ DefaultInterval \in Nat \ {0} BY TrendLogAssumption
  <1>4. DOMAIN Trend_Log_Init = Trend_Log_Instances BY Zenon DEF Trend_Log_Init
  <1>5. ASSUME NEW n \in Trend_Log_Instances PROVE RingOK(Trend_Log_Init[n], Started)
    <2>1. PICK log : log = Trend_Log_Init[n] OBVIOUS
    <2>2. PICK h : h = SampleRecords(n) OBVIOUS
    <2>3. /\ RingFields \subseteq DOMAIN log /\ log.history = h
          /\ log.entries = [e \in 0 .. m - 1 |-> h[e + 1]]
          /\ log.index = 0 /\ log.count = m /\ log.total = 10 * m
      BY <2>1, <2>2, Zenon DEF Trend_Log_Init, RingFields
    <2>4. Counting(log) BY <1>3, <2>3, LogSizes DEF Counting
    <2>5. /\ DOMAIN h = 1 .. m /\ h = [j \in 1 .. m |-> h[j]]
          /\ \A j \in 1 .. m : h[j][1] = j * DefaultInterval
      BY <2>2 DEF SampleRecords
    <2>6. Remembers(log)
      <3>1. PICK T : T = {h[k] : k \in DOMAIN h} OBVIOUS
      <3>2. h \in Seq(T) /\ Len(h) = m BY <1>3, <2>5, <3>1
      <3>3. ASSUME NEW k \in 1 .. m PROVE TL_encode_entry(log, k) = h[k]
        <4>1. TL_encode_entry(log, k) = log.entries[k - 1]
          <5>1. PICK place : place = IF log.count < TL_MAX_ENTRIES THEN k - 1
                          ELSE IF log.index + k - 1 < TL_MAX_ENTRIES THEN log.index + k - 1
                          ELSE log.index + k - 1 - TL_MAX_ENTRIES
            OBVIOUS
          <5>2. TL_encode_entry(log, k) = log.entries[place] BY <2>4, <5>1, EntryPlace
          <5>3. place = k - 1 BY <1>3, <2>3, <5>1
          <5> QED BY <5>2, <5>3
        <4>2. k - 1 \in 0 .. m - 1 /\ (k - 1) + 1 = k BY <1>3
        <4> QED BY <2>3, <4>1, <4>2
      <3> QED BY <2>3, <3>1, <3>2, <3>3 DEF Remembers
    <2>7. Dated(log, Started)
      <3>1. PICK d : d = DefaultInterval OBVIOUS
      <3>2. ASSUME NEW j \in 1 .. m, NEW k \in 1 .. m, j <= k PROVE j * d <= k * d
        BY <1>3, <3>1, <3>2
      <3>3. ASSUME NEW k \in 1 .. m PROVE k * d \in Nat /\ k * d <= Started
        <4>1. k * d <= m * d BY <1>3, <3>2
        <4>2. k * d \in Nat /\ m * d \in Nat BY <1>3, <3>1
        <4> QED BY <1>2, <3>1, <4>1, <4>2
      <3> QED BY <2>3, <2>5, <3>1, <3>2, <3>3 DEF Dated
    <2> QED BY <2>1, <2>3, <2>4, <2>6, <2>7 DEF RingOK
  <1> QED BY <1>1, <1>2, <1>4, <1>5 DEF RingInv, RingsOK

LEMMA RingsLater ==
  ASSUME NEW at \in Nat, NEW tl, RingsOK(tl, at), NEW time \in Nat, at <= time
  PROVE  RingsOK(tl, time)
  BY RingKept DEF RingsOK, SameRing

LEMMA RingNext == Shape /\ RingInv /\ [DeviceServerNext]_deviceVars => RingInv'
  <1> SUFFICES ASSUME Shape, RingInv, [DeviceServerNext]_deviceVars
               PROVE  RingInv'
    OBVIOUS
  <1>a. /\ Formed(objects) /\ "tl" \in DOMAIN objects
        /\ now \in Nat /\ RingsOK(objects["tl"], now)
    BY DEF Shape, RingInv, Formed, Types
  <1>b. ASSUME objects'["tl"] = objects["tl"], now' \in Nat, now <= now'
        PROVE  RingInv'
    BY <1>a, <1>b, RingsLater DEF RingInv
  <1>c. ASSUME NEW T, T # "tl", NEW v, objects' = [objects EXCEPT ![T] = v], now' = now
        PROVE  RingInv'
    <2>1. objects'["tl"] = objects["tl"] BY <1>a, <1>c
    <2> QED BY <1>a, <1>b, <1>c, <2>1
  <1>1. ASSUME NEW wp, NEW segmented, Answers(wp, segmented) PROVE RingInv'
    <2>1. PICK w : w = handler_write_property(objects, now, wp, segmented) OBVIOUS
    <2>2. objects' = w.after /\ now' = now BY <1>1, <2>1 DEF Answers
    <2>3. CASE w.after["tl"] = objects["tl"] BY <1>a, <1>b, <2>2, <2>3
    <2>4. CASE \E n \in Trend_Log_Instances : \E device :
                  w.after["tl"] = [objects["tl"] EXCEPT ![n] = LogWritten(@, wp, device, now).after]
      <3>1. PICK n \in Trend_Log_Instances : \E device :
                  w.after["tl"] = [objects["tl"] EXCEPT ![n] = LogWritten(@, wp, device, now).after]
        BY <2>4
      <3>a. PICK device :
                  w.after["tl"] = [objects["tl"] EXCEPT ![n] = LogWritten(@, wp, device, now).after]
        BY <3>1
      <3>2. PICK tl : tl = objects["tl"] OBVIOUS
      <3>3. PICK r : r = LogWritten(tl[n], wp, device, now).after OBVIOUS
      <3>4. DOMAIN tl = Trend_Log_Instances /\ \A k \in Trend_Log_Instances : RingOK(tl[k], now)
        BY <1>a, <3>2 DEF RingsOK
      <3>5. RingOK(r, now) BY <1>a, <3>3, <3>4, LogWrittenOK
      <3>6. objects'["tl"] = [tl EXCEPT ![n] = r] BY <2>2, <3>a, <3>2, <3>3
      <3>7. RingsOK(objects'["tl"], now) BY <3>4, <3>5, <3>6 DEF RingsOK
      <3> QED BY <1>a, <2>2, <3>7 DEF RingInv
    <2> QED BY <1>a, <2>1, <2>3, <2>4, ServiceLogs
  <1>2. CASE WriteProperty BY <1>1, <1>2 DEF WriteProperty
  <1>3. CASE WriteSegmented
    <2>1. \E segmented : Answers(NoRequest, segmented) BY <1>3, Zenon DEF WriteSegmented
    <2> QED BY <1>1, <2>1
  <1>4. CASE AtomicWriteFile
    <2>1. PICK v : objects' = [objects EXCEPT !["file"] = v] BY <1>4 DEF AtomicWriteFile
    <2> QED BY <1>4, <1>c, <2>1 DEF AtomicWriteFile
  <1>5. CASE Load_Control_Task
    <2>1. PICK s : s = Load_Control_State_Machine_Handler(objects.lc, objects.ao, now' - lag) OBVIOUS
    <2>2. objects' = [objects EXCEPT !.lc = s.lc, !.ao = s.ao] /\ now' \in {now + 1, now + 2}
      BY <1>5, <2>1 DEF Load_Control_Task
    <2>3. objects'["tl"] = objects["tl"] BY <1>a, <2>2
    <2>4. now' \in Nat /\ now <= now' BY <1>a, <2>2
    <2> QED BY <1>b, <2>3, <2>4
  <1>6. CASE Trend_Log_Task
    <2>1. PICK values, flags :
            objects' = [objects EXCEPT !["tl"] = trend_log_timer(objects["tl"], now, values, flags)]
      BY <1>6 DEF Trend_Log_Task
    <2>2. now' = now BY <1>6 DEF Trend_Log_Task
    <2>3. PICK tl : tl = objects["tl"] OBVIOUS
    <2>4. objects'["tl"] = trend_log_timer(tl, now, values, flags) BY <1>a, <2>1, <2>3
    <2>5. RingsOK(objects'["tl"], now) BY <1>a, <2>3, <2>4, PolledOK
    <2> QED BY <1>a, <2>2, <2>5 DEF RingInv
  <1>7. CASE Analog_Input_Moves
    <2>1. PICK v : objects' = [objects EXCEPT !["ai"] = v] BY <1>7 DEF Analog_Input_Moves
    <2> QED BY <1>7, <1>c, <2>1 DEF Analog_Input_Moves
  <1>8. CASE Binary_Input_Moves
    <2>1. PICK v : objects' = [objects EXCEPT !["bi"] = v] BY <1>8 DEF Binary_Input_Moves
    <2> QED BY <1>8, <1>c, <2>1 DEF Binary_Input_Moves
  <1>9. CASE Multistate_Input_Named
    <2>1. PICK v : objects' = [objects EXCEPT !["msi"] = v] BY <1>9 DEF Multistate_Input_Named
    <2> QED BY <1>9, <1>c, <2>1 DEF Multistate_Input_Named
  <1>10. CASE System_Status_Moves
    <2>1. PICK v : objects' = [objects EXCEPT !["device"] = v] BY <1>10 DEF System_Status_Moves
    <2> QED BY <1>10, <1>c, <2>1 DEF System_Status_Moves
  <1>11. CASE ClockTick
    <2>1. objects' = objects /\ now' = now + 1 BY <1>11 DEF ClockTick
    <2> QED BY <1>a, <1>b, <2>1
  <1>12. CASE UNCHANGED deviceVars
    <2>1. objects' = objects /\ now' = now BY <1>12 DEF deviceVars
    <2> QED BY <1>a, <1>b, <2>1
  <1> QED BY <1>2, <1>3, <1>4, <1>5, <1>6, <1>7, <1>8, <1>9, <1>10, <1>11, <1>12
      DEF DeviceServerNext

\* The room that is left after each entry, whatever the entries take.
RoomLeft(g, log, first, last, room) ==
    g = [e \in first - 1 .. last |->
            IF e = first - 1 THEN room ELSE g[e - 1] - EntryOctets(TL_encode_entry(log, e))]

LEMMA RoomLeftExists ==
  ASSUME NEW log, NEW first \in Nat, NEW last \in Nat, first <= last, NEW room
  PROVE  \E g : RoomLeft(g, log, first, last, room)
  <1> DEFINE Bad == {m \in Nat : ~ \E g : RoomLeft(g, log, first, first - 1 + m, room)}
             Next(left, e) == left - EntryOctets(TL_encode_entry(log, e))
  <1>1. \E g : RoomLeft(g, log, first, first - 1 + 0, room)
    <2> DEFINE g == [e \in first - 1 .. first - 1 |-> room]
    <2>1. RoomLeft(g, log, first, first - 1, room) BY DEF RoomLeft
    <2>2. first - 1 + 0 = first - 1 OBVIOUS
    <2> QED BY <2>1, <2>2
  <1>2. ASSUME NEW m \in Nat, NEW g, RoomLeft(g, log, first, first - 1 + m, room)
        PROVE  \E h : RoomLeft(h, log, first, first + m, room)
    <2> DEFINE h == [e \in first - 1 .. first + m |->
                        IF e = first - 1 THEN room ELSE Next(g[e - 1], e)]
    <2>1. ASSUME NEW e \in first - 1 .. first - 1 + m PROVE h[e] = g[e]
      <3>1. g[e] = IF e = first - 1 THEN room ELSE Next(g[e - 1], e)
        BY <1>2 DEF RoomLeft
      <3>2. e \in first - 1 .. first + m OBVIOUS
      <3> HIDE DEF Next
      <3> QED BY <3>1, <3>2
    <2>2. h = [e \in first - 1 .. first + m |->
                  IF e = first - 1 THEN room ELSE Next(h[e - 1], e)]
      <3>1. ASSUME NEW e \in first - 1 .. first + m, e # first - 1 PROVE g[e - 1] = h[e - 1]
        <4>1. e - 1 \in first - 1 .. first - 1 + m BY <3>1
        <4> QED BY <2>1, <4>1
      <3> HIDE DEF Next
      <3> QED BY <3>1
    <2>3. RoomLeft(h, log, first, first + m, room) BY <2>2 DEF RoomLeft
    <2> QED BY <2>3
  <1>3. Bad = {}
    <2> SUFFICES ASSUME Bad # {} PROVE FALSE OBVIOUS
    <2>1. PICK m \in Bad : \A k \in Bad : m <= k BY LeastExists
    <2>2. m # 0 BY <1>1
    <2>3. m - 1 \in Nat /\ ~(m - 1 \in Bad) BY <2>1, <2>2
    <2>4. PICK g : RoomLeft(g, log, first, first - 1 + (m - 1), room) BY <2>3
    <2>5. \E h : RoomLeft(h, log, first, first + (m - 1), room) BY <2>3, <2>4, <1>2
    <2>6. first + (m - 1) = first - 1 + m OBVIOUS
    <2> QED BY <2>5, <2>6
  <1>4. PICK m \in Nat : first - 1 + m = last
    <2>1. last - first + 1 \in Nat /\ first - 1 + (last - first + 1) = last OBVIOUS
    <2> QED BY <2>1
  <1> QED BY <1>3, <1>4

\* What is encoded is a start of the range, the entries first to t, and never nothing.
Part(e, log, first, last, t) ==
    /\ DOMAIN e = {"items", "first", "last", "more"}
    /\ e.items = [k \in 1 .. t - first + 1 |-> TL_encode_entry(log, first + k - 1)]
    /\ e.first = (first = 1) /\ e.last = (t = log.count) /\ e.more = (t < last)

LEMMA EncodedPart ==
  ASSUME NEW log, NEW first \in Nat, NEW last \in Nat, first <= last,
         NEW room \in Int, room >= TL_MAX_ENC, NEW e, e = Encoded(log, first, last, room)
  PROVE  \E t \in first .. last : Part(e, log, first, last, t)
  <1> DEFINE Rooms == CHOOSE g : RoomLeft(g, log, first, last, room)
             Fits(d) == \A k \in first .. d : Rooms[k - 1] >= TL_MAX_ENC
             taken == {d \in first .. last : Fits(d)}
             reached == IF taken = {} THEN 0 ELSE first + Cardinality(taken) - 1
  <1>1. e = [items |-> [k \in 1 .. Cardinality(taken) |-> TL_encode_entry(log, first + k - 1)],
             first |-> first = 1, last |-> reached = log.count,
             more |-> Cardinality(taken) < last - first + 1]
    BY Zenon DEF Encoded, RoomLeft
  <1>2. RoomLeft(Rooms, log, first, last, room) BY RoomLeftExists
  <1>3. Rooms[first - 1] = room
    <2> HIDE DEF Rooms
    <2>1. first - 1 \in first - 1 .. last OBVIOUS
    <2> QED BY <1>2, <2>1, Zenon DEF RoomLeft
  <1>4. PICK t \in first .. last : taken = first .. t
    <2> HIDE DEF Rooms
    <2>1. first \in taken
      <3>1. \A k \in first .. first : k - 1 = first - 1 OBVIOUS
      <3>2. Fits(first) BY <1>3, <3>1, Zenon
      <3> QED BY <3>2
    <2>2. \A d \in taken : \A c \in first .. d : c \in taken
      <3>1. ASSUME NEW d \in taken, NEW c \in first .. d PROVE c \in taken
        <4>1. Fits(d) /\ d \in first .. last /\ c \in first .. last OBVIOUS
        <4>2. first .. c \subseteq first .. d OBVIOUS
        <4>3. Fits(c) BY <4>1, <4>2, Zenon
        <4> QED BY <4>1, <4>3
      <3> QED BY <3>1
    <2>3. taken \subseteq first .. last OBVIOUS
    <2> HIDE DEF taken, Fits
    <2>4. PICK t \in taken : \A d \in taken : d <= t
      <3> DEFINE below == {x \in Nat : last - x \in taken}
      <3>1. last - first \in below BY <2>1
      <3>2. PICK x \in below : \A y \in below : x <= y BY <3>1, LeastExists
      <3>3. \A d \in taken : d \in Int /\ last - d \in Nat /\ last - (last - d) = d BY <2>3
      <3>4. ASSUME NEW d \in taken PROVE d <= last - x
        <4>1. d \in Int /\ x \in Nat /\ x <= last - d BY <3>2, <3>3
        <4> QED BY <4>1
      <3>5. PICK y : y = last - x OBVIOUS
      <3>6. y \in taken BY <3>2, <3>5
      <3>7. \A d \in taken : d <= y BY <3>4, <3>5
      <3> QED BY <3>6, <3>7, Zenon
    <2>5. taken = first .. t
      <3>1. \A d \in taken : d \in first .. t BY <2>3, <2>4
      <3> QED BY <2>2, <3>1
    <2> QED BY <2>3, <2>4, <2>5
  <1>5. PICK n \in Nat : n = t - first + 1 OBVIOUS
  <1>6. Cardinality(taken) = n
    <2>1. Cardinality(first .. t) = n BY <1>5, FS_Interval
    <2> QED BY <1>4, <2>1
  <1>7. reached = t
    <2>1. taken # {} BY <1>4
    <2>2. first + n - 1 = t BY <1>5
    <2> HIDE DEF taken
    <2> QED BY <1>6, <2>1, <2>2
  <1> HIDE DEF taken, reached
  <1>8. n < last - first + 1 <=> t < last BY <1>5
  <1> QED BY <1>1, <1>4, <1>5, <1>6, <1>7, <1>8 DEF Part

LEMMA RangedFields ==
  ASSUME NEW e, DOMAIN e = {"items", "first", "last", "more"}, NEW sequence,
         NEW reply, reply = Ranged(e, sequence)
  PROVE  /\ reply.items = e.items /\ reply.first = e.first /\ reply.last = e.last
         /\ reply.more = e.more /\ reply.firstSequence = sequence
  <1>1. /\ DOMAIN [firstSequence |-> sequence] = {"firstSequence"}
        /\ [firstSequence |-> sequence].firstSequence = sequence
    OBVIOUS
  <1>2. "firstSequence" \notin DOMAIN e OBVIOUS
  <1> QED BY <1>1, <1>2 DEF Ranged, ++

\* The reply for the entries first to last is right when they are what is wanted,
LEMMA RangeRight ==
  ASSUME NEW at, NEW log, RingOK(log, at), NEW first \in Nat \ {0}, NEW last \in Nat,
         first <= last, last <= log.count, NEW room \in Int, room >= TL_MAX_ENC,
         NEW by, NEW sequence,
         by \in {"sequence", "time"} => sequence = SequenceOf(log, first),
         NEW wanted, wanted = first .. last
  PROVE  RightRange(log, Ranged(Encoded(log, first, last, room), sequence), wanted, by)
  <1>1. PICK e : e = Encoded(log, first, last, room) OBVIOUS
  <1>a. first \in Nat OBVIOUS
  <1>c. PICK t \in first .. last : Part(e, log, first, last, t) BY <1>1, <1>a, EncodedPart
  <1>2. /\ DOMAIN e = {"items", "first", "last", "more"}
        /\ e.items = [k \in 1 .. t - first + 1 |-> TL_encode_entry(log, first + k - 1)]
        /\ e.first = (first = 1) /\ e.last = (t = log.count) /\ e.more = (t < last)
    BY <1>c DEF Part
  <1>b. DOMAIN e = {"items", "first", "last", "more"} BY <1>2
  <1>3. PICK reply : reply = Ranged(e, sequence) OBVIOUS
  <1>4. /\ reply.items = e.items /\ reply.first = e.first /\ reply.last = e.last
        /\ reply.more = e.more /\ reply.firstSequence = sequence
    BY <1>b, <1>3, RangedFields
  <1>5. PICK count \in Nat : count = log.count /\ Len(log.history) = count
    BY LogSizes DEF RingOK, Counting, Remembers
  <1>6. PICK n \in Nat \ {0} : n = t - first + 1 OBVIOUS
  <1>7. PICK items : items = reply.items OBVIOUS
  <1>8. items = [k \in 1 .. n |-> log.history[first + k - 1]]
    <2>1. ASSUME NEW k \in 1 .. n
          PROVE  TL_encode_entry(log, first + k - 1) = log.history[first + k - 1]
      <3>1. first + k - 1 \in 1 .. log.count BY <1>5, <1>6
      <3> QED BY <3>1 DEF RingOK, Remembers
    <2> QED BY <1>2, <1>4, <1>6, <1>7, <2>1
  <1>9. Len(items) = n /\ items # << >>
    <2>1. PICK T : T = {log.history[first + k - 1] : k \in 1 .. n} OBVIOUS
    <2>2. items \in [1 .. n -> T] BY <1>8, <2>1
    <2> QED BY <2>2
  <1>10. (CHOOSE k \in wanted : \A j \in wanted : k <= j) = first
    <2>1. first \in wanted /\ \A j \in wanted : first <= j OBVIOUS
    <2>2. \A k \in wanted : (\A j \in wanted : k <= j) => k = first OBVIOUS
    <2> QED BY <2>1, <2>2
  <1>11. PICK sent : sent = first .. t OBVIOUS
  <1>12. first + n - 1 = t BY <1>6
  <1>13. wanted # {} /\ sent \subseteq wanted
    <2>1. first \in wanted OBVIOUS
    <2>2. \A k \in first .. t : k \in wanted OBVIOUS
    <2> QED BY <1>11, <2>1, <2>2
  <1>14. (t < last) = (sent # wanted)
    <2>1. t < last => last \in wanted /\ last \notin sent BY <1>11
    <2>2. ~(t < last) => sent = wanted BY <1>11
    <2> QED BY <2>1, <2>2
  <1>15. (first = 1) = (1 \in sent) BY <1>11
  <1>16. (t = count) = (count \in sent) BY <1>5, <1>11
  <1>17. /\ reply.more = (sent # wanted) /\ reply.first = (1 \in sent)
         /\ reply.last = (Len(log.history) \in sent)
    BY <1>2, <1>4, <1>5, <1>14, <1>15, <1>16, Zenon
  <1> HIDE DEF RingOK
  <1>18. RightRange(log, reply, wanted, by)
    BY <1>4, <1>7, <1>8, <1>9, <1>10, <1>11, <1>12, <1>13, <1>17, Zenon DEF RightRange
  <1> QED BY <1>1, <1>3, <1>18

\* and the empty one when nothing is.
LEMMA NothingRight ==
  ASSUME NEW log, NEW sequence, NEW by
  PROVE  RightRange(log, Ranged(NoItems, sequence), {}, by)
  <1>1. PICK reply : reply = Ranged(NoItems, sequence) OBVIOUS
  <1>2. DOMAIN NoItems = {"items", "first", "last", "more"} BY DEF NoItems
  <1>3. /\ reply.items = NoItems.items /\ reply.first = NoItems.first
        /\ reply.last = NoItems.last /\ reply.more = NoItems.more
    BY <1>1, <1>2, RangedFields
  <1>4. reply.items = << >> /\ ~reply.more /\ ~reply.first /\ ~reply.last
    BY <1>3 DEF NoItems
  <1>5. RightRange(log, reply, {}, by) BY <1>4, Zenon DEF RightRange
  <1> QED BY <1>1, <1>5

\* Where a reply has room for an entry, whichever it is.
LEMMA RoomEnough ==
  /\ MAX_APDU - RR_OVERHEAD \in Int /\ MAX_APDU - RR_OVERHEAD >= TL_MAX_ENC
  /\ MAX_APDU - RR_OVERHEAD - RR_1ST_SEQ_OVERHEAD \in Int
  /\ MAX_APDU - RR_OVERHEAD - RR_1ST_SEQ_OVERHEAD >= TL_MAX_ENC
  BY PropertiesAssumption DEF RR_OVERHEAD, RR_1ST_SEQ_OVERHEAD, TL_MAX_ENC

LEMMA LogSettled ==
  ASSUME NEW at, NEW log, RingOK(log, at)
  PROVE  /\ log.count \in Nat /\ log.count <= TL_MAX_ENTRIES /\ Len(log.history) = log.count
         /\ DOMAIN log.history = 1 .. log.count
         /\ log.total \in 0 .. SequenceRange - 1
  <1>1. log.count \in Nat /\ log.count <= TL_MAX_ENTRIES /\ log.total \in 0 .. SequenceRange - 1
    BY LogSizes DEF RingOK, Counting
  <1>2. Len(log.history) = log.count BY DEF RingOK, Remembers
  <1>3. PICK S : log.history \in Seq(S) BY DEF RingOK, Remembers
  <1>4. DOMAIN log.history = 1 .. log.count BY <1>2, <1>3
  <1> QED BY <1>1, <1>2, <1>4

\* By position, and all of it.
LEMMA PositionRight ==
  ASSUME NEW at, NEW log, RingOK(log, at), log.count > 0,
         NEW reference \in Nat \ {0}, NEW count \in Int \ {0},
         NEW room \in Int, room >= TL_MAX_ENC, NEW wanted,
         wanted = IF count > 0 THEN 1 .. log.count \cap reference .. reference + count - 1
                  ELSE 1 .. log.count \cap reference + count + 1 .. reference,
         NEW by, by \notin {"sequence", "time"}
  PROVE  RightRange(log, TL_encode_by_position(log, reference, count, room), wanted, by)
  <1>1. PICK n \in Nat \ {0} : n = log.count BY LogSettled
  <1>2. PICK first \in Nat \ {0} :
            first = IF count > 0 THEN reference
                    ELSE IF reference + count + 1 < 1 THEN 1 ELSE reference + count + 1
    OBVIOUS
  <1>3. PICK items \in Nat \ {0} :
            items = IF count > 0 THEN count
                    ELSE IF reference + count + 1 < 1 THEN reference ELSE -count
    OBVIOUS
  <1>4. PICK last \in Nat : last = IF first + items - 1 > n THEN n ELSE first + items - 1
    OBVIOUS
  <1>5. TL_encode_by_position(log, reference, count, room)
            = Ranged(IF first > n THEN NoItems ELSE Encoded(log, first, last, room), 0)
    <2>1. PICK before \in Int : before = reference + count + 1 OBVIOUS
    <2>2. first = IF count > 0 THEN reference ELSE IF before < 1 THEN 1 ELSE before
      BY <1>2, <2>1
    <2>3. items = IF count > 0 THEN count ELSE IF before < 1 THEN reference ELSE -count
      BY <1>3, <2>1
    <2>4. last = IF first + items - 1 > log.count THEN log.count ELSE first + items - 1
      BY <1>1, <1>4
    <2> QED BY <1>1, <2>1, <2>2, <2>3, <2>4, Zenon DEF TL_encode_by_position
  <1>6. wanted = first .. last
    <2>1. CASE count > 0
      <3>1. wanted = 1 .. n \cap reference .. reference + count - 1 BY <1>1, <2>1
      <3>2. \A k \in Int : k \in 1 .. n /\ k \in reference .. reference + count - 1
                              <=> k \in first .. last
        BY <1>2, <1>3, <1>4, <2>1
      <3>3. \A k \in wanted : k \in 1 .. n /\ k \in reference .. reference + count - 1 /\ k \in Int
        BY <3>1
      <3>4. \A k \in first .. last : k \in Int OBVIOUS
      <3>5. wanted \subseteq first .. last BY <3>2, <3>3
      <3>6. first .. last \subseteq wanted BY <3>1, <3>2, <3>4
      <3> QED BY <3>5, <3>6
    <2>2. CASE ~(count > 0)
      <3>1. wanted = 1 .. n \cap reference + count + 1 .. reference BY <1>1, <2>2
      <3>2. \A k \in Int : k \in 1 .. n /\ k \in reference + count + 1 .. reference
                              <=> k \in first .. last
        BY <1>2, <1>3, <1>4, <2>2
      <3>3. \A k \in wanted : k \in 1 .. n /\ k \in reference + count + 1 .. reference /\ k \in Int
        BY <3>1
      <3>4. \A k \in first .. last : k \in Int OBVIOUS
      <3>5. wanted \subseteq first .. last BY <3>2, <3>3
      <3>6. first .. last \subseteq wanted BY <3>1, <3>2, <3>4
      <3> QED BY <3>5, <3>6
    <2> QED BY <2>1, <2>2
  <1>7. CASE first > n
    <2>1. wanted = {} BY <1>4, <1>6, <1>7
    <2>2. TL_encode_by_position(log, reference, count, room) = Ranged(NoItems, 0) BY <1>5, <1>7
    <2> QED BY <2>1, <2>2, NothingRight
  <1>8. CASE ~(first > n)
    <2>1. first <= last /\ last <= log.count BY <1>1, <1>4, <1>8
    <2>2. TL_encode_by_position(log, reference, count, room) = Ranged(Encoded(log, first, last, room), 0)
      BY <1>5, <1>8
    <2> QED BY <1>6, <2>1, <2>2, RangeRight
  <1> QED BY <1>7, <1>8

\* Sequence numbers, without the remainder.
LEMMA SequenceNumbers ==
  ASSUME NEW at, NEW log, RingOK(log, at), NEW k \in 1 .. log.count
  PROVE  /\ SequenceOf(log, k) = (IF log.total - log.count + k < 0
                                  THEN log.total - log.count + k + SequenceRange
                                  ELSE log.total - log.count + k)
         /\ FirstSequence(log) = (IF log.total - log.count + 1 < 0
                                  THEN log.total - log.count + 1 + SequenceRange
                                  ELSE log.total - log.count + 1)
         /\ (FirstSequence(log) + k - 1) % SequenceRange = SequenceOf(log, k)
  <1>1. PICK n \in Nat : n = log.count /\ n <= TL_MAX_ENTRIES /\ Len(log.history) = n BY LogSettled
  <1>2. PICK m \in Nat \ {0} : m = SequenceRange /\ m > 10 * n BY <1>1, LogSizes
  <1>3. PICK t \in 0 .. m - 1 : t = log.total BY <1>2, LogSettled
  <1>4. k \in 1 .. n BY <1>1
  <1>5. PICK x \in -m .. (2 * m) - 1 : x = t - n + k BY <1>2, <1>4
  <1>6. PICK y \in -m .. (2 * m) - 1 : y = t - (n - 1) BY <1>2, <1>4
  <1>7. SequenceOf(log, k) = x % m BY <1>1, <1>2, <1>3, <1>5 DEF SequenceOf
  <1>8. FirstSequence(log) = y % m BY <1>1, <1>2, <1>3, <1>6 DEF FirstSequence
  <1>9. x % m = IF x < 0 THEN x + m ELSE IF x < m THEN x ELSE x - m BY RemainderAround
  <1>10. y % m = IF y < 0 THEN y + m ELSE IF y < m THEN y ELSE y - m BY RemainderAround
  <1>11. PICK s : s = x % m OBVIOUS
  <1>12. PICK f : f = y % m OBVIOUS
  <1>13. s = (IF x < 0 THEN x + m ELSE x) /\ s \in 0 .. m - 1 BY <1>2, <1>4, <1>5, <1>9, <1>11
  <1>14. f = (IF y < 0 THEN y + m ELSE y) /\ f \in 0 .. m - 1 BY <1>2, <1>4, <1>6, <1>10, <1>12
  <1>15. PICK z \in -m .. (2 * m) - 1 : z = f + k - 1 BY <1>2, <1>4, <1>14
  <1>16. z % m = IF z < 0 THEN z + m ELSE IF z < m THEN z ELSE z - m BY RemainderAround
  <1>17. PICK r : r = z % m OBVIOUS
  <1>18. r = s BY <1>2, <1>4, <1>5, <1>6, <1>13, <1>14, <1>15, <1>16, <1>17
  <1>19. s = IF t - n + k < 0 THEN t - n + k + m ELSE t - n + k BY <1>5, <1>13
  <1>20. f = IF t - n + 1 < 0 THEN t - n + 1 + m ELSE t - n + 1 BY <1>6, <1>14
  <1>21. SequenceOf(log, k) = s /\ FirstSequence(log) = f BY <1>7, <1>8, <1>11, <1>12
  <1>22. (FirstSequence(log) + k - 1) % SequenceRange = r BY <1>2, <1>15, <1>17, <1>21
  <1> QED BY <1>1, <1>2, <1>3, <1>18, <1>19, <1>20, <1>21, <1>22

\* Dates that never go back divide a log in two.
LEMMA DatesDivide ==
  ASSUME NEW at, NEW log, RingOK(log, at), NEW time \in Int, NEW n \in Nat, n = log.count
  PROVE  /\ \E a \in 1 .. n + 1 : \A k \in 1 .. n : (log.history[k][1] > time) <=> a <= k
         /\ \E b \in 0 .. n : \A k \in 1 .. n : (log.history[k][1] < time) <=> k <= b
  <1> DEFINE d == [k \in 1 .. n |-> log.history[k][1]]
             late == {k \in 1 .. n + 1 : k = n + 1 \/ d[k] > time}
             early == {k \in 1 .. n + 1 : k = n + 1 \/ ~(d[k] < time)}
  <1>1. \A k \in 1 .. n : d[k] = log.history[k][1] /\ d[k] \in Nat BY DEF RingOK, Dated
  <1>2. \A j, k \in 1 .. n : j <= k => d[j] <= d[k]
    <2>1. \A j, k \in 1 .. n : j <= k => log.history[j][1] <= log.history[k][1]
      BY DEF RingOK, Dated
    <2> QED BY <1>1, <2>1
  <1> HIDE DEF d
  <1>3. PICK a \in late : \A k \in late : a <= k
    <2>1. n + 1 \in late /\ late \subseteq Nat OBVIOUS
    <2> HIDE DEF late
    <2> QED BY <2>1, LeastExists
  <1>4. PICK c \in early : \A k \in early : c <= k
    <2>1. n + 1 \in early /\ early \subseteq Nat OBVIOUS
    <2> HIDE DEF early
    <2> QED BY <2>1, LeastExists
  <1>5. ASSUME NEW k \in 1 .. n PROVE (d[k] > time) <=> a <= k
    <2>1. CASE d[k] > time
      <3>1. k \in late BY <2>1
      <3> QED BY <1>3, <2>1, <3>1
    <2>2. CASE ~(d[k] > time)
      <3>1. SUFFICES ASSUME a <= k PROVE FALSE BY <2>2
      <3>2. a \in 1 .. n /\ d[a] > time BY <1>3, <3>1
      <3>3. d[a] <= d[k] BY <1>2, <3>1, <3>2
      <3> QED BY <1>1, <2>2, <3>2, <3>3
    <2> QED BY <2>1, <2>2
  <1>6. ASSUME NEW k \in 1 .. n PROVE (d[k] < time) <=> k < c
    <2>1. CASE ~(d[k] < time)
      <3>1. k \in early BY <2>1
      <3> QED BY <1>4, <2>1, <3>1
    <2>2. CASE d[k] < time
      <3>1. SUFFICES ASSUME c <= k PROVE FALSE BY <1>4, <2>2
      <3>2. c \in 1 .. n /\ ~(d[c] < time) BY <1>4, <3>1
      <3>3. d[c] <= d[k] BY <1>2, <3>1, <3>2
      <3> QED BY <1>1, <2>2, <3>2, <3>3
    <2> QED BY <2>1, <2>2
  <1>7. a \in 1 .. n + 1 /\ c \in 1 .. n + 1 BY <1>3, <1>4
  <1>8. \A k \in 1 .. n : (log.history[k][1] > time) <=> a <= k BY <1>1, <1>5
  <1>9. PICK b \in 0 .. n : b = c - 1 BY <1>7
  <1>10. \A k \in 1 .. n : (log.history[k][1] < time) <=> k <= b BY <1>1, <1>6, <1>7, <1>9
  <1> QED BY <1>7, <1>8, <1>9, <1>10

LEMMA TimeRight ==
  ASSUME NEW at, NEW log, RingOK(log, at), log.count > 0,
         NEW time \in Int, NEW count \in Int \ {0},
         NEW room \in Int, room >= TL_MAX_ENC, NEW after, NEW before, NEW wanted,
         after = {k \in DOMAIN log.history : log.history[k][1] > time},
         before = {k \in DOMAIN log.history : log.history[k][1] < time},
         wanted = IF count > 0
                  THEN {k \in after : Cardinality({j \in after : j < k}) < count}
                  ELSE {k \in before : Cardinality({j \in before : j > k}) < -count}
  PROVE  RightRange(log, TL_encode_by_time(log, time, count, room), wanted, "time")
  <1>1. PICK n \in Nat \ {0} : n = log.count BY LogSettled
  <1>2. DOMAIN log.history = 1 .. n BY <1>1, LogSettled
  <1>a. n \in Nat OBVIOUS
  <1>b. /\ after = {k \in 1 .. n : log.history[k][1] > time}
        /\ before = {k \in 1 .. n : log.history[k][1] < time}
    BY <1>2
  <1>c. /\ \E a \in 1 .. n + 1 : \A k \in 1 .. n : (log.history[k][1] > time) <=> a <= k
        /\ \E b \in 0 .. n : \A k \in 1 .. n : (log.history[k][1] < time) <=> k <= b
    BY <1>1, <1>a, DatesDivide
  <1>3. PICK a \in 1 .. n + 1 : after = a .. n BY <1>b, <1>c
  <1>d. PICK b \in 0 .. n : \A k \in 1 .. n : (log.history[k][1] < time) <=> k <= b BY <1>c
  <1>4. before = 1 .. b
    <2>1. \A k \in 1 .. n : k \in before <=> k \in 1 .. b BY <1>b, <1>d
    <2>2. before \subseteq 1 .. n /\ 1 .. b \subseteq 1 .. n BY <1>b
    <2> QED BY <2>1, <2>2
  <1> DEFINE later == {e \in 1 .. log.count : TL_encode_entry(log, e)[1] > time}
             earlier == {e \in 1 .. log.count : TL_encode_entry(log, e)[1] < time}
  <1>5. after = later /\ before = earlier
    <2>1. \A e \in 1 .. n : TL_encode_entry(log, e) = log.history[e]
      BY <1>1 DEF RingOK, Remembers
    <2> QED BY <1>1, <1>2, <2>1
  <1> DEFINE newest == CHOOSE e \in earlier : \A d \in earlier : d <= e
             first == IF count > 0 THEN CHOOSE e \in later : \A d \in later : e <= d
                      ELSE IF -count > newest THEN 1 ELSE newest + count + 1
             last == IF count < 0 THEN newest
                     ELSE IF first + count - 1 > log.count THEN log.count ELSE first + count - 1
  <1>6. TL_encode_by_time(log, time, count, room)
            = IF (IF count > 0 THEN later ELSE earlier) = {} THEN Ranged(NoItems, 0)
              ELSE Ranged(Encoded(log, first, last, room),
                          (FirstSequence(log) + first - 1) % SequenceRange)
    BY Zenon DEF TL_encode_by_time
  <1> HIDE DEF later, earlier
  <1>7. ASSUME NEW low \in 1 .. n, NEW high \in 1 .. n, low <= high, wanted = low .. high,
               TL_encode_by_time(log, time, count, room)
                    = Ranged(Encoded(log, low, high, room),
                             (FirstSequence(log) + low - 1) % SequenceRange)
        PROVE  RightRange(log, TL_encode_by_time(log, time, count, room), wanted, "time")
    <2>1. PICK sequence : sequence = (FirstSequence(log) + low - 1) % SequenceRange OBVIOUS
    <2>2. sequence = SequenceOf(log, low) BY <1>1, <2>1, SequenceNumbers
    <2>3. low \in Nat \ {0} /\ high \in Nat /\ high <= log.count BY <1>1
    <2>4. "time" \in {"sequence", "time"} => sequence = SequenceOf(log, low) BY <2>2
    <2>5. RightRange(log, Ranged(Encoded(log, low, high, room), sequence), wanted, "time")
      BY <1>7, <2>3, <2>4, RangeRight
    <2> QED BY <1>7, <2>1, <2>5
  <1>8. CASE count > 0 /\ a <= n
    <2>1. a \in after /\ \A d \in after : a <= d BY <1>3, <1>8
    <2>2. first = a BY <1>3, <1>5, <1>8, <2>1
    <2>3. PICK high \in 1 .. n : high = IF a + count - 1 > n THEN n ELSE a + count - 1
      BY <1>8
    <2>4. last = high
      <3>1. ~(count < 0) BY <1>8
      <3> HIDE DEF first
      <3> QED BY <1>1, <2>2, <2>3, <3>1
    <2>5. ASSUME NEW k \in after PROVE Cardinality({j \in after : j < k}) = k - a
      <3>1. {j \in after : j < k} = a .. k - 1 BY <1>3
      <3>2. Cardinality(a .. k - 1) = k - a
        <4>1. k \in a .. n BY <1>3
        <4>2. PICK q \in Int : q = k - 1 BY <4>1
        <4>3. Cardinality(a .. q) = IF a > q THEN 0 ELSE q - a + 1 BY FS_Interval
        <4> QED BY <4>1, <4>2, <4>3
      <3> QED BY <3>1, <3>2
    <2>6. wanted = a .. high
      <3>1. wanted = {k \in after : Cardinality({j \in after : j < k}) < count} BY <1>8
      <3>2. wanted = {k \in after : k - a < count}
        <4>1. \A k \in after : Cardinality({j \in after : j < k}) < count <=> k - a < count
          BY <2>5
        <4> QED BY <3>1, <4>1, Zenon
      <3>3. \A k \in a .. n : k - a < count <=> k \in a .. high BY <2>3, <1>8
      <3>4. a .. high \subseteq a .. n BY <2>3
      <3> QED BY <1>3, <3>2, <3>3, <3>4
    <2>7. a \in 1 .. n /\ a <= high BY <1>8, <2>3
    <2>8. TL_encode_by_time(log, time, count, room)
            = Ranged(Encoded(log, a, high, room), (FirstSequence(log) + a - 1) % SequenceRange)
      <3> HIDE DEF first, last
      <3>1. (IF count > 0 THEN later ELSE earlier) # {} BY <1>5, <1>8, <2>1
      <3> QED BY <1>6, <2>2, <2>4, <3>1, Zenon
    <2> QED BY <1>7, <2>6, <2>7, <2>8
  <1>9. CASE ~(count > 0) /\ b >= 1
    <2>1. b \in before /\ \A d \in before : d <= b BY <1>4, <1>9
    <2>2. newest = b BY <1>4, <1>5, <2>1
    <2>3. PICK low \in 1 .. n : low = IF -count > b THEN 1 ELSE b + count + 1
      BY <1>9
    <2>4. first = low /\ last = b
      <3>1. count < 0 BY <1>9
      <3> HIDE DEF newest
      <3> QED BY <1>9, <2>2, <2>3, <3>1
    <2>5. ASSUME NEW k \in before PROVE Cardinality({j \in before : j > k}) = b - k
      <3>1. {j \in before : j > k} = k + 1 .. b BY <1>4
      <3>2. Cardinality(k + 1 .. b) = b - k
        <4>1. k \in 1 .. b BY <1>4
        <4>2. PICK q \in Int : q = k + 1 BY <4>1
        <4>3. Cardinality(q .. b) = IF q > b THEN 0 ELSE b - q + 1 BY FS_Interval
        <4> QED BY <4>1, <4>2, <4>3
      <3> QED BY <3>1, <3>2
    <2>6. wanted = low .. b
      <3>1. wanted = {k \in before : Cardinality({j \in before : j > k}) < -count} BY <1>9
      <3>2. wanted = {k \in before : b - k < -count}
        <4>1. \A k \in before : Cardinality({j \in before : j > k}) < -count <=> b - k < -count
          BY <2>5
        <4> QED BY <3>1, <4>1, Zenon
      <3> QED BY <1>4, <1>9, <2>3, <3>2
    <2>7. b \in 1 .. n /\ low <= b BY <1>9, <2>3
    <2>8. TL_encode_by_time(log, time, count, room)
            = Ranged(Encoded(log, low, b, room), (FirstSequence(log) + low - 1) % SequenceRange)
      <3> HIDE DEF first, last
      <3>1. (IF count > 0 THEN later ELSE earlier) # {} BY <1>5, <1>9, <2>1
      <3> QED BY <1>6, <2>4, <3>1, Zenon
    <2> QED BY <1>7, <2>6, <2>7, <2>8
  <1>10. CASE (IF count > 0 THEN later ELSE earlier) = {}
    <2>1. wanted = {} BY <1>5, <1>10
    <2>2. TL_encode_by_time(log, time, count, room) = Ranged(NoItems, 0)
      <3> HIDE DEF first, last
      <3> QED BY <1>6, <1>10, Zenon
    <2> QED BY <2>1, <2>2, NothingRight
  <1>11. \/ count > 0 /\ a <= n
         \/ ~(count > 0) /\ b >= 1
         \/ (IF count > 0 THEN later ELSE earlier) = {}
    BY <1>3, <1>4, <1>5
  <1> QED BY <1>8, <1>9, <1>10, <1>11, Zenon

\* By sequence: the w numbers from b on, where numbers are below m and wrap.
Within(s, b, w, m) == (b <= s /\ s <= b + w - 1) \/ s + m <= b + w - 1
\* The number of the entry k of n, when that of the newest is t,
Numbered(k, n, t, m) == IF t - n + k < 0 THEN t - n + k + m ELSE t - n + k
\* and numbers p to q that are the entries, the first of them numbered f, to read.
RightSpan(p, q, f, b, w, n, t, m) ==
    \E low \in 1 .. n : \E high \in low .. n :
        /\ (p - f + 1) % m = low /\ (q - p) % m = high - low /\ p = Numbered(low, n, t, m)
        /\ \A k \in 1 .. n : Within(Numbered(k, n, t, m), b, w, m) <=> k \in low .. high

LEMMA WindowsWrap ==
  ASSUME NEW m \in Nat \ {0}, NEW w \in 1 .. m - 1, NEW b \in 0 .. m - 1, NEW e \in 0 .. m - 1,
         e = b + w - 1 \/ e = b + w - 1 - m, NEW s \in 0 .. m - 1
  PROVE  /\ (s - b) % m < w <=> Within(s, b, w, m)
         /\ (e - s) % m < w <=> Within(s, b, w, m)
  <1>1. PICK x \in -m .. (2 * m) - 1 : x = s - b OBVIOUS
  <1>2. x % m = IF x < 0 THEN x + m ELSE IF x < m THEN x ELSE x - m BY RemainderAround
  <1>3. PICK xr : xr = x % m OBVIOUS
  <1>4. PICK y \in -m .. (2 * m) - 1 : y = e - s OBVIOUS
  <1>5. y % m = IF y < 0 THEN y + m ELSE IF y < m THEN y ELSE y - m BY RemainderAround
  <1>6. PICK yr : yr = y % m OBVIOUS
  <1>7. xr < w <=> Within(s, b, w, m) BY <1>1, <1>2, <1>3 DEF Within
  <1>8. yr < w <=> Within(s, b, w, m) BY <1>4, <1>5, <1>6 DEF Within
  <1> QED BY <1>1, <1>3, <1>4, <1>6, <1>7, <1>8

\* The cases of the clipping that occur, one by one.
LEMMA ClippedRight ==
  ASSUME NEW n \in Nat \ {0}, NEW m \in Nat, m > 10 * n, NEW t \in 0 .. m - 1,
         NEW f \in 0 .. m - 1, f = Numbered(1, n, t, m), NEW w \in 1 .. m - n,
         NEW b \in 0 .. m - 1, NEW e \in 0 .. m - 1, e = b + w - 1 \/ e = b + w - 1 - m,
         ~(f > t /\ b > t), NEW span, span = Clipped(b, e, f, t)
  PROVE  IF OutsideLog(b, e, f, t)
         THEN \A k \in 1 .. n : ~Within(Numbered(k, n, t, m), b, w, m)
         ELSE RightSpan(span[1], span[2], f, b, w, n, t, m)
  <1>0. m \in Nat \ {0} /\ m >= 11 OBVIOUS
  <1>1. ASSUME NEW p \in 0 .. m - 1, NEW q \in 0 .. m - 1, span = << p, q >>,
               NEW low \in 1 .. n, NEW high \in 1 .. n, low <= high,
               p - f + 1 = low \/ p - f + 1 = low - m, q - p = high - low,
               p = Numbered(low, n, t, m),
               \A k \in 1 .. n : Within(Numbered(k, n, t, m), b, w, m) <=> low <= k /\ k <= high
        PROVE  RightSpan(span[1], span[2], f, b, w, n, t, m)
    <2>1. PICK x \in -m .. (2 * m) - 1 : x = p - f + 1 OBVIOUS
    <2>2. x % m = IF x < 0 THEN x + m ELSE IF x < m THEN x ELSE x - m BY <1>0, RemainderAround
    <2>3. PICK xr : xr = x % m OBVIOUS
    <2>4. xr = low BY <1>0, <1>1, <2>1, <2>2, <2>3
    <2>5. PICK y \in 0 .. (2 * m) - 1 : y = q - p BY <1>1
    <2>6. y % m = IF y < m THEN y ELSE y - m BY <1>0, RemainderBelow
    <2>7. PICK yr : yr = y % m OBVIOUS
    <2>8. yr = high - low BY <1>0, <1>1, <2>5, <2>6, <2>7
    <2>9. (p - f + 1) % m = low /\ (q - p) % m = high - low
      BY <2>1, <2>3, <2>4, <2>5, <2>7, <2>8
    <2>10. \A k \in 1 .. n : Within(Numbered(k, n, t, m), b, w, m) <=> k \in low .. high
      BY <1>1
    <2>11. high \in low .. n BY <1>1
    <2>12. RightSpan(p, q, f, b, w, n, t, m) BY <1>1, <2>9, <2>10, <2>11, Zenon DEF RightSpan
    <2>13. span[1] = p /\ span[2] = q BY <1>1
    <2> QED BY <2>12, <2>13
  <1>2. CASE f <= t /\ b <= e
    <2>1. f = t - n + 1 /\ e = b + w - 1 BY <1>0, <1>2 DEF Numbered
    <2>2. \A k \in 1 .. n : Numbered(k, n, t, m) = f + k - 1 BY <1>2, <2>1 DEF Numbered
    <2>3. \A k \in 1 .. n : Within(f + k - 1, b, w, m) <=> b <= f + k - 1 /\ f + k - 1 <= e
      BY <1>0, <1>2, <2>1 DEF Within
    <2>4. OutsideLog(b, e, f, t) <=> e < f \/ b > t BY <1>2 DEF OutsideLog
    <2>5. CASE e < f \/ b > t
      <3>1. \A k \in 1 .. n : ~Within(Numbered(k, n, t, m), b, w, m) BY <2>1, <2>2, <2>3, <2>5
      <3> QED BY <2>4, <2>5, <3>1
    <2>6. CASE ~(e < f \/ b > t)
      <3>1. PICK p \in 0 .. m - 1 : p = IF b < f THEN f ELSE b OBVIOUS
      <3>2. PICK q \in 0 .. m - 1 : q = IF e > t THEN t ELSE e OBVIOUS
      <3>3. span = << p, q >>
        <4>1. ~(b > e) /\ ~(f > t) BY <1>2
        <4> QED BY <1>2, <3>1, <3>2, <4>1, Zenon DEF Clipped
      <3>4. PICK low \in 1 .. n : low = p - f + 1 BY <2>1, <2>6, <3>1
      <3>5. PICK high \in 1 .. n : high = q - f + 1 BY <2>1, <2>6, <3>2
      <3>6. low <= high /\ q - p = high - low BY <1>2, <2>6, <3>1, <3>2, <3>4, <3>5
      <3>7. p = Numbered(low, n, t, m) BY <2>2, <3>4
      <3>8. \A k \in 1 .. n : Within(Numbered(k, n, t, m), b, w, m) <=> low <= k /\ k <= high
        <4>1. \A k \in 1 .. n : b <= f + k - 1 /\ f + k - 1 <= e <=> low <= k /\ k <= high
          BY <2>1, <3>1, <3>2, <3>4, <3>5
        <4> QED BY <2>2, <2>3, <4>1
      <3>9. RightSpan(span[1], span[2], f, b, w, n, t, m)
        BY <1>1, <3>3, <3>4, <3>6, <3>7, <3>8
      <3> QED BY <2>4, <2>6, <3>9
    <2> QED BY <2>5, <2>6
  <1>3. CASE f <= t /\ b > e
    <2>1. f = t - n + 1 /\ e = b + w - 1 - m BY <1>0, <1>3 DEF Numbered
    <2>2. \A k \in 1 .. n : Numbered(k, n, t, m) = f + k - 1 BY <1>3, <2>1 DEF Numbered
    <2>3. \A k \in 1 .. n : Within(f + k - 1, b, w, m) <=> b <= f + k - 1 \/ f + k - 1 <= e
      BY <1>0, <1>3, <2>1 DEF Within
    <2>4. OutsideLog(b, e, f, t) <=> b > t /\ e < f BY <1>3 DEF OutsideLog
    <2>5. CASE b > t /\ e < f
      <3>1. \A k \in 1 .. n : ~Within(Numbered(k, n, t, m), b, w, m) BY <2>1, <2>2, <2>3, <2>5
      <3> QED BY <2>4, <2>5, <3>1
    <2>6. CASE b <= t /\ e < f
      <3>1. PICK p \in 0 .. m - 1 : p = IF b < f THEN f ELSE b OBVIOUS
      <3>2. span = << p, t >>
        <4>1. ~(b <= e) /\ ~(f > t) /\ ~(e >= f) BY <1>3, <2>6
        <4> QED BY <1>3, <2>6, <3>1, <4>1, Zenon DEF Clipped
      <3>3. PICK low \in 1 .. n : low = p - f + 1 BY <2>1, <2>6, <3>1
      <3>4. low <= n /\ t - p = n - low /\ n \in 1 .. n BY <2>1, <3>1, <3>3
      <3>5. p = Numbered(low, n, t, m) BY <2>2, <3>3
      <3>6. \A k \in 1 .. n : Within(Numbered(k, n, t, m), b, w, m) <=> low <= k /\ k <= n
        <4>1. \A k \in 1 .. n : b <= f + k - 1 \/ f + k - 1 <= e <=> low <= k /\ k <= n
          BY <2>1, <2>6, <3>1, <3>3
        <4> QED BY <2>2, <2>3, <4>1
      <3>7. RightSpan(span[1], span[2], f, b, w, n, t, m)
        BY <1>1, <3>2, <3>3, <3>4, <3>5, <3>6
      <3> QED BY <2>4, <2>6, <3>7
    <2>7. CASE e >= f
      <3>1. PICK q \in 0 .. m - 1 : q = IF e > t THEN t ELSE e OBVIOUS
      <3>2. span = << f, q >>
        <4>1. ~(b <= e) /\ ~(f > t) /\ ~(e < f) BY <1>3, <2>7
        <4> QED BY <1>3, <2>7, <3>1, <4>1, Zenon DEF Clipped
      <3>3. b > t BY <1>0, <2>1, <2>7
      <3>4. PICK high \in 1 .. n : high = q - f + 1 BY <1>3, <2>1, <2>7, <3>1
      <3>5. f - f + 1 = 1 /\ 1 \in 1 .. n /\ q - f = high - 1 /\ 1 <= high BY <3>4
      <3>6. f = Numbered(1, n, t, m) OBVIOUS
      <3>7. \A k \in 1 .. n : Within(Numbered(k, n, t, m), b, w, m) <=> 1 <= k /\ k <= high
        <4>1. \A k \in 1 .. n : b <= f + k - 1 \/ f + k - 1 <= e <=> 1 <= k /\ k <= high
          BY <2>1, <3>1, <3>3, <3>4
        <4> QED BY <2>2, <2>3, <4>1
      <3>8. RightSpan(span[1], span[2], f, b, w, n, t, m)
        BY <1>1, <3>2, <3>4, <3>5, <3>6, <3>7
      <3> QED BY <2>4, <2>7, <3>8
    <2> QED BY <2>5, <2>6, <2>7
  <1>4. CASE f > t
    <2>1. f = t - n + 1 + m /\ b <= t BY <1>0, <1>4 DEF Numbered
    <2>2. b <= e /\ e = b + w - 1 /\ e < f BY <1>0, <1>4, <2>1
    <2>3. ~OutsideLog(b, e, f, t) BY <1>4, <2>1 DEF OutsideLog
    <2>4. PICK q \in 0 .. m - 1 : q = IF e > t THEN t ELSE e OBVIOUS
    <2>5. span = << b, q >>
      <3>1. ~(b > e) /\ ~(f <= t) /\ ~(b > t) BY <1>4, <2>1, <2>2
      <3> QED BY <1>4, <2>1, <2>2, <2>4, <3>1, Zenon DEF Clipped
    <2>6. PICK low \in 1 .. n : low = n - t + b BY <1>0, <1>4, <2>1
    <2>7. PICK high \in 1 .. n : high = n - t + q BY <1>0, <1>4, <2>1, <2>2, <2>4
    <2>8. /\ low <= high /\ q - b = high - low /\ b - f + 1 = low - m
      BY <2>1, <2>2, <2>4, <2>6, <2>7
    <2>9. b = Numbered(low, n, t, m) BY <2>6 DEF Numbered
    <2>10. ASSUME NEW k \in 1 .. n
           PROVE  Within(Numbered(k, n, t, m), b, w, m) <=> low <= k /\ k <= high
      <3>1. CASE t - n + k < 0
        <4>1. Numbered(k, n, t, m) = t - n + k + m BY <3>1 DEF Numbered
        <4>2. ~Within(t - n + k + m, b, w, m) BY <1>0, <2>1, <2>2, <3>1 DEF Within
        <4>3. ~(low <= k) BY <2>6, <3>1
        <4> QED BY <4>1, <4>2, <4>3
      <3>2. CASE ~(t - n + k < 0)
        <4>1. Numbered(k, n, t, m) = t - n + k BY <3>2 DEF Numbered
        <4>2. Within(t - n + k, b, w, m) <=> b <= t - n + k /\ t - n + k <= e
          BY <1>0, <2>1, <2>2, <3>2 DEF Within
        <4>3. b <= t - n + k /\ t - n + k <= e <=> low <= k /\ k <= high
          BY <2>4, <2>6, <2>7
        <4> QED BY <4>1, <4>2, <4>3
      <3> QED BY <3>1, <3>2
    <2>11. b - f + 1 = low \/ b - f + 1 = low - m BY <2>8
    <2>12. low <= high /\ q - b = high - low BY <2>8
    <2>13. RightSpan(span[1], span[2], f, b, w, n, t, m)
      BY <1>1, <2>5, <2>9, <2>10, <2>11, <2>12
    <2> QED BY <2>3, <2>13
  <1> QED BY <1>2, <1>3, <1>4

\* A range asks for no more than the numbers tell apart.
LEMMA CountsAsked ==
  ASSUME NEW count \in RangeCounts
  PROVE  /\ count \in Int \ {0}
         /\ count <= SequenceRange - TL_MAX_ENTRIES /\ -count <= SequenceRange - TL_MAX_ENTRIES
  BY DeviceServerAssumption

LEMMA SequenceRight ==
  ASSUME NEW at, NEW log, RingOK(log, at), log.count > 0,
         NEW reference \in 0 .. SequenceRange - 1, NEW count \in Int \ {0},
         count <= SequenceRange - TL_MAX_ENTRIES, -count <= SequenceRange - TL_MAX_ENTRIES,
         ~Misread(log, "sequence", reference, count),
         NEW room \in Int, room >= TL_MAX_ENC, NEW wanted,
         wanted = {k \in DOMAIN log.history :
                      IF count > 0 THEN (SequenceOf(log, k) - reference) % SequenceRange < count
                      ELSE (reference - SequenceOf(log, k)) % SequenceRange < -count}
  PROVE  RightRange(log, TL_encode_by_sequence(log, reference, count, room), wanted, "sequence")
  <1>1. PICK n \in Nat \ {0} : n = log.count /\ n <= TL_MAX_ENTRIES BY LogSettled
  <1>2. DOMAIN log.history = 1 .. n BY <1>1, LogSettled
  <1>3. PICK m \in Nat \ {0} : m = SequenceRange /\ m > 10 * n BY <1>1, LogSizes
  <1>4. PICK t \in 0 .. m - 1 : t = log.total BY <1>3, LogSettled
  <1>5. PICK r \in 0 .. m - 1 : r = reference BY <1>3
  <1>6. PICK w \in 1 .. m - n : w = IF count > 0 THEN count ELSE -count
    BY <1>1, <1>3, LogSizes
  <1>7. m >= 11 /\ w <= m - 1 /\ count < m /\ -count < m BY <1>1, <1>3, <1>6
  <1>8. ASSUME NEW k \in 1 .. n
        PROVE  SequenceOf(log, k) = Numbered(k, n, t, m) /\ Numbered(k, n, t, m) \in 0 .. m - 1
    <2>1. k \in 1 .. log.count BY <1>1
    <2>2. SequenceOf(log, k) = (IF log.total - log.count + k < 0
                                  THEN log.total - log.count + k + SequenceRange
                                  ELSE log.total - log.count + k)
      BY <2>1, SequenceNumbers
    <2>3. SequenceOf(log, k) = Numbered(k, n, t, m)
      BY <1>1, <1>3, <1>4, <2>2, Zenon DEF Numbered
    <2>4. Numbered(k, n, t, m) \in 0 .. m - 1 BY <1>3 DEF Numbered
    <2> QED BY <2>3, <2>4
  <1>9. PICK f \in 0 .. m - 1 : f = FirstSequence(log) /\ f = Numbered(1, n, t, m)
    <2>1. 1 \in 1 .. log.count /\ 1 \in 1 .. n BY <1>1
    <2>2. FirstSequence(log) = (IF log.total - log.count + 1 < 0
                                  THEN log.total - log.count + 1 + SequenceRange
                                  ELSE log.total - log.count + 1)
      BY <2>1, SequenceNumbers
    <2>3. FirstSequence(log) = Numbered(1, n, t, m)
      BY <1>1, <1>3, <1>4, <2>2, Zenon DEF Numbered
    <2> QED BY <1>8, <2>1, <2>3
  \* where the range begins and ends
  <1>10. PICK b \in 0 .. m - 1, e \in 0 .. m - 1 :
            /\ b = IF count < 0 THEN (reference + count + 1) % SequenceRange ELSE reference
            /\ e = IF count < 0 THEN reference ELSE (reference + count - 1) % SequenceRange
            /\ e = b + w - 1 \/ e = b + w - 1 - m
            /\ count > 0 => b = r
            /\ ~(count > 0) => e = r
    <2>1. CASE count > 0
      <3>1. PICK y \in -m .. (2 * m) - 1 : y = r + count - 1 BY <1>7, <2>1
      <3>2. y % m = IF y < 0 THEN y + m ELSE IF y < m THEN y ELSE y - m BY RemainderAround
      <3>3. PICK e : e = y % m OBVIOUS
      <3>4. e \in 0 .. m - 1 /\ (e = r + w - 1 \/ e = r + w - 1 - m)
        BY <1>6, <1>7, <2>1, <3>1, <3>2, <3>3
      <3>5. e = (reference + count - 1) % SequenceRange BY <1>3, <1>5, <3>1, <3>3
      <3>6. ~(count < 0) BY <2>1
      <3> QED BY <1>5, <2>1, <3>4, <3>5, <3>6
    <2>2. CASE ~(count > 0)
      <3>1. PICK x \in -m .. (2 * m) - 1 : x = r + count + 1 BY <1>7, <2>2
      <3>2. x % m = IF x < 0 THEN x + m ELSE IF x < m THEN x ELSE x - m BY RemainderAround
      <3>3. PICK b : b = x % m OBVIOUS
      <3>4. b \in 0 .. m - 1 /\ (r = b + w - 1 \/ r = b + w - 1 - m)
        BY <1>6, <1>7, <2>2, <3>1, <3>2, <3>3
      <3>5. b = (reference + count + 1) % SequenceRange BY <1>3, <1>5, <3>1, <3>3
      <3>6. count < 0 BY <2>2
      <3> QED BY <1>5, <2>2, <3>4, <3>5, <3>6
    <2> QED BY <2>1, <2>2
  <1>11. ~(f > t /\ b > t)
    <2>1. Misread(log, "sequence", reference, count) <=> (FirstSequence(log) > log.total /\ b > log.total)
      BY <1>10, Zenon DEF Misread
    <2> QED BY <1>4, <1>9, <2>1
  <1>12. wanted = {k \in 1 .. n : Within(Numbered(k, n, t, m), b, w, m)}
    <2>1. w \in 1 .. m - 1 BY <1>6, <1>7
    <2>2. ASSUME NEW k \in 1 .. n
          PROVE  (IF count > 0 THEN (SequenceOf(log, k) - reference) % SequenceRange < count
                  ELSE (reference - SequenceOf(log, k)) % SequenceRange < -count)
                    <=> Within(Numbered(k, n, t, m), b, w, m)
      <3>1. PICK q \in 0 .. m - 1 : q = Numbered(k, n, t, m) /\ q = SequenceOf(log, k) BY <1>8
      <3>2. /\ (q - b) % m < w <=> Within(q, b, w, m)
            /\ (e - q) % m < w <=> Within(q, b, w, m)
        BY <1>10, <2>1, WindowsWrap
      <3>3. CASE count > 0
        <4>1. w = count /\ b = reference BY <1>5, <1>6, <1>10, <3>3
        <4> QED BY <1>3, <3>1, <3>2, <3>3, <4>1, Zenon
      <3>4. CASE ~(count > 0)
        <4>1. w = -count /\ e = reference BY <1>5, <1>6, <1>10, <3>4
        <4> QED BY <1>3, <3>1, <3>2, <3>4, <4>1, Zenon
      <3> QED BY <3>3, <3>4
    <2> QED BY <1>2, <2>2, Zenon
  <1>13. PICK span : span = Clipped(b, e, f, t) OBVIOUS
  <1>14. TL_encode_by_sequence(log, reference, count, room)
            = IF OutsideLog(b, e, f, t) THEN Ranged(NoItems, 0)
              ELSE Ranged(Encoded(log, (span[1] - f + 1) % m,
                                  ((span[1] - f + 1) % m) + ((span[2] - span[1]) % m), room), span[1])
    <2>1. f = FirstSequence(log) /\ t = log.total /\ m = SequenceRange BY <1>3, <1>4, <1>9
    <2>2. /\ b = IF count < 0 THEN (reference + count + 1) % SequenceRange ELSE reference
          /\ e = IF count < 0 THEN reference ELSE (reference + count - 1) % SequenceRange
      BY <1>10
    <2> QED BY <1>13, <2>1, <2>2, Zenon DEF TL_encode_by_sequence
  <1>15. IF OutsideLog(b, e, f, t)
         THEN \A k \in 1 .. n : ~Within(Numbered(k, n, t, m), b, w, m)
         ELSE RightSpan(span[1], span[2], f, b, w, n, t, m)
    BY <1>3, <1>9, <1>10, <1>11, <1>13, ClippedRight
  <1>16. CASE OutsideLog(b, e, f, t)
    <2>1. wanted = {} BY <1>12, <1>15, <1>16, Zenon
    <2> QED BY <1>14, <1>16, <2>1, NothingRight
  <1>17. CASE ~OutsideLog(b, e, f, t)
    <2>1. PICK p, q : p = span[1] /\ q = span[2] OBVIOUS
    <2>2. RightSpan(p, q, f, b, w, n, t, m) BY <1>15, <1>17, <2>1
    <2>3. PICK low \in 1 .. n : \E high \in low .. n :
            /\ (p - f + 1) % m = low /\ (q - p) % m = high - low /\ p = Numbered(low, n, t, m)
            /\ \A k \in 1 .. n : Within(Numbered(k, n, t, m), b, w, m) <=> k \in low .. high
      BY <2>2, Zenon DEF RightSpan
    <2>4. PICK high \in low .. n :
            /\ (p - f + 1) % m = low /\ (q - p) % m = high - low /\ p = Numbered(low, n, t, m)
            /\ \A k \in 1 .. n : Within(Numbered(k, n, t, m), b, w, m) <=> k \in low .. high
      BY <2>3
    <2>5. wanted = low .. high
      <3>1. \A k \in low .. high : k \in 1 .. n OBVIOUS
      <3> QED BY <1>12, <2>4, <3>1
    <2>6. TL_encode_by_sequence(log, reference, count, room) = Ranged(Encoded(log, low, high, room), p)
      <3>1. low + (high - low) = high OBVIOUS
      <3> QED BY <1>14, <1>17, <2>1, <2>4, <3>1
    <2>7. p = SequenceOf(log, low) BY <1>8, <2>4
    <2>8. low \in Nat \ {0} /\ high \in Nat /\ low <= high /\ high <= log.count BY <1>1
    <2>9. "sequence" \in {"sequence", "time"} => p = SequenceOf(log, low) BY <2>7
    <2>10. RightRange(log, Ranged(Encoded(log, low, high, room), p), wanted, "sequence")
      BY <2>5, <2>8, <2>9, RangeRight
    <2> QED BY <2>6, <2>10
  <1> QED BY <1>16, <1>17

\* Every range of a log whose ring is right.
LEMMA ReadRight ==
  ASSUME NEW at, NEW log, RingOK(log, at), NEW by \in {"all", "position", "sequence", "time"},
         NEW reference \in References(by), NEW count \in RangeCounts,
         ~Misread(log, by, reference, count)
  PROVE  RightRange(log, rr_trend_log_encode(log, by, reference, count),
                    Wanted(log, by, reference, count), by)
  <1>0. count \in Int \ {0} BY CountsAsked
  <1>1. /\ log.count \in Nat /\ log.count <= TL_MAX_ENTRIES
        /\ DOMAIN log.history = 1 .. log.count
    BY LogSettled
  <1>2. PICK wanted : wanted = Wanted(log, by, reference, count) OBVIOUS
  <1>3. PICK room : room = MAX_APDU - RR_OVERHEAD OBVIOUS
  <1>4. /\ room \in Int /\ room >= TL_MAX_ENC /\ room - RR_1ST_SEQ_OVERHEAD \in Int
        /\ room - RR_1ST_SEQ_OVERHEAD >= TL_MAX_ENC
    BY <1>3, RoomEnough
  <1>5. PICK reply : reply = rr_trend_log_encode(log, by, reference, count) OBVIOUS
  <1>6. CASE log.count = 0
    <2>1. ~(log.count > 0) BY <1>6
    <2>2. reply = Ranged(NoItems, 0) BY <1>5, <1>6, <2>1, Zenon DEF rr_trend_log_encode
    <2>3. wanted = {}
      <3>1. wanted \subseteq 1 .. log.count BY <1>1, <1>2, Zenon DEF Wanted
      <3>2. 1 .. log.count = {} BY <1>6
      <3> QED BY <3>1, <3>2
    <2> QED BY <1>2, <1>5, <2>2, <2>3, NothingRight
  <1>7. CASE log.count > 0 /\ by = "all"
    <2>1. reply = TL_encode_by_position(log, 1, log.count, room)
      <3>1. log.count # 0 BY <1>1, <1>7
      <3> QED BY <1>3, <1>5, <1>7, <3>1 DEF rr_trend_log_encode
    <2>2. wanted = 1 .. log.count BY <1>1, <1>2, <1>7 DEF Wanted
    <2>a. 1 + log.count - 1 = log.count BY <1>1
    <2>3. wanted = IF log.count > 0 THEN 1 .. log.count \cap 1 .. 1 + log.count - 1
                   ELSE 1 .. log.count \cap 1 + log.count + 1 .. 1
      BY <1>1, <1>7, <2>a, <2>2
    <2>4. log.count \in Int \ {0} /\ 1 \in Nat \ {0} /\ by \notin {"sequence", "time"} BY <1>1, <1>7
    <2>5. RightRange(log, TL_encode_by_position(log, 1, log.count, room), wanted, by)
      BY <1>4, <1>7, <2>3, <2>4, PositionRight
    <2> QED BY <1>2, <1>5, <2>1, <2>5
  <1>8. CASE log.count > 0 /\ by = "position"
    <2>1. reply = TL_encode_by_position(log, reference, count, room)
      <3>1. log.count # 0 BY <1>1, <1>8
      <3> QED BY <1>3, <1>5, <1>8, <3>1 DEF rr_trend_log_encode
    <2>2. reference \in Nat \ {0} BY <1>8, LogSizes DEF References
    <2>3. wanted = IF count > 0 THEN 1 .. log.count \cap reference .. reference + count - 1
                   ELSE 1 .. log.count \cap reference + count + 1 .. reference
      <3>1. CASE count > 0
        <4>0. ~(count < 0) BY <1>0, <3>1
        <4>1. wanted = {k \in 1 .. log.count : k \in reference .. reference + count - 1}
          BY <1>1, <1>2, <1>8, <3>1, <4>0 DEF Wanted
        <4> QED BY <3>1, <4>1
      <3>2. CASE ~(count > 0)
        <4>1. count < 0 BY <1>0, <3>2
        <4>2. wanted = {k \in 1 .. log.count : k \in reference + count + 1 .. reference}
          BY <1>1, <1>2, <1>8, <3>2, <4>1 DEF Wanted
        <4> QED BY <3>2, <4>2
      <3> QED BY <3>1, <3>2
    <2>4. count \in Int \ {0} /\ by \notin {"sequence", "time"} BY <1>0, <1>8
    <2>5. RightRange(log, TL_encode_by_position(log, reference, count, room), wanted, by)
      BY <1>4, <1>8, <2>2, <2>3, <2>4, PositionRight
    <2> QED BY <1>2, <1>5, <2>1, <2>5
  <1>9. CASE log.count > 0 /\ by = "sequence"
    <2>1. reply = TL_encode_by_sequence(log, reference, count, room - RR_1ST_SEQ_OVERHEAD)
      <3>1. log.count # 0 BY <1>1, <1>9
      <3> QED BY <1>3, <1>5, <1>9, <3>1 DEF rr_trend_log_encode
    <2>2. reference \in 0 .. SequenceRange - 1 BY <1>9 DEF References
    <2>3. wanted = {k \in DOMAIN log.history :
                      IF count > 0 THEN (SequenceOf(log, k) - reference) % SequenceRange < count
                      ELSE (reference - SequenceOf(log, k)) % SequenceRange < -count}
      <3>1. CASE count > 0
        <4>0. ~(count < 0) BY <1>0, <3>1
        <4>1. wanted = {k \in DOMAIN log.history :
                          (SequenceOf(log, k) - reference) % SequenceRange < count}
          BY <1>2, <1>9, <3>1, <4>0 DEF Wanted
        <4> QED BY <3>1, <4>1
      <3>2. CASE ~(count > 0)
        <4>1. count < 0 BY <1>0, <3>2
        <4>2. wanted = {k \in DOMAIN log.history :
                          (reference - SequenceOf(log, k)) % SequenceRange < -count}
          BY <1>2, <1>9, <3>2, <4>1 DEF Wanted
        <4> QED BY <3>2, <4>2
      <3> QED BY <3>1, <3>2
    <2>4. ~Misread(log, "sequence", reference, count) BY <1>9
    <2>5. RightRange(log, TL_encode_by_sequence(log, reference, count, room - RR_1ST_SEQ_OVERHEAD),
                     wanted, "sequence")
      BY <1>4, <1>9, <2>2, <2>3, <2>4, <1>0, CountsAsked, SequenceRight
    <2> QED BY <1>2, <1>5, <1>9, <2>1, <2>5
  <1>10. CASE log.count > 0 /\ by = "time"
    <2>1. reply = TL_encode_by_time(log, reference, count, room - RR_1ST_SEQ_OVERHEAD)
      <3>1. log.count # 0 BY <1>1, <1>10
      <3> QED BY <1>3, <1>5, <1>10, <3>1 DEF rr_trend_log_encode
    <2>2. reference \in Int BY <1>10 DEF References
    <2>3. PICK after : after = {k \in DOMAIN log.history : log.history[k][1] > reference} OBVIOUS
    <2>4. PICK before : before = {k \in DOMAIN log.history : log.history[k][1] < reference} OBVIOUS
    <2>5. wanted = IF count > 0
                   THEN {k \in after : Cardinality({j \in after : j < k}) < count}
                   ELSE {k \in before : Cardinality({j \in before : j > k}) < -count}
      <3>1. CASE count > 0
        <4>0. ~(count < 0) BY <1>0, <3>1
        <4>1. wanted = {k \in DOMAIN log.history :
                          k \in after /\ Cardinality({j \in after : j < k}) < count}
          BY <1>2, <1>10, <2>3, <3>1, <4>0 DEF Wanted
        <4> QED BY <2>3, <3>1, <4>1
      <3>2. CASE ~(count > 0)
        <4>1. count < 0 BY <1>0, <3>2
        <4>2. wanted = {k \in DOMAIN log.history :
                          k \in before /\ Cardinality({j \in before : j > k}) < -count}
          BY <1>2, <1>10, <2>4, <3>2, <4>1 DEF Wanted
        <4> QED BY <2>4, <3>2, <4>2
      <3> QED BY <3>1, <3>2
    <2>6. count \in Int \ {0} BY <1>0
    <2>7. RightRange(log, TL_encode_by_time(log, reference, count, room - RR_1ST_SEQ_OVERHEAD),
                     wanted, "time")
      BY <1>4, <1>10, <2>2, <2>3, <2>4, <2>5, <2>6, TimeRight
    <2> QED BY <1>2, <1>5, <1>10, <2>1, <2>7
  <1> QED BY <1>1, <1>6, <1>7, <1>8, <1>9, <1>10

\* However a log was filled, purged, switched and wrapped, a range that is read of
\* it is that of the records that were logged, in their order, as many as the reply
\* has room for, with flags and a first sequence number that are true (the reads of
\* rr_trend_log_encode): the ring, its index and its count always are the newest
\* records, and no date among them goes back.  This is so for any count a range asks
\* for, up to what the sequence numbers tell apart.  It is not so of ranges by
\* sequence number that begin before the numbers of the log wrapped (Misread): for
\* those the clipping begins in the wrong place, or finds nothing.
THEOREM LogReadsTheorem == DeviceServerSpec => []LogReadsTrue
  <1>1. RingInv => LogReadsTrue
    <2> SUFFICES ASSUME RingInv, served = "tl", NEW n \in Trend_Log_Instances,
                        NEW by \in {"all", "position", "sequence", "time"},
                        NEW reference \in References(by), NEW count \in RangeCounts,
                        ~Misread(objects.tl[n], by, reference, count)
                 PROVE  RightRange(objects.tl[n],
                            handler_read_range(objects, "tl", n, "log_buffer", All, by,
                                               reference, count, FALSE)[2],
                            Wanted(objects.tl[n], by, reference, count), by)
      BY DEF LogReadsTrue
    <2>1. PICK log : log = objects.tl[n] OBVIOUS
    <2>2. RingOK(log, now) BY <2>1 DEF RingInv, RingsOK
    <2>3. PICK reply : reply = rr_trend_log_encode(log, by, reference, count) OBVIOUS
    <2>4. RightRange(log, reply, Wanted(log, by, reference, count), by)
      BY <2>1, <2>2, <2>3, ReadRight
    <2>5. by = "position" => reference # 0 BY DEF References
    <2>6. count # 0 BY CountsAsked
    <2>7. handler_read_range(objects, "tl", n, "log_buffer", All, by, reference, count, FALSE) = Ack(reply)
      BY <2>1, <2>3, <2>5, <2>6 DEF handler_read_range, Encode_RR_payload
    <2>8. Ack(reply)[2] = reply BY DEF Ack
    <2> QED BY <2>1, <2>4, <2>7, <2>8
  <1> QED BY <1>1, OutputsInit, OutputsNext, ShapeInit, ShapeNext, RingInit, RingNext, PTL
          DEF DeviceServerSpec

-----------------------------------------------------------------------------
(* What a peer reads of an object, property by property. *)

\* A function of the first numbers is as long as there are of them.
Elementary(s) == \E m \in Nat : s = [j \in 1 .. m |-> s[j]]
LEMMA AsLong ==
  ASSUME NEW s, NEW m \in Nat, s = [j \in 1 .. m |-> s[j]]
  PROVE  Len(s) = m /\ DOMAIN s = 1 .. m
  <1> DEFINE S == {s[j] : j \in 1 .. m}
  <1>1. s \in Seq(S) OBVIOUS
  <1> QED BY <1>1

\* What ReadsAgree says of one property of an object.
Pictured(o, time, T, n, p) ==
    \E r : /\ Object_Read_Property(o, time, T, n, p, All) = {r} /\ r[1] # "abort"
           /\ r[1] = "ack" \/ << T, p >> \in ReadDenied
           /\ ElementsAgree(T, p) =>
                /\ Object_Read_Property(o, time, T, n, p, 0) = {Ack(<< "unsigned", Len(r[2]) >>)}
                /\ \A i \in DOMAIN r[2] : Object_Read_Property(o, time, T, n, p, i) = {Ack(r[2][i])}
                /\ Object_Read_Property(o, time, T, n, p, Len(r[2]) + 1)
                        = {Error("invalid_array_index")}
           /\ IndexRefused(T, p) =>
                Object_Read_Property(o, time, T, n, p, 1) = {Error("property_is_not_an_array")}

LEMMA ScalarPictured ==
  ASSUME NEW o, NEW time, NEW T, NEW n, NEW p, NEW scalars, NEW arrays,
         p \in DOMAIN scalars, p \notin DOMAIN arrays, p \notin ArrayProperties,
         Object_Read_Property(o, time, T, n, p, All) = {Reading(scalars, arrays, p, All)},
         Object_Read_Property(o, time, T, n, p, 1) = {Reading(scalars, arrays, p, 1)}
  PROVE  Pictured(o, time, T, n, p)
  <1>1. Reading(scalars, arrays, p, All) = Ack(scalars[p]) BY ScalarRead
  <1>2. Reading(scalars, arrays, p, 1) = Error("property_is_not_an_array")
    BY PropertiesAssumption DEF Reading
  <1>3. ~ElementsAgree(T, p) BY DEF ElementsAgree
  <1>4. Ack(scalars[p])[1] = "ack" BY DEF Ack
  <1> QED BY <1>1, <1>2, <1>3, <1>4 DEF Pictured

LEMMA ArrayPictured ==
  ASSUME NEW o, NEW time, NEW T, NEW n, NEW p \in ArrayProperties, NEW scalars, NEW arrays,
         p \in DOMAIN arrays, Elementary(arrays[p]),
         Object_Read_Property(o, time, T, n, p, All) = {Reading(scalars, arrays, p, All)},
         ElementsAgree(T, p) =>
            \A i \in Nat : Object_Read_Property(o, time, T, n, p, i) = {Reading(scalars, arrays, p, i)}
  PROVE  Pictured(o, time, T, n, p)
  <1>1. PICK s : s = arrays[p] OBVIOUS
  <1>2. PICK m \in Nat : s = [j \in 1 .. m |-> s[j]] BY <1>1 DEF Elementary
  <1>3. Len(s) = m /\ DOMAIN s = 1 .. m BY <1>2, AsLong
  <1>4. Reading(scalars, arrays, p, All) = Ack(s)
    <2>1. DOMAIN arrays[p] \subseteq Nat BY <1>1, <1>3
    <2> QED BY <1>1, <2>1, WholeArray
  <1>5. All \notin Nat BY PropertiesAssumption
  <1>6. Reading(scalars, arrays, p, 0) = Ack(<< "unsigned", Len(s) >>)
    <2>1. 0 # All /\ 0 \notin DOMAIN s BY <1>3, <1>5
    <2> QED BY <1>1, <2>1, Zenon DEF Reading
  <1>7. ASSUME NEW i \in 1 .. m PROVE Reading(scalars, arrays, p, i) = Ack(s[i])
    <2>1. i # 0 /\ i # All BY <1>5
    <2> QED BY <1>1, <1>3, <2>1, Zenon DEF Reading
  <1>8. Reading(scalars, arrays, p, m + 1) = Error("invalid_array_index")
    <2>1. m + 1 # 0 /\ m + 1 # All /\ m + 1 \notin DOMAIN s BY <1>3, <1>5
    <2> QED BY <1>1, <2>1, Zenon DEF Reading
  <1>9. ~IndexRefused(T, p) BY DEF IndexRefused
  <1>10. Ack(s)[1] = "ack" /\ Ack(s)[2] = s BY DEF Ack
  <1>11. 0 \in Nat /\ m + 1 \in Nat /\ \A i \in 1 .. m : i \in Nat OBVIOUS
  <1>12. PICK r : r = Ack(s) OBVIOUS
  <1>13. Object_Read_Property(o, time, T, n, p, All) = {r} /\ r[1] = "ack" /\ r[2] = s
    BY <1>4, <1>10, <1>12
  <1>14. ASSUME ElementsAgree(T, p)
         PROVE  /\ Object_Read_Property(o, time, T, n, p, 0) = {Ack(<< "unsigned", Len(s) >>)}
                /\ \A i \in DOMAIN s : Object_Read_Property(o, time, T, n, p, i) = {Ack(s[i])}
                /\ Object_Read_Property(o, time, T, n, p, Len(s) + 1) = {Error("invalid_array_index")}
    BY <1>3, <1>6, <1>7, <1>8, <1>11, <1>14
  <1> QED BY <1>9, <1>13, <1>14 DEF Pictured

\* Of a type that reads its scalars and its arrays as Reading does.
LEMMA TablePictured ==
  ASSUME NEW o, NEW time, NEW T, NEW n, NEW scalars, NEW arrays,
         DOMAIN scalars \cap ArrayProperties = {}, DOMAIN arrays \subseteq ArrayProperties,
         \A a \in DOMAIN arrays : Elementary(arrays[a]),
         NEW p \in DOMAIN scalars \cup DOMAIN arrays,
         \A i \in Nat \cup {All} : p \notin ArrayProperties \/ ElementsAgree(T, p) \/ i = All =>
            Object_Read_Property(o, time, T, n, p, i) = {Reading(scalars, arrays, p, i)}
  PROVE  Pictured(o, time, T, n, p)
  <1>1. CASE p \in DOMAIN arrays
    <2>1. p \in ArrayProperties /\ Elementary(arrays[p]) BY <1>1
    <2>2. Object_Read_Property(o, time, T, n, p, All) = {Reading(scalars, arrays, p, All)} OBVIOUS
    <2>3. ElementsAgree(T, p) => \A i \in Nat :
            Object_Read_Property(o, time, T, n, p, i) = {Reading(scalars, arrays, p, i)}
      OBVIOUS
    <2> QED BY <1>1, <2>1, <2>2, <2>3, ArrayPictured
  <1>2. CASE p \notin DOMAIN arrays
    <2>1. p \in DOMAIN scalars /\ p \notin ArrayProperties BY <1>2
    <2>2. 1 \in Nat \cup {All} /\ All \in Nat \cup {All} OBVIOUS
    <2>3. /\ Object_Read_Property(o, time, T, n, p, All) = {Reading(scalars, arrays, p, All)}
          /\ Object_Read_Property(o, time, T, n, p, 1) = {Reading(scalars, arrays, p, 1)}
      BY <2>1, <2>2
    <2> QED BY <1>2, <2>1, <2>3, ScalarPictured
  <1> QED BY <1>1, <1>2

\* The properties that a type lists are all among some that are as they should be.
Depicted(o, time, T, n) ==
    \E N : /\ \A j \in 1 .. 3 : Device_Objects_Property_List(T)[j] \in Seq(N)
           /\ \A p \in N : Pictured(o, time, T, n, p)
LEMMA Depict ==
  ASSUME NEW o, NEW time, NEW T, NEW n, NEW N, NEW l1 \in Seq(N), NEW l2 \in Seq(N), NEW l3 \in Seq(N),
         Device_Objects_Property_List(T) = << l1, l2, l3 >>,
         \A p \in N : Pictured(o, time, T, n, p)
  PROVE  Depicted(o, time, T, n)
  <1>1. \A j \in 1 .. 3 : << l1, l2, l3 >>[j] \in Seq(N) OBVIOUS
  <1> QED BY <1>1 DEF Depicted

LEMMA PropertyLists ==
  /\ Device_Objects_Property_List("device") = Device_Property_Lists
  /\ Device_Objects_Property_List("ai") = Analog_Input_Property_Lists
  /\ Device_Objects_Property_List("ao") = Analog_Output_Property_Lists
  /\ Device_Objects_Property_List("av") = Analog_Value_Property_Lists
  /\ Device_Objects_Property_List("bi") = Binary_Input_Property_Lists
  /\ Device_Objects_Property_List("bo") = Binary_Output_Property_Lists
  /\ Device_Objects_Property_List("bv") = Binary_Value_Property_Lists
  /\ Device_Objects_Property_List("lsp") = Life_Safety_Point_Property_Lists
  /\ Device_Objects_Property_List("lc") = Load_Control_Property_Lists
  /\ Device_Objects_Property_List("mso") = Multistate_Output_Property_Lists
  /\ Device_Objects_Property_List("msi") = Multistate_Input_Property_Lists
  /\ Device_Objects_Property_List("tl") = Trend_Log_Property_Lists
  /\ Device_Objects_Property_List("file") = BACfile_Property_Lists
  /\ Device_Objects_Property_List("lo") = << << >>, << >>, << >> >>
  BY Zenon DEF Device_Objects_Property_List

\* What every type has, with or without the flags of an object out of service.
LEMMA MergedNames ==
  ASSUME NEW f, NEW g
  PROVE  DOMAIN (f ++ g) = DOMAIN f \cup DOMAIN g
  BY Zenon DEF ++

LEMMA IdentifiedNames ==
  ASSUME NEW T, NEW n, NEW name, NEW description
  PROVE  DOMAIN (Identified(T, n, name) ++ Described(description)) = Everywhere
  <1>1. PICK id : id = Identified(T, n, name) OBVIOUS
  <1>2. PICK described : described = Described(description) OBVIOUS
  <1>3. DOMAIN id = {"object_identifier", "object_name", "object_type"} BY <1>1 DEF Identified
  <1>4. DOMAIN described = {"description"} BY <1>2 DEF Described
  <1>5. DOMAIN (id ++ described) = DOMAIN id \cup DOMAIN described BY MergedNames, Zenon
  <1> QED BY <1>1, <1>2, <1>3, <1>4, <1>5 DEF Everywhere

LEMMA CommonNames ==
  ASSUME NEW T, NEW n, NEW name, NEW own
  PROVE  DOMAIN (Identified(T, n, name) ++ Described(name) ++ own) = Everywhere \cup DOMAIN own
  <1>1. PICK both : both = Identified(T, n, name) ++ Described(name) OBVIOUS
  <1>2. DOMAIN both = Everywhere BY <1>1, IdentifiedNames
  <1> QED BY <1>1, <1>2, MergedNames

LEMMA ServiceNames ==
  ASSUME NEW T, NEW n, NEW name, NEW flagged, DOMAIN flagged = OfService, NEW own
  PROVE  DOMAIN (Identified(T, n, name) ++ Described(name) ++ flagged ++ own)
            = Everywhere \cup OfService \cup DOMAIN own
  <1>1. DOMAIN (Identified(T, n, name) ++ Described(name) ++ flagged) = Everywhere \cup OfService
    BY CommonNames
  <1> QED BY <1>1, MergedNames

LEMMA NoCommonArray == (Everywhere \cup OfService) \cap ArrayProperties = {}
  BY DEF Everywhere, OfService, ArrayProperties

\* The levels of a commandable object are an array of 16.
LEMMA LevelsArray ==
  ASSUME NEW x, NEW tag, NEW scale
  PROVE  LET arrays == PriorityArray(x, tag, scale)
         IN  DOMAIN arrays = {"priority_array"} /\ Elementary(arrays["priority_array"])
  <1>1. DOMAIN PriorityArray(x, tag, scale) = {"priority_array"} BY DEF PriorityArray
  <1>2. PICK s : s = PriorityArray(x, tag, scale)["priority_array"] OBVIOUS
  <1>3. s = [q \in 1 .. 16 |-> ElementOf(x.level[q], tag, scale)]
    BY <1>2 DEF PriorityArray, Priorities, BACNET_MAX_PRIORITY
  <1>4. s = [q \in 1 .. 16 |-> s[q]] BY <1>3
  <1>5. Elementary(s) BY <1>4 DEF Elementary
  <1> QED BY <1>1, <1>2, <1>5

\* A commandable type, from the names of its own properties and its lists.
LEMMA OutputDepicted ==
  ASSUME NEW T \in {"ao", "av", "bo", "bv", "mso"}, NEW o, NEW time, NEW n, NEW scalars, NEW arrays,
         NEW own, own \cap ArrayProperties = {}, DOMAIN scalars = Everywhere \cup OfService \cup own,
         DOMAIN arrays = {"priority_array"}, Elementary(arrays["priority_array"]),
         \A p : \A i : T # "bv" \/ p # "priority_array" \/ i \notin Priorities =>
            Object_Read_Property(o, time, T, n, p, i) = {Reading(scalars, arrays, p, i)},
         NEW N, N = Everywhere \cup OfService \cup own \cup {"priority_array"},
         NEW l1 \in Seq(N), NEW l2 \in Seq(N), NEW l3 \in Seq(N),
         Device_Objects_Property_List(T) = << l1, l2, l3 >>
  PROVE  Depicted(o, time, T, n)
  <1>1. DOMAIN scalars \cap ArrayProperties = {} BY NoCommonArray
  <1>2. DOMAIN arrays \subseteq ArrayProperties BY DEF ArrayProperties
  <1>3. \A a \in DOMAIN arrays : Elementary(arrays[a]) OBVIOUS
  <1>4. ASSUME NEW p \in N PROVE Pictured(o, time, T, n, p)
    <2>1. p \in DOMAIN scalars \cup DOMAIN arrays OBVIOUS
    <2>2. ASSUME NEW i \in Nat \cup {All}, p \notin ArrayProperties \/ ElementsAgree(T, p) \/ i = All
          PROVE  Object_Read_Property(o, time, T, n, p, i) = {Reading(scalars, arrays, p, i)}
      <3>1. All \notin Priorities BY PropertiesAssumption DEF Priorities, BACNET_MAX_PRIORITY
      <3>2. T # "bv" \/ p # "priority_array" \/ i \notin Priorities
        BY <2>2, <3>1 DEF ElementsAgree, ArrayProperties
      <3> QED BY <3>2
    <2> QED BY <1>1, <1>2, <1>3, <2>1, <2>2, TablePictured
  <1> QED BY <1>4, Depict

LEMMA Analog_Output_Depicted ==
  ASSUME NEW o, NEW time, NEW n
  PROVE  Depicted(o, time, "ao", n)
  <1> DEFINE x == o["ao"]
             own == [present_value |-> << "real", 10 * Analog_Output_Present_Value(x, n) >>,
                     units |-> << "enumerated", "percent" >>, relinquish_default |-> << "real", 0 >>]
             mine == {"present_value", "units", "relinquish_default"}
  <1>1. DOMAIN own = mine OBVIOUS
  <1> HIDE DEF own
  <1>2. PICK name, flagged : name = Analog_Output_Name(n) /\ flagged = Flagged(x[n].oos, FALSE) OBVIOUS
  <1>3. PICK scalars, arrays :
            /\ scalars = Identified("ao", n, name) ++ Described(name) ++ flagged ++ own
            /\ arrays = PriorityArray(x[n], "real", 10)
    OBVIOUS
  <1>4. DOMAIN scalars = Everywhere \cup OfService \cup mine
    <2>1. DOMAIN flagged = OfService BY <1>2, FlagsDown
    <2>2. DOMAIN scalars = Everywhere \cup OfService \cup DOMAIN own
      BY <1>3, <2>1, ServiceNames
    <2> QED BY <1>1, <2>2, Zenon
  <1>5. ASSUME NEW p, NEW i
        PROVE  Object_Read_Property(o, time, "ao", n, p, i) = {Reading(scalars, arrays, p, i)}
    <2>1. Analog_Output_Read_Property(x, n, p, i) = Reading(scalars, arrays, p, i)
      BY <1>2, <1>3 DEF Analog_Output_Read_Property, own
    <2> QED BY <2>1, ReadFunctions
  <1>6. DOMAIN arrays = {"priority_array"} /\ Elementary(arrays["priority_array"])
    BY <1>3, LevelsArray
  <1>7. mine \cap ArrayProperties = {} BY DEF ArrayProperties
  <1>8. PICK N : N = Everywhere \cup OfService \cup mine \cup {"priority_array"} OBVIOUS
  <1>9. PICK l1, l2, l3 : << l1, l2, l3 >> = Analog_Output_Property_Lists
                          /\ l1 \in Seq(N) /\ l2 \in Seq(N) /\ l3 \in Seq(N)
    <2>1. /\ << "object_identifier", "object_name", "object_type", "present_value",
                "status_flags", "event_state", "out_of_service", "units",
                "priority_array", "relinquish_default" >> \in Seq(N)
          /\ << "description" >> \in Seq(N) /\ << >> \in Seq(N)
      BY <1>8 DEF Everywhere, OfService
    <2> QED BY <2>1 DEF Analog_Output_Property_Lists
  <1> QED BY <1>4, <1>5, <1>6, <1>7, <1>8, <1>9, PropertyLists, OutputDepicted

LEMMA Analog_Value_Depicted ==
  ASSUME NEW o, NEW time, NEW n
  PROVE  Depicted(o, time, "av", n)
  <1> DEFINE x == o["av"]
             own == [present_value |-> << "real", 10 * Analog_Value_Present_Value(x, n) >>,
                     units |-> << "enumerated", "percent" >>, relinquish_default |-> << "real", 0 >>]
             mine == {"present_value", "units", "relinquish_default"}
  <1>1. DOMAIN own = mine OBVIOUS
  <1> HIDE DEF own
  <1>2. PICK name, flagged : name = Analog_Value_Name(n) /\ flagged = Flagged(x[n].oos, FALSE) OBVIOUS
  <1>3. PICK scalars, arrays :
            /\ scalars = Identified("av", n, name) ++ Described(name) ++ flagged ++ own
            /\ arrays = PriorityArray(x[n], "real", 10)
    OBVIOUS
  <1>4. DOMAIN scalars = Everywhere \cup OfService \cup mine
    <2>1. DOMAIN flagged = OfService BY <1>2, FlagsDown
    <2>2. DOMAIN scalars = Everywhere \cup OfService \cup DOMAIN own
      BY <1>3, <2>1, ServiceNames
    <2> QED BY <1>1, <2>2, Zenon
  <1>5. ASSUME NEW p, NEW i
        PROVE  Object_Read_Property(o, time, "av", n, p, i) = {Reading(scalars, arrays, p, i)}
    <2>1. Analog_Value_Read_Property(x, n, p, i) = Reading(scalars, arrays, p, i)
      BY <1>2, <1>3 DEF Analog_Value_Read_Property, own
    <2> QED BY <2>1, ReadFunctions
  <1>6. DOMAIN arrays = {"priority_array"} /\ Elementary(arrays["priority_array"])
    BY <1>3, LevelsArray
  <1>7. mine \cap ArrayProperties = {} BY DEF ArrayProperties
  <1>8. PICK N : N = Everywhere \cup OfService \cup mine \cup {"priority_array"} OBVIOUS
  <1>9. PICK l1, l2, l3 : << l1, l2, l3 >> = Analog_Value_Property_Lists
                          /\ l1 \in Seq(N) /\ l2 \in Seq(N) /\ l3 \in Seq(N)
    <2>1. /\ << "object_identifier", "object_name", "object_type", "present_value",
                "status_flags", "event_state", "out_of_service", "units" >> \in Seq(N)
          /\ << "description", "priority_array", "relinquish_default" >> \in Seq(N) /\ << >> \in Seq(N)
      BY <1>8 DEF Everywhere, OfService
    <2> QED BY <2>1 DEF Analog_Value_Property_Lists
  <1> QED BY <1>4, <1>5, <1>6, <1>7, <1>8, <1>9, PropertyLists, OutputDepicted

LEMMA Binary_Output_Depicted ==
  ASSUME NEW o, NEW time, NEW n
  PROVE  Depicted(o, time, "bo", n)
  <1> DEFINE x == o["bo"]
             own == [present_value |-> << "enumerated", Binary_Output_Present_Value(x, n) >>,
                     polarity |-> << "enumerated", "normal" >>,
                     relinquish_default |-> << "enumerated", 0 >>,
                     active_text |-> << "string", "on" >>, inactive_text |-> << "string", "off" >>]
             mine == {"present_value", "polarity", "relinquish_default", "active_text", "inactive_text"}
  <1>1. DOMAIN own = mine OBVIOUS
  <1> HIDE DEF own
  <1>2. PICK name, flagged : name = Binary_Output_Name(n) /\ flagged = Flagged(x[n].oos, FALSE) OBVIOUS
  <1>3. PICK scalars, arrays :
            /\ scalars = Identified("bo", n, name) ++ Described(name) ++ flagged ++ own
            /\ arrays = PriorityArray(x[n], "enumerated", 1)
    OBVIOUS
  <1>4. DOMAIN scalars = Everywhere \cup OfService \cup mine
    <2>1. DOMAIN flagged = OfService BY <1>2, FlagsDown
    <2>2. DOMAIN scalars = Everywhere \cup OfService \cup DOMAIN own
      BY <1>3, <2>1, ServiceNames
    <2> QED BY <1>1, <2>2, Zenon
  <1>5. ASSUME NEW p, NEW i
        PROVE  Object_Read_Property(o, time, "bo", n, p, i) = {Reading(scalars, arrays, p, i)}
    <2>1. Binary_Output_Read_Property(x, n, p, i) = Reading(scalars, arrays, p, i)
      BY <1>2, <1>3 DEF Binary_Output_Read_Property, own
    <2> QED BY <2>1, ReadFunctions
  <1>6. DOMAIN arrays = {"priority_array"} /\ Elementary(arrays["priority_array"])
    BY <1>3, LevelsArray
  <1>7. mine \cap ArrayProperties = {} BY DEF ArrayProperties
  <1>8. PICK N : N = Everywhere \cup OfService \cup mine \cup {"priority_array"} OBVIOUS
  <1>9. PICK l1, l2, l3 : << l1, l2, l3 >> = Binary_Output_Property_Lists
                          /\ l1 \in Seq(N) /\ l2 \in Seq(N) /\ l3 \in Seq(N)
    <2>1. /\ << "object_identifier", "object_name", "object_type", "present_value",
                "status_flags", "event_state", "out_of_service", "polarity",
                "priority_array", "relinquish_default" >> \in Seq(N)
          /\ << "description", "active_text", "inactive_text" >> \in Seq(N) /\ << >> \in Seq(N)
      BY <1>8 DEF Everywhere, OfService
    <2> QED BY <2>1 DEF Binary_Output_Property_Lists
  <1> QED BY <1>4, <1>5, <1>6, <1>7, <1>8, <1>9, PropertyLists, OutputDepicted

LEMMA Binary_Value_Depicted ==
  ASSUME NEW o, NEW time, NEW n
  PROVE  Depicted(o, time, "bv", n)
  <1> DEFINE x == o["bv"]
             own == [present_value |-> << "enumerated", Binary_Value_Present_Value(x, n) >>,
                     relinquish_default |-> << "enumerated", 0 >>]
             mine == {"present_value", "relinquish_default"}
  <1>1. DOMAIN own = mine OBVIOUS
  <1> HIDE DEF own
  <1>2. PICK name, flagged : name = Binary_Value_Name(n) /\ flagged = Flagged(x[n].oos, FALSE) OBVIOUS
  <1>3. PICK scalars, arrays :
            /\ scalars = Identified("bv", n, name) ++ Described(name) ++ flagged ++ own
            /\ arrays = PriorityArray(x[n], "enumerated", 1)
    OBVIOUS
  <1>4. DOMAIN scalars = Everywhere \cup OfService \cup mine
    <2>1. DOMAIN flagged = OfService BY <1>2, FlagsDown
    <2>2. DOMAIN scalars = Everywhere \cup OfService \cup DOMAIN own
      BY <1>3, <2>1, ServiceNames
    <2> QED BY <1>1, <2>2, Zenon
  <1>5. ASSUME NEW p, NEW i, p # "priority_array" \/ i \notin Priorities
        PROVE  Object_Read_Property(o, time, "bv", n, p, i) = {Reading(scalars, arrays, p, i)}
    <2>1. Binary_Value_Read_Property(x, n, p, i) = {Reading(scalars, arrays, p, i)}
      BY <1>2, <1>3, <1>5, Zenon DEF Binary_Value_Read_Property, own
    <2> QED BY <2>1, ReadFunctions
  <1>6. DOMAIN arrays = {"priority_array"} /\ Elementary(arrays["priority_array"])
    BY <1>3, LevelsArray
  <1>7. mine \cap ArrayProperties = {} BY DEF ArrayProperties
  <1>8. PICK N : N = Everywhere \cup OfService \cup mine \cup {"priority_array"} OBVIOUS
  <1>9. PICK l1, l2, l3 : << l1, l2, l3 >> = Binary_Value_Property_Lists
                          /\ l1 \in Seq(N) /\ l2 \in Seq(N) /\ l3 \in Seq(N)
    <2>1. /\ << "object_identifier", "object_name", "object_type", "present_value",
                "status_flags", "event_state", "out_of_service" >> \in Seq(N)
          /\ << "description", "priority_array", "relinquish_default" >> \in Seq(N) /\ << >> \in Seq(N)
      BY <1>8 DEF Everywhere, OfService
    <2> QED BY <2>1 DEF Binary_Value_Property_Lists
  <1> QED BY <1>4, <1>5, <1>6, <1>7, <1>8, <1>9, PropertyLists, OutputDepicted

LEMMA Multistate_Output_Depicted ==
  ASSUME NEW o, NEW time, NEW n
  PROVE  Depicted(o, time, "mso", n)
  <1> DEFINE x == o["mso"]
             own == [present_value |-> << "unsigned", Multistate_Output_Present_Value(x, n) >>,
                     number_of_states |-> << "unsigned", MULTISTATE_NUMBER_OF_STATES >>,
                     relinquish_default |-> << "enumerated", 0 >>]
             mine == {"present_value", "number_of_states", "relinquish_default"}
  <1>1. DOMAIN own = mine OBVIOUS
  <1> HIDE DEF own
  <1>2. PICK name, flagged : name = Multistate_Output_Name(n) /\ flagged = Flagged(x[n].oos, FALSE) OBVIOUS
  <1>3. PICK scalars, arrays :
            /\ scalars = Identified("mso", n, name) ++ Described(name) ++ flagged ++ own
            /\ arrays = PriorityArray(x[n], "unsigned", 1)
    OBVIOUS
  <1>4. DOMAIN scalars = Everywhere \cup OfService \cup mine
    <2>1. DOMAIN flagged = OfService BY <1>2, FlagsDown
    <2>2. DOMAIN scalars = Everywhere \cup OfService \cup DOMAIN own
      BY <1>3, <2>1, ServiceNames
    <2> QED BY <1>1, <2>2, Zenon
  <1>5. ASSUME NEW p, NEW i
        PROVE  Object_Read_Property(o, time, "mso", n, p, i) = {Reading(scalars, arrays, p, i)}
    <2>1. Multistate_Output_Read_Property(x, n, p, i) = Reading(scalars, arrays, p, i)
      BY <1>2, <1>3 DEF Multistate_Output_Read_Property, own
    <2> QED BY <2>1, ReadFunctions
  <1>6. DOMAIN arrays = {"priority_array"} /\ Elementary(arrays["priority_array"])
    BY <1>3, LevelsArray
  <1>7. mine \cap ArrayProperties = {} BY DEF ArrayProperties
  <1>8. PICK N : N = Everywhere \cup OfService \cup mine \cup {"priority_array"} OBVIOUS
  <1>9. PICK l1, l2, l3 : << l1, l2, l3 >> = Multistate_Output_Property_Lists
                          /\ l1 \in Seq(N) /\ l2 \in Seq(N) /\ l3 \in Seq(N)
    <2>1. /\ << "object_identifier", "object_name", "object_type", "present_value",
                "status_flags", "event_state", "out_of_service", "number_of_states",
                "priority_array", "relinquish_default" >> \in Seq(N)
          /\ << "description" >> \in Seq(N) /\ << >> \in Seq(N)
      BY <1>8 DEF Everywhere, OfService
    <2> QED BY <2>1 DEF Multistate_Output_Property_Lists
  <1> QED BY <1>4, <1>5, <1>6, <1>7, <1>8, <1>9, PropertyLists, OutputDepicted

LEMMA MoreReadFunctions ==
  ASSUME NEW o, NEW time, NEW n, NEW p, NEW i
  PROVE  /\ Object_Read_Property(o, time, "ai", n, p, i) = {Analog_Input_Read_Property(o.ai, n, p, i)}
         /\ Object_Read_Property(o, time, "file", n, p, i) = {bacfile_read_property(o.file, n, p)}
  BY Zenon DEF Object_Read_Property

\* A type without arrays.
LEMMA PlainDepicted ==
  ASSUME NEW T, NEW o, NEW time, NEW n, NEW scalars, NEW N, N \subseteq DOMAIN scalars,
         DOMAIN scalars \cap ArrayProperties = {},
         \A p, i : Object_Read_Property(o, time, T, n, p, i) = {Reading(scalars, NoArrays, p, i)},
         NEW l1 \in Seq(N), NEW l2 \in Seq(N), NEW l3 \in Seq(N),
         Device_Objects_Property_List(T) = << l1, l2, l3 >>
  PROVE  Depicted(o, time, T, n)
  <1>1. \A p : p \notin DOMAIN NoArrays BY DEF NoArrays
  <1>2. ASSUME NEW p \in N PROVE Pictured(o, time, T, n, p)
    BY <1>1, ScalarPictured
  <1> QED BY <1>2, Depict

LEMMA Analog_Input_Depicted ==
  ASSUME NEW o, NEW time, NEW n
  PROVE  Depicted(o, time, "ai", n)
  <1> DEFINE x == o["ai"]
             own == [present_value |-> << "real", Analog_Input_Present_Value(x, n) >>,
                     units |-> << "enumerated", "percent" >>]
             mine == {"present_value", "units"}
  <1>1. DOMAIN own = mine OBVIOUS
  <1> HIDE DEF own
  <1>2. PICK name : name = Analog_Input_Name(n) OBVIOUS
  <1>20. PICK flagged : flagged = Flagged(FALSE, FALSE) BY Zenon
  <1>3. PICK scalars : scalars = Identified("ai", n, name) ++ Described(name) ++ flagged ++ own ++ Proprietary
    OBVIOUS
  <1>4. DOMAIN scalars = Everywhere \cup OfService \cup mine \cup {"9997", "9998", "9999"}
    <2>1. DOMAIN flagged = OfService BY <1>20, Zenon DEF Flagged, OfService
    <2>2. PICK most : most = Identified("ai", n, name) ++ Described(name) ++ flagged ++ own OBVIOUS
    <2>3. DOMAIN most = Everywhere \cup OfService \cup DOMAIN own
      <3>1. PICK some : some = Identified("ai", n, name) ++ Described(name) ++ flagged OBVIOUS
      <3>2. DOMAIN some = Everywhere \cup OfService BY <2>1, <3>1, CommonNames
      <3>3. DOMAIN (some ++ own) = DOMAIN some \cup DOMAIN own BY MergedNames, Zenon
      <3> QED BY <2>2, <3>1, <3>2, <3>3, Zenon
    <2>4. DOMAIN Proprietary = {"9997", "9998", "9999"} BY DEF Proprietary
    <2>5. DOMAIN scalars = DOMAIN most \cup DOMAIN Proprietary BY <1>3, <2>2, MergedNames, Zenon
    <2> QED BY <1>1, <2>3, <2>4, <2>5
  <1>5. ASSUME NEW p, NEW i
        PROVE  Object_Read_Property(o, time, "ai", n, p, i) = {Reading(scalars, NoArrays, p, i)}
    <2>1. Analog_Input_Read_Property(x, n, p, i) = Reading(scalars, NoArrays, p, i)
      BY <1>2, <1>20, <1>3, Zenon DEF Analog_Input_Read_Property, own
    <2> QED BY <2>1, MoreReadFunctions
  <1>6. DOMAIN scalars \cap ArrayProperties = {} BY <1>4, NoCommonArray DEF ArrayProperties
  <1>7. PICK N : N = DOMAIN scalars OBVIOUS
  <1>8. PICK l1, l2, l3 : << l1, l2, l3 >> = Analog_Input_Property_Lists
                          /\ l1 \in Seq(N) /\ l2 \in Seq(N) /\ l3 \in Seq(N)
    <2>1. /\ << "object_identifier", "object_name", "object_type", "present_value",
                "status_flags", "event_state", "out_of_service", "units" >> \in Seq(N)
          /\ << "description" >> \in Seq(N) /\ << "9997", "9998", "9999" >> \in Seq(N)
      BY <1>4, <1>7 DEF Everywhere, OfService
    <2> QED BY <2>1 DEF Analog_Input_Property_Lists
  <1> QED BY <1>5, <1>6, <1>7, <1>8, PropertyLists, PlainDepicted

LEMMA Binary_Input_Depicted ==
  ASSUME NEW o, NEW time, NEW n
  PROVE  Depicted(o, time, "bi", n)
  <1> DEFINE x == o["bi"]
             own == [present_value |-> << "enumerated", x[n].value >>,
                     polarity |-> << "enumerated", Binary_Input_Polarity(x, n) >>]
             mine == {"present_value", "polarity"}
  <1>1. DOMAIN own = mine OBVIOUS
  <1> HIDE DEF own
  <1>2. PICK name, flagged : name = Binary_Input_Name(n) /\ flagged = Flagged(x[n].oos, x[n].oos) OBVIOUS
  <1>3. PICK scalars : scalars = Identified("bi", n, name) ++ Described(name) ++ flagged ++ own
    OBVIOUS
  <1>4. DOMAIN scalars = Everywhere \cup OfService \cup mine
    <2>1. DOMAIN flagged = OfService BY <1>2 DEF Flagged, OfService
    <2>2. DOMAIN scalars = Everywhere \cup OfService \cup DOMAIN own
      BY <1>3, <2>1, ServiceNames
    <2> QED BY <1>1, <2>2, Zenon
  <1>5. ASSUME NEW p, NEW i
        PROVE  Object_Read_Property(o, time, "bi", n, p, i) = {Reading(scalars, NoArrays, p, i)}
    <2>1. Binary_Input_Read_Property(x, n, p, i) = Reading(scalars, NoArrays, p, i)
      BY <1>2, <1>3 DEF Binary_Input_Read_Property, own
    <2> QED BY <2>1, OtherReadFunctions
  <1>6. DOMAIN scalars \cap ArrayProperties = {} BY <1>4, NoCommonArray DEF ArrayProperties
  <1>7. PICK N : N = DOMAIN scalars OBVIOUS
  <1>8. PICK l1, l2, l3 : << l1, l2, l3 >> = Binary_Input_Property_Lists
                          /\ l1 \in Seq(N) /\ l2 \in Seq(N) /\ l3 \in Seq(N)
    <2>1. /\ << "object_identifier", "object_name", "object_type", "present_value",
                "status_flags", "event_state", "out_of_service", "polarity" >> \in Seq(N)
          /\ << "description" >> \in Seq(N) /\ << >> \in Seq(N)
      BY <1>4, <1>7 DEF Everywhere, OfService
    <2> QED BY <2>1 DEF Binary_Input_Property_Lists
  <1> QED BY <1>5, <1>6, <1>7, <1>8, PropertyLists, PlainDepicted

LEMMA Life_Safety_Point_Depicted ==
  ASSUME NEW o, NEW time, NEW n
  PROVE  Depicted(o, time, "lsp", n)
  <1> DEFINE x == o["lsp"]
             own == [present_value |-> << "enumerated", Life_Safety_Point_Present_Value(x, n) >>,
                     reliability |-> << "enumerated", "no_fault_detected" >>,
                     mode |-> << "enumerated", x[n].mode >>,
                     accepted_modes |-> << "enumerated", 0 .. MAX_LIFE_SAFETY_MODE - 1 >>,
                     silenced |-> << "enumerated", x[n].silenced >>,
                     operation_expected |-> << "enumerated", x[n].operation >>]
             mine == {"present_value", "reliability", "mode", "accepted_modes", "silenced",
                      "operation_expected"}
  <1>1. DOMAIN own = mine OBVIOUS
  <1> HIDE DEF own
  <1>2. PICK name, flagged : name = Life_Safety_Point_Name(n) /\ flagged = Flagged(x[n].oos, FALSE) OBVIOUS
  <1>3. PICK scalars : scalars = Identified("lsp", n, name) ++ Described(name) ++ flagged ++ own
    OBVIOUS
  <1>4. DOMAIN scalars = Everywhere \cup OfService \cup mine
    <2>1. DOMAIN flagged = OfService BY <1>2 DEF Flagged, OfService
    <2>2. DOMAIN scalars = Everywhere \cup OfService \cup DOMAIN own
      <3>1. PICK some : some = Identified("lsp", n, name) ++ Described(name) ++ flagged OBVIOUS
      <3>2. DOMAIN some = Everywhere \cup OfService BY <2>1, <3>1, CommonNames
      <3>3. DOMAIN (some ++ own) = DOMAIN some \cup DOMAIN own BY MergedNames, Zenon
      <3> QED BY <1>3, <3>1, <3>2, <3>3, Zenon
    <2> QED BY <1>1, <2>2, Zenon
  <1>5. ASSUME NEW p, NEW i
        PROVE  Object_Read_Property(o, time, "lsp", n, p, i) = {Reading(scalars, NoArrays, p, i)}
    <2>1. Life_Safety_Point_Read_Property(x, n, p, i) = Reading(scalars, NoArrays, p, i)
      BY <1>2, <1>3 DEF Life_Safety_Point_Read_Property, own
    <2> QED BY <2>1, OtherReadFunctions
  <1>6. DOMAIN scalars \cap ArrayProperties = {} BY <1>4, NoCommonArray DEF ArrayProperties
  <1>7. PICK N : N = DOMAIN scalars OBVIOUS
  <1>8. PICK l1, l2, l3 : << l1, l2, l3 >> = Life_Safety_Point_Property_Lists
                          /\ l1 \in Seq(N) /\ l2 \in Seq(N) /\ l3 \in Seq(N)
    <2>1. /\ << "object_identifier", "object_name", "object_type", "present_value",
                "status_flags", "event_state", "out_of_service", "reliability",
                "mode", "accepted_modes", "silenced", "operation_expected" >> \in Seq(N)
          /\ << "description" >> \in Seq(N) /\ << >> \in Seq(N)
      BY <1>4, <1>7 DEF Everywhere, OfService
    <2> QED BY <2>1 DEF Life_Safety_Point_Property_Lists
  <1> QED BY <1>5, <1>6, <1>7, <1>8, PropertyLists, PlainDepicted

LEMMA Load_Control_Depicted ==
  ASSUME NEW o, NEW time, NEW n
  PROVE  Depicted(o, time, "lc", n)
  <1>0. PICK lc : lc = o["lc"] OBVIOUS
  <1>1. PICK load : load = lc[n] OBVIOUS
  <1> DEFINE own == [present_value |-> << "enumerated", Load_Control_Present_Value(lc, n) >>,
                     status_flags |-> << "bits", << FALSE, FALSE, FALSE, FALSE >> >>,
                     event_state |-> << "enumerated", "normal" >>,
                     requested_shed_level |-> load.request,
                     expected_shed_level |-> load.expected,
                     actual_shed_level |-> load.actual,
                     start_time |-> << "datetime", load.start >>,
                     shed_duration |-> << "unsigned", load.duration >>,
                     duty_window |-> << "unsigned", load.window >>,
                     enable |-> << "boolean", load.enable >>,
                     full_duty_baseline |-> << "real", Full_Duty_Baseline >>]
             mine == {"present_value", "status_flags", "event_state", "requested_shed_level",
                      "expected_shed_level", "actual_shed_level", "start_time", "shed_duration",
                      "duty_window", "enable", "full_duty_baseline"}
             tables == {"shed_levels", "shed_level_descriptions"}
  <1>2. DOMAIN own = mine OBVIOUS
  <1> HIDE DEF own
  <1>3. PICK name : name = Load_Control_Name(n) OBVIOUS
  <1>4. PICK scalars, arrays : /\ scalars = Identified("lc", n, name) ++ Described(name) ++ own
                               /\ arrays = Load_Control_Arrays(load)
    OBVIOUS
  <1>5. DOMAIN scalars = Everywhere \cup mine
    <2>1. PICK both : both = Identified("lc", n, name) ++ Described(name) OBVIOUS
    <2>2. DOMAIN both = Everywhere BY <2>1, IdentifiedNames
    <2>3. DOMAIN (both ++ own) = DOMAIN both \cup DOMAIN own BY MergedNames, Zenon
    <2> QED BY <1>2, <1>4, <2>1, <2>2, <2>3, Zenon
  <1>6. ASSUME NEW p, NEW i
        PROVE  Object_Read_Property(o, time, "lc", n, p, i) = {Reading(scalars, arrays, p, i)}
    <2>1. Load_Control_Read_Property(lc, n, p, i) = Reading(scalars, arrays, p, i)
      BY <1>1, <1>3, <1>4, Zenon DEF Load_Control_Read_Property, own
    <2> QED BY <1>0, <2>1, OtherReadFunctions
  <1>7. DOMAIN arrays = tables /\ \A a \in DOMAIN arrays : Elementary(arrays[a])
    <2>1. PICK s, t : s = arrays["shed_levels"] /\ t = arrays["shed_level_descriptions"] OBVIOUS
    <2>2. /\ DOMAIN arrays = tables
          /\ s = [j \in 1 .. MAX_SHED_LEVELS |-> << "unsigned", load.levels[j] >>]
          /\ t = [j \in 1 .. MAX_SHED_LEVELS |-> << "string", << "dim lights", 10 * j >> >>]
      BY <1>4, <2>1, Zenon DEF Load_Control_Arrays
    <2>3. /\ s = [j \in 1 .. MAX_SHED_LEVELS |-> s[j]]
          /\ t = [j \in 1 .. MAX_SHED_LEVELS |-> t[j]]
      BY <2>2, Zenon
    <2>4. MAX_SHED_LEVELS \in Nat BY DEF MAX_SHED_LEVELS
    <2>5. Elementary(s) /\ Elementary(t) BY <2>3, <2>4, Zenon DEF Elementary
    <2> QED BY <2>1, <2>2, <2>5, Zenon
  <1>8. DOMAIN scalars \cap ArrayProperties = {} BY <1>5, NoCommonArray DEF ArrayProperties
  <1>9. DOMAIN arrays \subseteq ArrayProperties BY <1>7 DEF ArrayProperties
  <1>10. PICK N : N = DOMAIN scalars \cup DOMAIN arrays OBVIOUS
  <1>11. ASSUME NEW p \in N PROVE Pictured(o, time, "lc", n, p)
    BY <1>6, <1>7, <1>8, <1>9, <1>10, TablePictured
  <1>12. PICK l1, l2, l3 : << l1, l2, l3 >> = Load_Control_Property_Lists
                           /\ l1 \in Seq(N) /\ l2 \in Seq(N) /\ l3 \in Seq(N)
    <2>1. /\ << "object_identifier", "object_name", "object_type", "present_value",
                "status_flags", "event_state", "requested_shed_level", "start_time",
                "shed_duration", "duty_window", "enable", "expected_shed_level",
                "actual_shed_level", "shed_levels", "shed_level_descriptions" >> \in Seq(N)
          /\ << "description", "full_duty_baseline" >> \in Seq(N) /\ << >> \in Seq(N)
      BY <1>5, <1>7, <1>10 DEF Everywhere
    <2> QED BY <2>1 DEF Load_Control_Property_Lists
  <1> QED BY <1>11, <1>12, PropertyLists, Depict

LEMMA Trend_Log_Depicted ==
  ASSUME NEW o, NEW time, NEW n
  PROVE  Depicted(o, time, "tl", n)
  <1>0. PICK tl : tl = o["tl"] OBVIOUS
  <1>1. PICK log : log = tl[n] OBVIOUS
  <1> DEFINE own == [enable |-> << "boolean", log.enable >>,
                     stop_when_full |-> << "boolean", log.stopWhenFull >>,
                     buffer_size |-> << "unsigned", TL_MAX_ENTRIES >>,
                     record_count |-> << "unsigned", log.count >>,
                     total_record_count |-> << "unsigned", log.total >>,
                     event_state |-> << "enumerated", "normal" >>,
                     logging_type |-> << "enumerated", log.type >>,
                     status_flags |-> << "bits", AllClear >>,
                     start_time |-> << "datetime", log.start >>,
                     stop_time |-> << "datetime", log.stop >>,
                     log_device_object_property |-> << "reference", log.source >>,
                     log_interval |-> << "unsigned", log.interval * 100 >>,
                     align_intervals |-> << "boolean", log.aligned >>,
                     interval_offset |-> << "unsigned", log.offset * 100 >>,
                     trigger |-> << "boolean", log.trigger >>]
             mine == {"enable", "stop_when_full", "buffer_size", "record_count",
                      "total_record_count", "event_state", "logging_type", "status_flags",
                      "start_time", "stop_time", "log_device_object_property", "log_interval",
                      "align_intervals", "interval_offset", "trigger"}
  <1>2. DOMAIN own = mine OBVIOUS
  <1> HIDE DEF own
  <1>3. PICK name : name = Trend_Log_Name(n) OBVIOUS
  <1>4. PICK scalars : scalars = Identified("tl", n, name) ++ Described(name) ++ own OBVIOUS
  <1>5. DOMAIN scalars = Everywhere \cup mine
    <2>1. PICK both : both = Identified("tl", n, name) ++ Described(name) OBVIOUS
    <2>2. DOMAIN both = Everywhere BY <2>1, IdentifiedNames
    <2>3. DOMAIN (both ++ own) = DOMAIN both \cup DOMAIN own BY MergedNames, Zenon
    <2> QED BY <1>2, <1>4, <2>1, <2>2, <2>3, Zenon
  <1>6. ASSUME NEW p, p # "log_buffer", NEW i
        PROVE  Object_Read_Property(o, time, "tl", n, p, i) = {Reading(scalars, NoArrays, p, i)}
    <2>1. Trend_Log_Read_Property(tl, n, p, i) = Reading(scalars, NoArrays, p, i)
      BY <1>1, <1>3, <1>4, <1>6, Zenon DEF Trend_Log_Read_Property, own
    <2> QED BY <1>0, <2>1, OtherReadFunctions
  <1>7. DOMAIN scalars \cap ArrayProperties = {} BY <1>5, NoCommonArray DEF ArrayProperties
  <1>8. PICK N : N = DOMAIN scalars \cup {"log_buffer"} OBVIOUS
  <1>9. ASSUME NEW p \in N PROVE Pictured(o, time, "tl", n, p)
    <2>1. CASE p = "log_buffer"
      <3>1. PICK r : r = Error("read_access_denied") OBVIOUS
      <3>2. Object_Read_Property(o, time, "tl", n, p, All) = {r}
        <4>1. Trend_Log_Read_Property(tl, n, p, All) = r
          BY <2>1, <3>1 DEF Trend_Log_Read_Property
        <4> QED BY <1>0, <4>1, OtherReadFunctions
      <3>3. r[1] # "abort" BY <3>1 DEF Error
      <3>4. << "tl", p >> \in ReadDenied BY <2>1 DEF ReadDenied
      <3>5. ~ElementsAgree("tl", p) BY <2>1 DEF ElementsAgree, ArrayProperties
      <3>6. ~IndexRefused("tl", p) BY <3>4 DEF IndexRefused
      <3> QED BY <3>2, <3>3, <3>4, <3>5, <3>6 DEF Pictured
    <2>2. CASE p # "log_buffer"
      <3>1. p \in DOMAIN scalars /\ p \notin ArrayProperties BY <1>7, <1>8, <2>2
      <3>2. p \notin DOMAIN NoArrays BY DEF NoArrays
      <3> QED BY <1>6, <2>2, <3>1, <3>2, ScalarPictured
    <2> QED BY <2>1, <2>2
  <1>10. PICK l1, l2, l3 : << l1, l2, l3 >> = Trend_Log_Property_Lists
                           /\ l1 \in Seq(N) /\ l2 \in Seq(N) /\ l3 \in Seq(N)
    <2>1. /\ << "object_identifier", "object_name", "object_type", "enable", "stop_when_full",
                "buffer_size", "log_buffer", "record_count", "total_record_count", "event_state",
                "logging_type", "status_flags" >> \in Seq(N)
          /\ << "description", "start_time", "stop_time", "log_device_object_property",
                "log_interval", "align_intervals", "interval_offset", "trigger" >> \in Seq(N)
          /\ << >> \in Seq(N)
      BY <1>5, <1>8 DEF Everywhere
    <2> QED BY <2>1 DEF Trend_Log_Property_Lists
  <1> QED BY <1>9, <1>10, PropertyLists, Depict

\* A file is read without a look at the index.
LEMMA File_Depicted ==
  ASSUME NEW o, NEW time, NEW n
  PROVE  Depicted(o, time, "file", n)
  <1>0. PICK file : file = o["file"] OBVIOUS
  <1> DEFINE own == [file_type |-> << "string", "TEXT" >>,
                file_size |-> << "unsigned", bacfile_file_size(file, n) >>,
                modification_date |-> << "datetime", << 2006, 4, 1, 7, 0, 3, 1 >> >>,
                archive |-> << "boolean", TRUE >>, read_only |-> << "boolean", TRUE >>,
                file_access_method |-> << "enumerated", "stream" >>]
             mine == {"file_type", "file_size", "modification_date", "archive", "read_only",
                      "file_access_method"}
  <1>2. DOMAIN own = mine OBVIOUS
  <1>3. PICK id, described : id = Identified("file", n, << "FILE", n >>) /\ described = Described(bacfile_name(n)) OBVIOUS
  <1>4. PICK scalars : scalars = id ++ described ++ own OBVIOUS
  <1>6. ASSUME NEW p, NEW i
        PROVE  Object_Read_Property(o, time, "file", n, p, i) = {Reading(scalars, NoArrays, p, All)}
    <2>1. bacfile_read_property(file, n, p) = Reading(scalars, NoArrays, p, All)
      BY <1>3, <1>4 DEF bacfile_read_property
    <2> QED BY <1>0, <2>1, MoreReadFunctions
  <1> HIDE DEF own
  <1>5. DOMAIN scalars = Everywhere \cup mine
    <2>1. DOMAIN id = {"object_identifier", "object_name", "object_type"} BY <1>3 DEF Identified
    <2>2. DOMAIN described = {"description"} BY <1>3 DEF Described
    <2>3. DOMAIN (id ++ described) = DOMAIN id \cup DOMAIN described BY MergedNames, Zenon
    <2>4. DOMAIN (id ++ described) = Everywhere BY <2>1, <2>2, <2>3 DEF Everywhere
    <2>5. DOMAIN scalars = DOMAIN (id ++ described) \cup DOMAIN own BY <1>4, MergedNames
    <2> QED BY <1>2, <2>4, <2>5, Zenon
  <1>7. DOMAIN scalars \cap ArrayProperties = {} BY <1>5, NoCommonArray DEF ArrayProperties
  <1>8. PICK N : N = DOMAIN scalars OBVIOUS
  <1>9. ASSUME NEW p \in N PROVE Pictured(o, time, "file", n, p)
    <2>1. PICK r : r = Ack(scalars[p]) OBVIOUS
    <2>2. p \notin DOMAIN NoArrays BY DEF NoArrays
    <2>3. Reading(scalars, NoArrays, p, All) = r BY <1>8, <2>1, <2>2, ScalarRead
    <2>4. Object_Read_Property(o, time, "file", n, p, All) = {r} BY <1>6, <2>3
    <2>5. r[1] = "ack" BY <2>1 DEF Ack
    <2>6. ~ElementsAgree("file", p) BY <1>7, <1>8 DEF ElementsAgree
    <2>7. ~IndexRefused("file", p) BY DEF IndexRefused
    <2> QED BY <2>4, <2>5, <2>6, <2>7 DEF Pictured
  <1>10. PICK l1, l2, l3 : << l1, l2, l3 >> = BACfile_Property_Lists
                           /\ l1 \in Seq(N) /\ l2 \in Seq(N) /\ l3 \in Seq(N)
    <2>1. /\ << "object_identifier", "object_name", "object_type", "file_type", "file_size",
                "modification_date", "archive", "read_only", "file_access_method" >> \in Seq(N)
          /\ << "description" >> \in Seq(N) /\ << >> \in Seq(N)
      BY <1>5, <1>8 DEF Everywhere
    <2> QED BY <2>1 DEF BACfile_Property_Lists
  <1> QED BY <1>9, <1>10, PropertyLists, Depict

LEMMA Multistate_Input_Depicted ==
  ASSUME NEW o, NEW time, NEW n,
         NEW octets \in Nat, octets = Octets(o["msi"][n].states), octets < MAX_APDU
  PROVE  Depicted(o, time, "msi", n)
  <1>0. PICK msi : msi = o["msi"] OBVIOUS
  <1> DEFINE own == [present_value |-> << "unsigned", msi[n].value >>,
                     number_of_states |-> << "unsigned", NUMBER_OF_STATES >>]
             mine == {"present_value", "number_of_states"}
             texts == [s \in 1 .. NUMBER_OF_STATES |-> << "string", Multistate_Input_State_Text(msi, n, s) >>]
  <1>1. DOMAIN own = mine OBVIOUS
  <1> HIDE DEF own
  <1>2. PICK flagged : flagged = Flagged(msi[n].oos, FALSE) OBVIOUS
  <1>3. PICK both : both = Identified("msi", n, Multistate_Input_Name(msi, n))
                            ++ Described(Multistate_Input_Description(msi, n))
    OBVIOUS
  <1>4. PICK scalars : scalars = both ++ flagged ++ own OBVIOUS
  <1>5. PICK arrays : arrays = [state_text |-> texts] OBVIOUS
  <1>6. DOMAIN scalars = Everywhere \cup OfService \cup mine
    <2>1. DOMAIN flagged = OfService BY <1>2, FlagsDown
    <2>2. DOMAIN both = Everywhere BY <1>3, IdentifiedNames
    <2>3. DOMAIN (both ++ flagged) = Everywhere \cup OfService BY <2>1, <2>2, MergedNames
    <2>4. DOMAIN scalars = DOMAIN (both ++ flagged) \cup DOMAIN own BY <1>4, MergedNames
    <2> QED BY <1>1, <2>3, <2>4
  <1>7. ASSUME NEW p, NEW i
        PROVE  Object_Read_Property(o, time, "msi", n, p, i) = {Reading(scalars, arrays, p, i)}
    <2>1. ~(p = "state_text" /\ i = All /\ Octets(msi[n].states) >= MAX_APDU)
      <3>1. octets = Octets(msi[n].states) BY <1>0
      <3>2. ~(octets >= MAX_APDU) BY PropertiesAssumption
      <3> QED BY <3>1, <3>2, Zenon
    <2>2. Multistate_Input_Read_Property(msi, n, p, i) = Reading(scalars, arrays, p, i)
      BY <1>2, <1>3, <1>4, <1>5, <2>1, Zenon DEF Multistate_Input_Read_Property, own
    <2> QED BY <1>0, <2>2, OtherReadFunctions
  <1>8. DOMAIN arrays = {"state_text"} /\ \A a \in DOMAIN arrays : Elementary(arrays[a])
    <2>1. PICK s : s = arrays["state_text"] OBVIOUS
    <2>2. DOMAIN arrays = {"state_text"} /\ s = texts BY <1>5, <2>1
    <2>3. s = [j \in 1 .. NUMBER_OF_STATES |-> s[j]] BY <2>2, Zenon
    <2>4. NUMBER_OF_STATES \in Nat BY InputsAssumption
    <2>5. Elementary(s) BY <2>3, <2>4, Zenon DEF Elementary
    <2> QED BY <2>1, <2>2, <2>5, Zenon
  <1>9. DOMAIN scalars \cap ArrayProperties = {} BY <1>6, NoCommonArray DEF ArrayProperties
  <1>10. DOMAIN arrays \subseteq ArrayProperties BY <1>8 DEF ArrayProperties
  <1>11. PICK N : N = DOMAIN scalars \cup DOMAIN arrays OBVIOUS
  <1>12. ASSUME NEW p \in N PROVE Pictured(o, time, "msi", n, p)
    BY <1>7, <1>8, <1>9, <1>10, <1>11, TablePictured
  <1>13. PICK l1, l2, l3 : << l1, l2, l3 >> = Multistate_Input_Property_Lists
                           /\ l1 \in Seq(N) /\ l2 \in Seq(N) /\ l3 \in Seq(N)
    <2>1. /\ << "object_identifier", "object_name", "object_type", "present_value",
                "status_flags", "event_state", "out_of_service", "number_of_states" >> \in Seq(N)
          /\ << "description", "state_text" >> \in Seq(N) /\ << >> \in Seq(N)
      BY <1>6, <1>8, <1>11 DEF Everywhere, OfService
    <2> QED BY <2>1 DEF Multistate_Input_Property_Lists
  <1> QED BY <1>12, <1>13, PropertyLists, Depict

\* The whole object list, its elements and its length, where the whole of it fits.
LEMMA ListPictured ==
  ASSUME NEW o, NEW time, NEW n, NEW count \in Nat, count = Device_Object_List_Count(o["device"]),
         5 * count + 5 < MAX_APDU
  PROVE  Pictured(o, time, "device", n, "object_list")
  <1> DEFINE Id(k) == << "object_id", Listed(o["device"], k) >>
  <1>1. ASSUME NEW i
        PROVE  Object_Read_Property(o, time, "device", n, "object_list", i)
                    = {Object_List_Read(o["device"], i)}
    <2>1. Device_Read_Property_Local(o, time, "object_list", i) = Object_List_Read(o["device"], i)
      BY Zenon DEF Device_Read_Property_Local
    <2> QED BY <2>1, OtherReadFunctions
  <1>2. PICK s : s = [k \in 1 .. count |-> Id(k)] OBVIOUS
  <1>3. Len(s) = count /\ DOMAIN s = 1 .. count
    <2>1. s = [k \in 1 .. count |-> s[k]] BY <1>2
    <2> QED BY <2>1, AsLong
  <1>4. All \notin Nat BY PropertiesAssumption
  <1>5. Object_List_Read(o["device"], All) = Ack(s)
    <2>1. ~(5 * count + 5 >= MAX_APDU) BY PropertiesAssumption
    <2>2. All # 0 BY <1>4
    <2>3. All \notin 1 .. count BY <1>4
    <2>4. ASSUME NEW i, i = All PROVE Object_List_Read(o["device"], i) = Ack(s)
      <3>1. i # 0 /\ i \notin 1 .. count BY <2>2, <2>3, <2>4
      <3> QED BY <1>2, <2>1, <2>4, <3>1 DEF Object_List_Read
    <2> QED BY <2>4
  <1>6. Object_List_Read(o["device"], 0) = Ack(<< "unsigned", Len(s) >>)
    BY <1>3, <1>4 DEF Object_List_Read
  <1>7. ASSUME NEW i \in 1 .. count PROVE Object_List_Read(o["device"], i) = Ack(s[i])
    <2>1. i # 0 /\ i # All BY <1>4
    <2>2. s[i] = Id(i) BY <1>2
    <2> QED BY <2>1, <2>2, Zenon DEF Object_List_Read
  <1>8. Object_List_Read(o["device"], count + 1) = Error("invalid_array_index")
    <2>1. count + 1 # 0 /\ count + 1 # All /\ count + 1 \notin 1 .. count BY <1>4
    <2> QED BY <2>1, Zenon DEF Object_List_Read
  <1>9. PICK r : r = Ack(s) OBVIOUS
  <1>10. r[1] = "ack" /\ r[2] = s BY <1>9 DEF Ack
  <1>11. ~IndexRefused("device", "object_list") BY DEF IndexRefused, ArrayProperties
  <1>12. /\ Object_Read_Property(o, time, "device", n, "object_list", 0)
                = {Ack(<< "unsigned", Len(s) >>)}
         /\ \A i \in DOMAIN s :
                Object_Read_Property(o, time, "device", n, "object_list", i) = {Ack(s[i])}
         /\ Object_Read_Property(o, time, "device", n, "object_list", Len(s) + 1)
                = {Error("invalid_array_index")}
    BY <1>1, <1>3, <1>6, <1>7, <1>8
  <1>13. Object_Read_Property(o, time, "device", n, "object_list", All) = {r}
    BY <1>1, <1>5, <1>9
  <1> HIDE DEF Id
  <1> QED BY <1>10, <1>11, <1>12, <1>13 DEF Pictured

LEMMA Device_Depicted ==
  ASSUME NEW o, NEW time, NEW n, Device_Object_List_Count(o["device"]) \in Nat,
         5 * Device_Object_List_Count(o["device"]) + 5 < MAX_APDU
  PROVE  Depicted(o, time, "device", n)
  <1>0. PICK device : device = o["device"] OBVIOUS
  <1> DEFINE own == [description |-> << "string", device.description >>,
                     system_status |-> << "enumerated", device.status >>,
                     vendor_name |-> << "string", "BITS" >>,
                     vendor_identifier |-> << "unsigned", device.vendor >>,
                     model_name |-> << "string", device.model >>,
                     firmware_revision |-> << "string", "BACnet_Version" >>,
                     application_software_version |-> << "string", device.version >>,
                     location |-> << "string", device.location >>,
                     local_time |-> << "time", time >>, local_date |-> << "date", time >>,
                     utc_offset |-> << "signed", 300 >>,
                     daylight_savings_status |-> << "boolean", FALSE >>,
                     protocol_version |-> << "unsigned", 1 >>,
                     protocol_revision |-> << "unsigned", 5 >>,
                     protocol_services_supported |-> Unread("services"),
                     protocol_object_types_supported |->
                        << "bits", {type \in Types : Device_Objects_Find_Functions(type)} >>,
                     max_apdu_length_accepted |-> << "unsigned", MAX_APDU >>,
                     segmentation_supported |-> << "enumerated", "none" >>,
                     apdu_timeout |-> << "unsigned", device.timeout >>,
                     number_of_apdu_retries |-> << "unsigned", device.retries >>,
                     device_address_binding |-> Unread("address cache"),
                     database_revision |-> << "unsigned", device.revision >>,
                     active_cov_subscriptions |-> Unread("subscriptions")]
             mine == {"description", "system_status", "vendor_name", "vendor_identifier",
                      "model_name", "firmware_revision", "application_software_version", "location",
                      "local_time", "local_date", "utc_offset", "daylight_savings_status",
                      "protocol_version", "protocol_revision", "protocol_services_supported",
                      "protocol_object_types_supported", "max_apdu_length_accepted",
                      "segmentation_supported", "apdu_timeout", "number_of_apdu_retries",
                      "device_address_binding", "database_revision", "active_cov_subscriptions"}
             first == {"object_identifier", "object_name", "object_type"}
  <1>1. DOMAIN own = mine OBVIOUS
  <1> HIDE DEF own
  <1>2. PICK id : id = Identified("device", device.instance, device.name) OBVIOUS
  <1>3. PICK scalars : scalars = id ++ own OBVIOUS
  <1>4. DOMAIN scalars = first \cup mine
    <2>1. DOMAIN id = first BY <1>2 DEF Identified
    <2>2. DOMAIN scalars = DOMAIN id \cup DOMAIN own BY <1>3, MergedNames
    <2> QED BY <1>1, <2>1, <2>2, Zenon
  <1>5. ASSUME NEW p, p # "object_list", NEW i
        PROVE  Object_Read_Property(o, time, "device", n, p, i) = {Reading(scalars, NoArrays, p, i)}
    <2>1. Device_Read_Property_Local(o, time, p, i) = Reading(scalars, NoArrays, p, i)
      BY <1>0, <1>2, <1>3, <1>5, Zenon DEF Device_Read_Property_Local, own
    <2> QED BY <2>1, OtherReadFunctions
  <1>6. DOMAIN scalars \cap ArrayProperties = {} BY <1>4 DEF ArrayProperties
  <1>7. PICK N : N = DOMAIN scalars \cup {"object_list"} OBVIOUS
  <1>8. ASSUME NEW p \in N PROVE Pictured(o, time, "device", n, p)
    <2>1. CASE p = "object_list" BY <2>1, ListPictured
    <2>2. CASE p # "object_list"
      <3>1. p \in DOMAIN scalars /\ p \notin ArrayProperties BY <1>6, <1>7, <2>2
      <3>2. p \notin DOMAIN NoArrays BY DEF NoArrays
      <3> QED BY <1>5, <2>2, <3>1, <3>2, ScalarPictured
    <2> QED BY <2>1, <2>2
  <1>9. PICK l1, l2, l3 : << l1, l2, l3 >> = Device_Property_Lists
                          /\ l1 \in Seq(N) /\ l2 \in Seq(N) /\ l3 \in Seq(N)
    <2>1. /\ << "object_identifier", "object_name", "object_type", "system_status", "vendor_name",
                "vendor_identifier", "model_name", "firmware_revision",
                "application_software_version", "protocol_version", "protocol_revision",
                "protocol_services_supported", "protocol_object_types_supported", "object_list",
                "max_apdu_length_accepted", "segmentation_supported", "apdu_timeout",
                "number_of_apdu_retries", "device_address_binding", "database_revision" >> \in Seq(N)
          /\ << "description", "local_time", "utc_offset", "local_date", "daylight_savings_status",
                "location", "active_cov_subscriptions" >> \in Seq(N)
          /\ << >> \in Seq(N)
      BY <1>4, <1>7
    <2> QED BY <2>1 DEF Device_Property_Lists
  <1> QED BY <1>8, <1>9, PropertyLists, Depict

-----------------------------------------------------------------------------
(* The state texts of a multistate input, and the octets they take. *)
\* The octets of the first texts, one after the other.
OctetsUpto(g, texts) ==
    g = [k \in 0 .. Len(texts) |->
            IF k = 0 THEN 0
            ELSE g[k - 1] + (IF texts[k] + 1 > 4 THEN 3 ELSE 2) + texts[k]]
LEMMA OctetsExist ==
  ASSUME NEW texts, NEW last \in Nat, Len(texts) = last
  PROVE  \E g : OctetsUpto(g, texts)
  <1> DEFINE More(k) == (IF texts[k] + 1 > 4 THEN 3 ELSE 2)
             Upto(g, m) == g = [k \in 0 .. m |-> IF k = 0 THEN 0 ELSE g[k - 1] + More(k) + texts[k]]
             Bad == {m \in Nat : ~ \E g : Upto(g, m)}
  <1> HIDE DEF More
  <1>1. \E g : Upto(g, 0)
    <2> DEFINE g == [k \in 0 .. 0 |-> 0]
    <2>1. Upto(g, 0) OBVIOUS
    <2> QED BY <2>1
  <1>2. ASSUME NEW m \in Nat, NEW g, Upto(g, m) PROVE \E h : Upto(h, m + 1)
    <2> DEFINE h == [k \in 0 .. m + 1 |-> IF k = 0 THEN 0 ELSE g[k - 1] + More(k) + texts[k]]
    <2>1. ASSUME NEW k \in 0 .. m PROVE h[k] = g[k]
      <3>1. k \in 0 .. m + 1 OBVIOUS
      <3>2. g[k] = IF k = 0 THEN 0 ELSE g[k - 1] + More(k) + texts[k] BY <1>2, Zenon
      <3> QED BY <3>1, <3>2, Zenon
    <2>2. h = [k \in 0 .. m + 1 |-> IF k = 0 THEN 0 ELSE h[k - 1] + More(k) + texts[k]]
      <3>1. ASSUME NEW k \in 0 .. m + 1, k # 0 PROVE g[k - 1] = h[k - 1]
        <4>1. k - 1 \in 0 .. m BY <3>1
        <4> QED BY <2>1, <4>1
      <3> QED BY <3>1
    <2>3. Upto(h, m + 1) BY <2>2
    <2> HIDE DEF h, Upto
    <2> QED BY <2>3
  <1> HIDE DEF Upto
  <1>3. Bad = {}
    <2> SUFFICES ASSUME Bad # {} PROVE FALSE OBVIOUS
    <2>1. PICK m \in Bad : \A k \in Bad : m <= k BY LeastExists
    <2>2. m # 0 BY <1>1
    <2>3. m - 1 \in Nat /\ ~(m - 1 \in Bad) BY <2>1, <2>2
    <2>4. PICK g : Upto(g, m - 1) BY <2>3
    <2>5. \E h : Upto(h, (m - 1) + 1) BY <2>3, <2>4, <1>2
    <2>6. (m - 1) + 1 = m OBVIOUS
    <2> QED BY <2>5, <2>6
  <1>4. PICK g : Upto(g, last) BY <1>3
  <1>5. OctetsUpto(g, texts) BY <1>4 DEF OctetsUpto, Upto, More
  <1> QED BY <1>5

\* A text of at most two characters takes at most four octets.
ShortText == 0 .. 2
LEMMA OctetsBound ==
  ASSUME NEW last \in Nat, NEW texts \in [1 .. last -> ShortText]
  PROVE  Octets(texts) \in 0 .. 4 * last
  <1> DEFINE Upto == CHOOSE g : OctetsUpto(g, texts)
             Bad == {m \in Nat : m <= last /\ Upto[m] \notin 0 .. 4 * m}
  <1>1. Len(texts) = last OBVIOUS
  <1>2. OctetsUpto(Upto, texts) BY <1>1, OctetsExist
  <1>3. Octets(texts) = Upto[last] BY <1>1, Zenon DEF Octets, OctetsUpto
  <1> HIDE DEF Upto
  <1>4. \A k \in 0 .. last :
            Upto[k] = IF k = 0 THEN 0
                      ELSE Upto[k - 1] + (IF texts[k] + 1 > 4 THEN 3 ELSE 2) + texts[k]
    BY <1>1, <1>2, Zenon DEF OctetsUpto
  <1>5. Bad = {}
    <2> SUFFICES ASSUME Bad # {} PROVE FALSE OBVIOUS
    <2>1. PICK m \in Bad : \A k \in Bad : m <= k BY LeastExists
    <2>2. m # 0 BY <1>4
    <2>3. m - 1 \in Nat /\ m - 1 <= last /\ ~(m - 1 \in Bad) BY <2>1, <2>2
    <2>4. PICK before : before = Upto[m - 1] OBVIOUS
    <2>5. before \in 0 .. 4 * (m - 1) BY <2>3, <2>4
    <2>6. PICK t : t = texts[m] OBVIOUS
    <2>7. t \in ShortText BY <2>2, <2>6
    <2>8. Upto[m] = before + 2 + t
      <3>1. ~(t + 1 > 4) BY <2>7 DEF ShortText
      <3>2. m \in 0 .. last OBVIOUS
      <3> QED BY <1>4, <2>2, <2>4, <2>6, <3>1, <3>2
    <2>9. Upto[m] \in 0 .. 4 * m BY <2>5, <2>7, <2>8 DEF ShortText
    <2> QED BY <2>9
  <1> QED BY <1>3, <1>5

\* Every state of every multistate input has such a text.
TextsOK(msi) ==
    \A n \in Multistate_Input_Instances :
        /\ n \in DOMAIN msi /\ "states" \in DOMAIN msi[n]
        /\ msi[n]["states"] \in [1 .. NUMBER_OF_STATES -> ShortText]
LEMMA TextsKept ==
  ASSUME NEW x, TextsOK(x), NEW y, DOMAIN y = DOMAIN x,
         \A n \in DOMAIN x : /\ DOMAIN y[n] = DOMAIN x[n]
                             /\ "states" \in DOMAIN x[n] => y[n]["states"] = x[n]["states"]
  PROVE  TextsOK(y)
  BY DEF TextsOK

LEMMA TextsStart == TextsOK(Multistate_Input_Init)
  <1>1. SUFFICES ASSUME NEW n \in Multistate_Input_Instances
                 PROVE  LET r == Multistate_Input_Init[n]
                        IN  /\ n \in DOMAIN Multistate_Input_Init /\ "states" \in DOMAIN r
                            /\ r["states"] \in [1 .. NUMBER_OF_STATES -> ShortText]
    BY DEF TextsOK
  <1>2. PICK r : r = Multistate_Input_Init[n] OBVIOUS
  <1>3. r = [value |-> 0, oos |-> FALSE, name |-> 0, description |-> 0,
             states |-> [s \in 1 .. NUMBER_OF_STATES |-> 0]]
    BY <1>2, Zenon DEF Multistate_Input_Init
  <1>4. n \in DOMAIN Multistate_Input_Init BY Zenon DEF Multistate_Input_Init
  <1>5. "states" \in DOMAIN r /\ r["states"] = [s \in 1 .. NUMBER_OF_STATES |-> 0]
    BY <1>3
  <1>6. [s \in 1 .. NUMBER_OF_STATES |-> 0] \in [1 .. NUMBER_OF_STATES -> ShortText]
    BY DEF ShortText
  <1> QED BY <1>2, <1>4, <1>5, <1>6

LEMMA TextsWritten ==
  ASSUME NEW msi, TextsOK(msi), NEW wp, NEW w, w = Multistate_Input_Write_Property(msi, wp)
  PROVE  TextsOK(w.after)
  <1>1. \/ w.after = msi
        \/ w.after = [msi EXCEPT ![wp.instance].oos = wp.value[2]]
        \/ w.after = [msi EXCEPT ![wp.instance].value = wp.value[2]]
    BY DEF Multistate_Input_Write_Property, OutOfServiceWritten, Multistate_Input_Present_Value_Set,
           Done, Refused
  <1>2. PICK y : y = w.after OBVIOUS
  <1>3. CASE y = msi BY <1>2, <1>3
  <1>4. CASE y = [msi EXCEPT ![wp.instance].oos = wp.value[2]]
    <2>1. /\ DOMAIN y = DOMAIN msi
          /\ \A n \in DOMAIN msi : /\ DOMAIN y[n] = DOMAIN msi[n]
                                   /\ "states" \in DOMAIN msi[n] => y[n]["states"] = msi[n]["states"]
      BY <1>4
    <2> QED BY <1>2, <2>1, TextsKept
  <1>5. CASE y = [msi EXCEPT ![wp.instance].value = wp.value[2]]
    <2>1. /\ DOMAIN y = DOMAIN msi
          /\ \A n \in DOMAIN msi : /\ DOMAIN y[n] = DOMAIN msi[n]
                                   /\ "states" \in DOMAIN msi[n] => y[n]["states"] = msi[n]["states"]
      BY <1>5
    <2> QED BY <1>2, <2>1, TextsKept
  <1> QED BY <1>1, <1>2, <1>3, <1>4, <1>5

LEMMA TextsNamed ==
  ASSUME NEW msi, TextsOK(msi), NEW text \in ShortText, NEW s
  PROVE  TextsOK(Multistate_Input_State_Text_Set(Multistate_Input_Description_Set(
                    Multistate_Input_Name_Set(msi, 0, text), 0, text), 0, s, text))
  <1>1. PICK x : x = Multistate_Input_Name_Set(msi, 0, text) OBVIOUS
  <1>2. TextsOK(x)
    <2>1. /\ DOMAIN x = DOMAIN msi
          /\ \A n \in DOMAIN msi : /\ DOMAIN x[n] = DOMAIN msi[n]
                                   /\ "states" \in DOMAIN msi[n] => x[n]["states"] = msi[n]["states"]
      BY <1>1 DEF Multistate_Input_Name_Set
    <2> QED BY <2>1, TextsKept
  <1>3. PICK y : y = Multistate_Input_Description_Set(x, 0, text) OBVIOUS
  <1>4. TextsOK(y)
    <2>1. /\ DOMAIN y = DOMAIN x
          /\ \A n \in DOMAIN x : /\ DOMAIN y[n] = DOMAIN x[n]
                                 /\ "states" \in DOMAIN x[n] => y[n]["states"] = x[n]["states"]
      BY <1>3 DEF Multistate_Input_Description_Set
    <2> QED BY <1>2, <2>1, TextsKept
  <1>5. PICK z : z = Multistate_Input_State_Text_Set(y, 0, s, text) OBVIOUS
  <1>6. TextsOK(z)
    <2>1. CASE z = y BY <1>4, <2>1
    <2>2. CASE s \in 1 .. NUMBER_OF_STATES /\ z = [y EXCEPT ![0].states[s] = text]
      <3>1. SUFFICES ASSUME NEW n \in Multistate_Input_Instances
                     PROVE  /\ n \in DOMAIN z /\ "states" \in DOMAIN z[n]
                            /\ z[n]["states"] \in [1 .. NUMBER_OF_STATES -> ShortText]
        BY DEF TextsOK
      <3>2. /\ n \in DOMAIN y /\ "states" \in DOMAIN y[n]
            /\ y[n]["states"] \in [1 .. NUMBER_OF_STATES -> ShortText]
        BY <1>4 DEF TextsOK
      <3>3. n \in DOMAIN z /\ DOMAIN z[n] = DOMAIN y[n] BY <2>2, <3>2
      <3>4. \/ z[n]["states"] = y[n]["states"]
            \/ z[n]["states"] = [y[n]["states"] EXCEPT ![s] = text]
        BY <2>2, <3>2
      <3> QED BY <3>2, <3>3, <3>4
    <2> QED BY <1>5, <2>1, <2>2 DEF Multistate_Input_State_Text_Set
  <1> QED BY <1>1, <1>3, <1>5, <1>6

\* Of all that a write can do, this is what it does to the texts.
LEMMA ServiceTexts ==
  ASSUME NEW o, Formed(o), TextsOK(o["msi"]), NEW wp, NEW time, NEW segmented, NEW w,
         w = handler_write_property(o, time, wp, segmented)
  PROVE  TextsOK(w.after["msi"])
  <1>1. CASE w.after = o BY <1>1
  <1>2. CASE w = Device_Write_Property(o, time, wp) /\ w.after # o
    <2>1. PICK written : written = Object_Write_Property(o, time, wp) OBVIOUS
    <2>2. w.after = [o EXCEPT ![wp.type] = written.after]
      BY <1>2, <2>1 DEF Device_Write_Property, Refused
    <2>3. "msi" \in DOMAIN o BY DEF Formed, Types
    <2>4. CASE wp.type # "msi"
      <3>1. w.after["msi"] = o["msi"] BY <2>2, <2>3, <2>4
      <3> QED BY <3>1
    <2>5. CASE wp.type = "msi"
      <3>1. written = Multistate_Input_Write_Property(o["msi"], wp)
        BY <2>1, <2>5, OtherWriteFunctions
      <3>2. w.after["msi"] = written.after BY <2>2, <2>3, <2>5
      <3> QED BY <3>1, <3>2, TextsWritten
    <2> QED BY <2>4, <2>5
  <1> QED BY <1>1, <1>2 DEF handler_write_property

TextsInv == TextsOK(objects["msi"])
LEMMA TextsInit == DeviceServerInit => TextsInv
  <1> SUFFICES ASSUME DeviceServerInit PROVE TextsInv OBVIOUS
  <1>1. objects = Device_Init BY DEF DeviceServerInit
  <1>2. objects["msi"] = Multistate_Input_Init BY <1>1 DEF Device_Init
  <1> QED BY <1>2, TextsStart DEF TextsInv

LEMMA TextsNext == Shape /\ TextsInv /\ [DeviceServerNext]_deviceVars => TextsInv'
  <1> SUFFICES ASSUME Shape, TextsInv, [DeviceServerNext]_deviceVars PROVE TextsInv' OBVIOUS
  <1>a. Formed(objects) /\ "msi" \in DOMAIN objects BY DEF Shape, Formed, Types
  <1>b. objects'["msi"] = objects["msi"] => TextsInv' BY DEF TextsInv
  <1>c. ASSUME NEW T, T # "msi", NEW v, objects' = [objects EXCEPT ![T] = v] PROVE TextsInv'
    <2>1. objects'["msi"] = objects["msi"] BY <1>a, <1>c
    <2> QED BY <1>b, <2>1
  <1>1. ASSUME NEW wp, NEW segmented, Answers(wp, segmented) PROVE TextsInv'
    <2>1. PICK w : w = handler_write_property(objects, now, wp, segmented) OBVIOUS
    <2>2. objects' = w.after BY <1>1, <2>1 DEF Answers
    <2>3. TextsOK(w.after["msi"]) BY <1>a, <2>1, ServiceTexts DEF TextsInv
    <2> QED BY <2>2, <2>3 DEF TextsInv
  <1>2. CASE WriteProperty BY <1>1, <1>2 DEF WriteProperty
  <1>3. CASE WriteSegmented
    <2>1. \E segmented : Answers(NoRequest, segmented) BY <1>3, Zenon DEF WriteSegmented
    <2> QED BY <1>1, <2>1
  <1>4. CASE AtomicWriteFile
    <2>1. PICK v : objects' = [objects EXCEPT !["file"] = v] BY <1>4 DEF AtomicWriteFile
    <2> QED BY <1>c, <2>1
  <1>5. CASE Load_Control_Task
    <2>1. PICK s : s = Load_Control_State_Machine_Handler(objects.lc, objects.ao, now' - lag) OBVIOUS
    <2>2. objects' = [objects EXCEPT !.lc = s.lc, !.ao = s.ao] BY <1>5, <2>1 DEF Load_Control_Task
    <2>3. objects'["msi"] = objects["msi"] BY <1>a, <2>2
    <2> QED BY <1>b, <2>3
  <1>6. CASE Trend_Log_Task
    <2>1. PICK v : objects' = [objects EXCEPT !["tl"] = v] BY <1>6 DEF Trend_Log_Task
    <2> QED BY <1>c, <2>1
  <1>7. CASE Analog_Input_Moves
    <2>1. PICK v : objects' = [objects EXCEPT !["ai"] = v] BY <1>7 DEF Analog_Input_Moves
    <2> QED BY <1>c, <2>1
  <1>8. CASE Binary_Input_Moves
    <2>1. PICK v : objects' = [objects EXCEPT !["bi"] = v] BY <1>8 DEF Binary_Input_Moves
    <2> QED BY <1>c, <2>1
  <1>9. CASE Multistate_Input_Named
    <2>1. PICK text \in 0 .. 2 : objects' = [objects EXCEPT !["msi"] =
            Multistate_Input_State_Text_Set(Multistate_Input_Description_Set(
                Multistate_Input_Name_Set(objects["msi"], 0, text), 0, text), 0, 1 + (text % 2), text)]
      BY <1>9 DEF Multistate_Input_Named
    <2>2. text \in ShortText BY DEF ShortText
    <2>3. PICK y : y = Multistate_Input_State_Text_Set(Multistate_Input_Description_Set(
                Multistate_Input_Name_Set(objects["msi"], 0, text), 0, text), 0, 1 + (text % 2), text)
      OBVIOUS
    <2>4. TextsOK(y) BY <2>2, <2>3, TextsNamed DEF TextsInv
    <2>5. objects'["msi"] = y BY <1>a, <2>1, <2>3
    <2> QED BY <2>4, <2>5 DEF TextsInv
  <1>10. CASE System_Status_Moves
    <2>1. PICK v : objects' = [objects EXCEPT !["device"] = v] BY <1>10 DEF System_Status_Moves
    <2> QED BY <1>c, <2>1
  <1>11. CASE ClockTick BY <1>b, <1>11 DEF ClockTick
  <1>12. CASE UNCHANGED deviceVars BY <1>b, <1>12 DEF deviceVars
  <1> QED BY <1>2, <1>3, <1>4, <1>5, <1>6, <1>7, <1>8, <1>9, <1>10, <1>11, <1>12
      DEF DeviceServerNext

\* The object list is as long whatever number the device has.
LEMMA SameCounts ==
  ASSUME NEW d, NEW e, NEW T \in Types
  PROVE  Object_Count(d, T) = Object_Count(e, T)
  <1>1. CASE T = "device"
    <2>1. Object_Instances(d, T) = {d.instance} /\ Object_Instances(e, T) = {e.instance}
      BY <1>1, Zenon DEF Object_Instances
    <2>2. Cardinality({d.instance}) = 1 /\ Cardinality({e.instance}) = 1 BY FS_Singleton
    <2> QED BY <2>1, <2>2 DEF Object_Count
  <1>2. CASE T # "device"
    <2>1. T \in Writable => Object_Instances(d, T) = Object_Instances(e, T) BY SomeInstances
    <2>2. Object_Instances(d, "ai") = Object_Instances(e, "ai") BY Zenon DEF Object_Instances
    <2>3. Object_Instances(d, "file") = Object_Instances(e, "file") BY Zenon DEF Object_Instances
    <2>4. Object_Instances(d, T) = Object_Instances(e, T)
      BY <1>2, <2>1, <2>2, <2>3 DEF Types, Writable, Commandable
    <2> QED BY <2>4 DEF Object_Count
  <1> QED BY <1>1, <1>2

LEMMA SameLength ==
  ASSUME NEW d, NEW e
  PROVE  /\ Device_Object_List_Count(d) = Device_Object_List_Count(e)
         /\ Device_Object_List_Count(d) \in Nat
  <1> DEFINE n == Len(Object_Table)
             C(x, k) == Cardinality(Objects_Of(x, k))
             Bad == {k \in Nat : k <= n /\ C(d, k) # C(e, k)}
  <1>1. n \in Nat BY TableOnce
  <1>2. /\ C(d, 0) = 0 /\ C(e, 0) = 0 /\ \A k \in 0 .. n : C(d, k) \in Nat
        /\ \A k \in 1 .. n : C(d, k) = C(d, k - 1) + Object_Count(d, Object_Table[k])
        /\ \A k \in 1 .. n : C(e, k) = C(e, k - 1) + Object_Count(e, Object_Table[k])
    BY ListCounts
  <1> HIDE DEF C
  <1>3. Bad = {}
    <2> SUFFICES ASSUME Bad # {} PROVE FALSE OBVIOUS
    <2>1. PICK k \in Bad : \A j \in Bad : k <= j BY LeastExists
    <2>2. k # 0 BY <1>2
    <2>3. k - 1 \in Nat /\ k - 1 <= n /\ ~(k - 1 \in Bad) /\ k \in 1 .. n BY <1>1, <2>1, <2>2
    <2>4. C(d, k - 1) = C(e, k - 1) BY <2>3
    <2>5. Object_Count(d, Object_Table[k]) = Object_Count(e, Object_Table[k])
      BY <2>3, SameCounts, TableOnce
    <2>6. C(d, k) = C(e, k) BY <1>2, <2>3, <2>4, <2>5
    <2> QED BY <2>6
  <1>4. C(d, n) = C(e, n) /\ C(d, n) \in Nat BY <1>1, <1>2, <1>3
  <1> QED BY <1>4 DEF Device_Object_List_Count, C

-----------------------------------------------------------------------------
(* All types together. *)
LEMMA EachDepicted ==
  ASSUME RepliesFit, NEW T \in Types, NEW o, TextsOK(o["msi"]), NEW time,
         NEW n \in Object_Instances(o["device"], T)
  PROVE  Depicted(o, time, T, n)
  <1>1. CASE T = "device"
    <2>1. PICK d : d = o["device"] OBVIOUS
    <2>2. PICK count \in Nat : count = Device_Object_List_Count(d) BY SameLength
    <2>3. count = Device_Object_List_Count(Device_Start) BY <2>2, SameLength
    <2>4. 5 * count + 5 < MAX_APDU BY <2>3 DEF RepliesFit
    <2>5. Depicted(o, time, "device", n) BY <2>1, <2>2, <2>4, Device_Depicted
    <2> QED BY <1>1, <2>5
  <1>2. CASE T = "msi"
    <2>1. n \in Multistate_Input_Instances BY <1>2, Zenon DEF Object_Instances
    <2>2. PICK texts : texts = o["msi"][n]["states"] OBVIOUS
    <2>3. texts \in [1 .. NUMBER_OF_STATES -> ShortText] BY <2>1, <2>2 DEF TextsOK
    <2>4. NUMBER_OF_STATES \in Nat BY InputsAssumption
    <2>5. PICK octets : octets = Octets(texts) OBVIOUS
    <2>6. octets \in 0 .. 4 * NUMBER_OF_STATES BY <2>3, <2>4, <2>5, OctetsBound
    <2>7. octets \in Nat /\ octets < MAX_APDU
      BY <2>4, <2>6, PropertiesAssumption DEF RepliesFit
    <2>8. octets = Octets(o["msi"][n].states) BY <2>2, <2>5
    <2>9. Depicted(o, time, "msi", n) BY <2>7, <2>8, Multistate_Input_Depicted
    <2> QED BY <1>2, <2>9
  <1>3. CASE T = "lo"
    <2>1. PICK N : N = {} OBVIOUS
    <2>2. << >> \in Seq(N) OBVIOUS
    <2>3. \A p \in N : Pictured(o, time, T, n, p) BY <2>1
    <2> QED BY <1>3, <2>2, <2>3, PropertyLists, Depict
  <1>4. CASE T \notin {"device", "msi", "lo"}
    BY <1>4, Analog_Input_Depicted, Analog_Output_Depicted, Analog_Value_Depicted,
       Binary_Input_Depicted, Binary_Output_Depicted, Binary_Value_Depicted,
       Life_Safety_Point_Depicted, Load_Control_Depicted, Multistate_Output_Depicted,
       Trend_Log_Depicted, File_Depicted
       DEF Types
  <1> QED BY <1>1, <1>2, <1>3, <1>4

LEMMA PropertyListLength ==
  ASSUME NEW T
  PROVE  Device_Objects_Property_List(T)
            = << Device_Objects_Property_List(T)[1], Device_Objects_Property_List(T)[2],
                 Device_Objects_Property_List(T)[3] >>
  BY DEF Device_Objects_Property_List, Device_Property_Lists, Analog_Input_Property_Lists,
         Analog_Output_Property_Lists, Analog_Value_Property_Lists, Binary_Input_Property_Lists,
         Binary_Output_Property_Lists, Binary_Value_Property_Lists,
         Life_Safety_Point_Property_Lists, Load_Control_Property_Lists,
         Multistate_Output_Property_Lists, Multistate_Input_Property_Lists,
         Trend_Log_Property_Lists, BACfile_Property_Lists

LEMMA SequenceElements ==
  ASSUME NEW N, NEW s \in Seq(N)
  PROVE  /\ Len(s) \in Nat /\ DOMAIN s = 1 .. Len(s) /\ s = [k \in 1 .. Len(s) |-> s[k]]
         /\ \A k \in DOMAIN s : s[k] \in N
  OBVIOUS

LEMMA JoinedThrice ==
  ASSUME NEW N, NEW a \in Seq(N), NEW b \in Seq(N), NEW c \in Seq(N), NEW s, s = a \o b \o c
  PROVE  s \in Seq(N) /\ Len(s) = Len(a) + Len(b) + Len(c) /\ DOMAIN s = 1 .. Len(s)
  <1>1. PICK t : t = a \o b OBVIOUS
  <1>2. t \in Seq(N) /\ Len(t) = Len(a) + Len(b) BY <1>1, Joined
  <1>3. s = t \o c BY <1>1
  <1>4. s \in Seq(N) /\ Len(s) = Len(t) + Len(c) BY <1>2, <1>3, Joined
  <1>5. Len(s) = Len(a) + Len(b) + Len(c) BY <1>2, <1>4
  <1> HIDE <1>3
  <1> QED BY <1>4, <1>5, SequenceElements

\* A reply that fits is the object's.
LEMMA ReadByItself ==
  ASSUME NEW o, NEW time, NEW T, Device_Objects_Find_Functions(T), NEW n,
         Object_Valid_Instance(o.device, T, n), NEW p
  PROVE  \A i : handler_read_property(o, time, T, n, p, i, FALSE, TRUE)
                    = Object_Read_Property(o, time, T, n, p, i)
  <1>1. \A i : Device_Read_Property(o, time, T, n, p, i) = Object_Read_Property(o, time, T, n, p, i)
    BY DEF Device_Read_Property
  <1> QED BY <1>1 DEF handler_read_property

\* Read all together, the properties are each as it is read alone.
\* What each of the properties ns is answered alone, and the list of names and
\* answers of a reply to a read of all of them.
AnswersAlone(o, time, T, n, ns) == [k \in DOMAIN ns |-> RPM_Encode_Property(o, time, T, n, ns[k])]
Paired(ns, es) == [k \in DOMAIN ns |-> << ns[k], es[k] >>]

LEMMA ReadTogether ==
  ASSUME NEW o, NEW time, NEW T, Device_Objects_Find_Functions(T), NEW n,
         Object_Valid_Instance(o.device, T, n),
         NEW l1, NEW l2, NEW l3, NEW N, l1 \in Seq(N), l2 \in Seq(N), l3 \in Seq(N),
         Device_Objects_Property_List(T) = << l1, l2, l3 >>,
         NEW names, names = l1 \o l2 \o l3, names # << >>,
         \A k \in DOMAIN names : AnswersAlone(o, time, T, n, names)[k][1] # "abort"
  PROVE  handler_read_property_multiple(o, time, T, n, "all", FALSE, TRUE)
            = Ack(Paired(names, AnswersAlone(o, time, T, n, names)))
  <1>0. PICK replies : replies = AnswersAlone(o, time, T, n, names) OBVIOUS
  <1>1. names \in Seq(N) /\ Len(names) = Len(l1) + Len(l2) + Len(l3) /\ DOMAIN names = 1 .. Len(names)
    BY JoinedThrice
  <1>2. PICK lists : lists = Device_Objects_Property_List(T) OBVIOUS
  <1>3. lists[1] = l1 /\ lists[2] = l2 /\ lists[3] = l3 BY <1>2
  <1>4. PICK count : count = RPM_Object_Property_Count(lists, "all") OBVIOUS
  <1>5. count = Len(names) BY <1>1, <1>3, <1>4, Zenon DEF RPM_Object_Property_Count
  <1>6. \A k : RPM_Object_Property(lists, "all", k) = names[k]
    BY <1>3, Zenon DEF RPM_Object_Property
  <1>7. count # 0 BY <1>1, <1>5
  <1>8. PICK asked : asked = [k \in 1 .. count |-> RPM_Object_Property(lists, "all", k)] OBVIOUS
  <1>9. asked = names
    <2>1. names = [k \in 1 .. Len(names) |-> names[k]]
      <3>1. PICK s : s = names OBVIOUS
      <3>2. s \in Seq(N) BY <1>1, <3>1
      <3>3. s = [k \in 1 .. Len(s) |-> s[k]] BY <3>2, SequenceElements
      <3> QED BY <3>1, <3>3
    <2> QED BY <1>5, <1>6, <1>8, <2>1, Zenon
  <1>10. handler_read_property_multiple(o, time, T, n, "all", FALSE, TRUE)
            = IF \E k \in DOMAIN names : replies[k][1] = "abort"
              THEN Abort("segmentation_not_supported")
              ELSE Ack([k \in DOMAIN names |-> << names[k], replies[k] >>])
    <2> DEFINE Each(ns) == [k \in DOMAIN ns |-> RPM_Encode_Property(o, time, T, n, ns[k])]
               Multiple(ns) == IF \E k \in DOMAIN ns : Each(ns)[k][1] = "abort"
                               THEN Abort("segmentation_not_supported")
                               ELSE Ack([k \in DOMAIN ns |-> << ns[k], Each(ns)[k] >>])
               all == IF RPM_Object_Property_Count(Device_Objects_Property_List(T), "all") = 0
                      THEN << "all" >>
                      ELSE [k \in 1 .. RPM_Object_Property_Count(Device_Objects_Property_List(T), "all")
                                |-> RPM_Object_Property(Device_Objects_Property_List(T), "all", k)]
    <2>1. handler_read_property_multiple(o, time, T, n, "all", FALSE, TRUE) = Multiple(all)
      BY Zenon DEF handler_read_property_multiple
    <2>2. all = names BY <1>2, <1>4, <1>7, <1>8, <1>9, Zenon
    <2>3. Each(names) = replies BY <1>0, Zenon DEF AnswersAlone
    <2> HIDE DEF all, Each
    <2>4. PICK ns : ns = all OBVIOUS
    <2>5. Multiple(all) = Multiple(ns) BY <2>4
    <2>6. ns = names BY <2>2, <2>4
    <2>7. Multiple(ns) = Multiple(names) BY <2>6
    <2>8. Multiple(names) = IF \E k \in DOMAIN names : replies[k][1] = "abort"
              THEN Abort("segmentation_not_supported")
              ELSE Ack([k \in DOMAIN names |-> << names[k], replies[k] >>])
      BY <2>3, Zenon
    <2> QED BY <2>1, <2>5, <2>7, <2>8, Zenon
  <1>11. \A k \in DOMAIN names : replies[k][1] # "abort" BY <1>0
  <1>12. handler_read_property_multiple(o, time, T, n, "all", FALSE, TRUE)
            = Ack([k \in DOMAIN names |-> << names[k], replies[k] >>])
    BY <1>10, <1>11, Zenon
  <1> QED BY <1>0, <1>12, Zenon DEF Paired

\* What ReadsAgree says of one object.
Agreement(n) ==
    LET lists == Device_Objects_Property_List(served)
        names == lists[1] \o lists[2] \o lists[3]
        reads == [k \in DOMAIN names |-> ReadOf(served, n, names[k], All)]
    IN  names # << >> =>
        /\ handler_read_property_multiple(objects, now, served, n, "all", FALSE, TRUE)
                = Ack([k \in DOMAIN names |-> << names[k], reads[k] >>])
        /\ \A k \in DOMAIN names :
            /\ reads[k][1] = "ack" \/ << served, names[k] >> \in ReadDenied
            /\ ElementsAgree(served, names[k]) => Elementwise(served, n, names[k], reads[k][2])
            /\ IndexRefused(served, names[k]) =>
                Reads(served, n, names[k], 1) = {Error("property_is_not_an_array")}

LEMMA PicturedAlone ==
  ASSUME Device_Objects_Find_Functions(served), NEW n,
         Object_Valid_Instance(objects.device, served, n), NEW p, Pictured(objects, now, served, n, p)
  PROVE  LET r == ReadOf(served, n, p, All)
         IN  /\ RPM_Encode_Property(objects, now, served, n, p) = r /\ r[1] # "abort"
             /\ r[1] = "ack" \/ << served, p >> \in ReadDenied
             /\ ElementsAgree(served, p) => Elementwise(served, n, p, r[2])
             /\ IndexRefused(served, p) =>
                  Reads(served, n, p, 1) = {Error("property_is_not_an_array")}
  <1>1. \A i : Reads(served, n, p, i) = Object_Read_Property(objects, now, served, n, p, i)
    BY ReadByItself DEF Reads
  <1>2. PICK r :
          /\ Object_Read_Property(objects, now, served, n, p, All) = {r} /\ r[1] # "abort"
          /\ r[1] = "ack" \/ << served, p >> \in ReadDenied
          /\ ElementsAgree(served, p) =>
               /\ Object_Read_Property(objects, now, served, n, p, 0)
                      = {Ack(<< "unsigned", Len(r[2]) >>)}
               /\ \A i \in DOMAIN r[2] :
                      Object_Read_Property(objects, now, served, n, p, i) = {Ack(r[2][i])}
               /\ Object_Read_Property(objects, now, served, n, p, Len(r[2]) + 1)
                      = {Error("invalid_array_index")}
          /\ IndexRefused(served, p) =>
               Object_Read_Property(objects, now, served, n, p, 1)
                      = {Error("property_is_not_an_array")}
    BY DEF Pictured
  <1>3. ReadOf(served, n, p, All) = r BY <1>1, <1>2 DEF ReadOf
  <1>4. RPM_Encode_Property(objects, now, served, n, p) = r
    BY <1>2 DEF Device_Read_Property, RPM_Encode_Property
  <1>5. ElementsAgree(served, p) => Elementwise(served, n, p, r[2])
    BY <1>1, <1>2, Zenon DEF Elementwise
  <1>6. IndexRefused(served, p) => Reads(served, n, p, 1) = {Error("property_is_not_an_array")}
    BY <1>1, <1>2, Zenon
  <1> QED BY <1>2, <1>3, <1>4, <1>5, <1>6, Zenon

LEMMA DepictedAgrees ==
  ASSUME Device_Objects_Find_Functions(served), NEW n \in Object_Instances(objects.device, served),
         Depicted(objects, now, served, n)
  PROVE  Agreement(n)
  <1> DEFINE lists == Device_Objects_Property_List(served)
             names == lists[1] \o lists[2] \o lists[3]
             reads == [k \in DOMAIN names |-> ReadOf(served, n, names[k], All)]
             replies == [k \in DOMAIN names |->
                            RPM_Encode_Property(objects, now, served, n, names[k])]
  <1>1. PICK N : /\ \A j \in 1 .. 3 : lists[j] \in Seq(N)
                 /\ \A p \in N : Pictured(objects, now, served, n, p)
    BY DEF Depicted
  <1>2. PICK l1, l2, l3 : l1 = lists[1] /\ l2 = lists[2] /\ l3 = lists[3] OBVIOUS
  <1>3. lists = << l1, l2, l3 >> BY <1>2, PropertyListLength
  <1>4. l1 \in Seq(N) /\ l2 \in Seq(N) /\ l3 \in Seq(N) /\ names = l1 \o l2 \o l3 BY <1>1, <1>2
  <1> HIDE DEF names
  <1>5. \A k \in DOMAIN names : names[k] \in N
    <2>1. names \in Seq(N) BY <1>4, JoinedThrice
    <2> HIDE <1>4
    <2> QED BY <2>1, SequenceElements
  <1>6. Object_Valid_Instance(objects.device, served, n) BY DEF Object_Valid_Instance
  <1>7. ASSUME NEW k \in DOMAIN names
        PROVE  /\ reads[k] = replies[k] /\ replies[k][1] # "abort"
               /\ reads[k][1] = "ack" \/ << served, names[k] >> \in ReadDenied
               /\ ElementsAgree(served, names[k]) => Elementwise(served, n, names[k], reads[k][2])
               /\ IndexRefused(served, names[k]) =>
                    Reads(served, n, names[k], 1) = {Error("property_is_not_an_array")}
    <2>1. PICK p : p = names[k] OBVIOUS
    <2>2. Pictured(objects, now, served, n, p) BY <1>1, <1>5, <2>1
    <2>3. PICK r, e : /\ r = ReadOf(served, n, p, All)
                      /\ e = RPM_Encode_Property(objects, now, served, n, p)
      OBVIOUS
    <2>4. reads[k] = r /\ replies[k] = e BY <2>1, <2>3
    <2>5. /\ e = r /\ r[1] # "abort"
          /\ r[1] = "ack" \/ << served, p >> \in ReadDenied
          /\ ElementsAgree(served, p) => Elementwise(served, n, p, r[2])
          /\ IndexRefused(served, p) =>
                Reads(served, n, p, 1) = {Error("property_is_not_an_array")}
      BY <1>6, <2>2, <2>3, PicturedAlone, Zenon
    <2> HIDE DEF reads, replies
    <2> QED BY <2>1, <2>4, <2>5, Zenon
  <1>8. ASSUME names # << >>
        PROVE  handler_read_property_multiple(objects, now, served, n, "all", FALSE, TRUE)
                    = Ack([k \in DOMAIN names |-> << names[k], reads[k] >>])
    <2>1. PICK ns, all, es : ns = names /\ all = lists /\ es = replies OBVIOUS
    <2>2. \A k \in DOMAIN ns : es[k][1] # "abort" BY <1>7, <2>1
    <2>3. es = AnswersAlone(objects, now, served, n, ns) BY <2>1 DEF AnswersAlone
    <2>4. handler_read_property_multiple(objects, now, served, n, "all", FALSE, TRUE)
            = Ack(Paired(ns, es))
      <3>1. ns = l1 \o l2 \o l3 /\ ns # << >> BY <1>4, <1>8, <2>1
      <3>2. l1 \in Seq(N) /\ l2 \in Seq(N) /\ l3 \in Seq(N) BY <1>4
      <3>3. Device_Objects_Property_List(served) = << l1, l2, l3 >> BY <1>3
      <3> HIDE DEF reads, replies, lists
      <3>4. \A k \in DOMAIN ns : AnswersAlone(objects, now, served, n, ns)[k][1] # "abort"
        BY <2>2, <2>3
      <3>5. PICK o : o = objects OBVIOUS
      <3>6. Object_Valid_Instance(o.device, served, n) BY <1>6, <3>5
      <3>7. \A k \in DOMAIN ns : AnswersAlone(o, now, served, n, ns)[k][1] # "abort" BY <3>4, <3>5
      <3>8. handler_read_property_multiple(o, now, served, n, "all", FALSE, TRUE)
              = Ack(Paired(ns, AnswersAlone(o, now, served, n, ns)))
        BY <3>1, <3>2, <3>3, <3>6, <3>7, ReadTogether
      <3> QED BY <2>3, <3>5, <3>8
    <2>5. reads = replies BY <1>7
    <2> HIDE DEF reads, replies
    <2>6. handler_read_property_multiple(objects, now, served, n, "all", FALSE, TRUE)
            = Ack(Paired(names, reads))
      BY <2>1, <2>4, <2>5
    <2> QED BY <2>6, Zenon DEF Paired
  <1>9. names = lists[1] \o lists[2] \o lists[3] BY DEF names
  <1> QED BY <1>7, <1>8, Zenon DEF Agreement, names

\* Whatever is written, a peer that reads an object gets one picture of it: all
\* of its properties together as each alone, in the order of its lists; an array
\* with as many elements as its index 0 says, each the one in the whole; and of
\* no other property an element (the ..._Read_Property functions, rp.c, rpm.c).
\* Where the object list or the state texts do not fit in one reply, this build
\* refuses to read them whole, and there is nothing to agree with.
THEOREM ReadsTheorem == RepliesFit => (DeviceServerSpec => []ReadsAgree)
  <1>1. ASSUME RepliesFit PROVE OutputsInv /\ TextsInv => ReadsAgree
    <2> SUFFICES ASSUME OutputsInv, TextsInv, NEW n \in Object_Instances(objects.device, served)
                 PROVE  Agreement(n)
      BY Zenon DEF ReadsAgree, Agreement
    <2>1. Device_Objects_Find_Functions(served) /\ served \in Types BY TableOfTypes DEF OutputsInv
    <2>2. TextsOK(objects["msi"]) BY DEF TextsInv
    <2>3. PICK o : o = objects OBVIOUS
    <2>4. n \in Object_Instances(o["device"], served) BY <2>3
    <2>5. Depicted(o, now, served, n) BY <1>1, <2>1, <2>2, <2>3, <2>4, EachDepicted
    <2>6. Depicted(objects, now, served, n) BY <2>3, <2>5
    <2> QED BY <2>1, <2>6, DepictedAgrees, Zenon
  <1>2. ASSUME RepliesFit PROVE DeviceServerSpec => []ReadsAgree
    BY <1>1, <1>2, OutputsInit, OutputsNext, ShapeInit, ShapeNext, TextsInit, TextsNext, PTL
       DEF DeviceServerSpec
  <1> QED BY <1>2
=============================================================================
