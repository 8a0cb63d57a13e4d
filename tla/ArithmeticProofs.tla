-------------------------- MODULE ArithmeticProofs --------------------------
(***************************************************************************)
(* Proofs about the arithmetic of two packages: the identifiers of xid,    *)
(* and the times of xtime, which are numbers of any size.                  *)
(***************************************************************************)
EXTENDS Xid, Calendar, TLAPS

\* The games are integers, and as many below 0 as above.
LEMMA GameRange ==
    /\ GameIDLimit \in Nat
    /\ \A g \in GameIDs : g \in Int /\ -GameIDLimit < g /\ g < GameIDLimit
<1>1. GameIDLimit \in Nat
  BY DEF GameIDLimit, Slot
<1>. QED
  BY <1>1 DEF GameIDs, MaxGameID, MinGameID

\* SplitUID gives back the game and the zone that BuildUID was given, for every
\* game, the negative ones included, whose sign fills the bits above.
THEOREM UIDRoundTrip ==
    \A g \in GameIDs, z \in Zones : SplitUID(BuildUID(g, z)) = <<g, z>>
<1>. SUFFICES ASSUME NEW g \in GameIDs, NEW z \in Zones
              PROVE  GameOf(BuildUID(g, z)) = g /\ ZoneOf(BuildUID(g, z)) = z
  BY DEF SplitUID
<1>1. g \in Int /\ z \in Int /\ 0 <= z /\ z < 256
  BY GameRange DEF Zones
<1>2. (g * 65536 + z * 256) \div 65536 = g
  BY <1>1
<1>3. (g * 65536 + z * 256) \div 256 = g * 256 + z
  BY <1>1
<1>4. (g * 256 + z) % 256 = z
  BY <1>1
<1>. QED
  BY <1>2, <1>3, <1>4 DEF GameOf, ZoneOf, BuildUID, Slot

\* No game and zone shift out of an int64: the identifier has the sign of its
\* game, and its low byte is 0.
THEOREM UIDFits ==
    \A g \in GameIDs, z \in Zones :
        /\ BuildUID(g, z) \in (-MaxUID)..MaxUID
        /\ BuildUID(g, z) < 0 <=> g < 0
        /\ BuildUID(g, z) % 256 = 0
<1>. SUFFICES ASSUME NEW g \in GameIDs, NEW z \in Zones
              PROVE  /\ BuildUID(g, z) \in (-MaxUID)..MaxUID
                     /\ BuildUID(g, z) < 0 <=> g < 0
                     /\ BuildUID(g, z) % 256 = 0
  OBVIOUS
<1>1. /\ g \in Int /\ -GameIDLimit < g /\ g < GameIDLimit /\ GameIDLimit \in Nat
      /\ z \in Int /\ 0 <= z /\ z < 256
  BY GameRange DEF Zones
<1>2. BuildUID(g, z) \in (-MaxUID)..MaxUID
  BY <1>1 DEF BuildUID, MaxUID, Slot
<1>3. BuildUID(g, z) < 0 <=> g < 0
  BY <1>1 DEF BuildUID, Slot
<1>4. (g * 65536 + z * 256) % 256 = 0
  BY <1>1
<1>. QED
  BY <1>2, <1>3, <1>4 DEF BuildUID, Slot

\* Two identifiers are equal only if they are of one game and zone: the keys
\* built from them do not clash.
THEOREM UIDIsUnique ==
    \A g, h \in GameIDs, y, z \in Zones :
        BuildUID(g, y) = BuildUID(h, z) => g = h /\ y = z
  BY UIDRoundTrip DEF SplitUID
-----------------------------------------------------------------------------
\* Where a time lies in its day, and the day of a midnight.
LEMMA DayBounds ==
    ASSUME OffsetAssumption, NEW t \in Int
    PROVE  /\ DayOf(t) \in Int
           /\ StartOfDay(t) \in Int
           /\ StartOfDay(t) <= t /\ t < StartOfDay(t) + Day
<1>. DEFINE s == t + Offset
           d == s \div 86400
<1>1. s \in Int /\ d \in Int /\ d * 86400 <= s /\ s < d * 86400 + 86400
  BY DEF OffsetAssumption
<1>. QED
  BY <1>1 DEF OffsetAssumption, DayOf, StartOfDay, Midnight, Day

\* A midnight and whole days later are the midnights of those days.
LEMMA DayOfMidnight ==
    ASSUME OffsetAssumption, NEW day \in Int
    PROVE  DayOf(Midnight(day)) = day /\ StartOfDay(Midnight(day)) = Midnight(day)
<1>1. Midnight(day) + Offset = day * 86400
  BY DEF OffsetAssumption, Midnight, Day
<1>2. (day * 86400) \div 86400 = day
  OBVIOUS
<1>. QED
  BY <1>1, <1>2 DEF DayOf, StartOfDay, Day

\* Whole days before or after a time.
LEMMA DayShift ==
    ASSUME OffsetAssumption, NEW t \in Int, NEW n \in Int
    PROVE  DayOf(t + n * Day) = DayOf(t) + n
<1>. DEFINE s == t + Offset
<1>1. s \in Int /\ t + n * 86400 + Offset = s + n * 86400
  BY DEF OffsetAssumption
<1>2. (s + n * 86400) \div 86400 = (s \div 86400) + n
  BY <1>1
<1>. QED
  BY <1>1, <1>2 DEF DayOf, Day

\* NextDailyTime is the first time after t that is delay after the start of a
\* day, whatever the delay, negative or longer than a day, and the zone: it is
\* never t itself, though t be such a time.
THEOREM NextDailyIsFirst ==
    ASSUME OffsetAssumption, NEW t \in Int, NEW delay \in Int
    PROVE  /\ NextDailyTime(t, delay) > t
           /\ IsDaily(NextDailyTime(t, delay), delay)
           /\ \A u \in Int : u > t /\ IsDaily(u, delay) => NextDailyTime(t, delay) <= u
<1>. DEFINE r == t - delay
           next == NextDailyTime(t, delay)
<1>1. r \in Int /\ DayOf(r) \in Int
  BY DayBounds
<1>2. StartOfDay(r) <= r /\ r < StartOfDay(r) + Day /\ StartOfDay(r) \in Int
  BY <1>1, DayBounds
<1>3. next \in Int /\ next - delay = StartOfDay(r) + Day /\ next > t
  BY <1>2 DEF NextDailyTime, Day
<1>4. next - delay = Midnight(DayOf(r) + 1)
  BY <1>1, <1>3 DEF StartOfDay, Midnight, Day, OffsetAssumption
<1>5. IsDaily(next, delay)
  BY <1>1, <1>4, DayOfMidnight DEF IsDaily
<1>6. ASSUME NEW u \in Int, u > t, IsDaily(u, delay)
      PROVE  next <= u
  <2>. DEFINE d == DayOf(u - delay)
  <2>1. d \in Int /\ u - delay = d * 86400 - Offset
    BY <1>6, DayBounds DEF IsDaily, StartOfDay, Midnight, Day
  <2>2. d * 86400 - Offset > DayOf(r) * 86400 - Offset
    BY <1>1, <1>2, <1>6, <2>1 DEF StartOfDay, Midnight, Day, OffsetAssumption
  <2>3. d >= DayOf(r) + 1
    BY <1>1, <2>1, <2>2 DEF OffsetAssumption
  <2>. QED
    BY <1>1, <1>3, <1>4, <2>1, <2>3 DEF Midnight, Day, OffsetAssumption
<1>. QED
  BY <1>3, <1>5, <1>6

\* The week of a time starts on the Monday at or before it.
LEMMA WeekBounds ==
    ASSUME OffsetAssumption, NEW t \in Int
    PROVE  \E day \in Int :
              /\ StartOfWeek(t) = Midnight(day)
              /\ (day + 4) % 7 = 1
              /\ day <= DayOf(t) /\ DayOf(t) < day + 7
<1>. DEFINE e == DayOf(t) + 4
           w == IF e % 7 = 0 THEN 7 ELSE e % 7
           day == DayOf(t) - (w - 1)
<1>1. e \in Int /\ DayOf(t) \in Int /\ e = DayOf(t) + 4
  BY DayBounds
<1>. HIDE DEF e
<1>2. w \in 1..7 /\ e - w = 7 * ((e - w) \div 7)
  BY <1>1
<1>. HIDE DEF w
<1>3. day \in Int /\ day <= DayOf(t) /\ DayOf(t) < day + 7
  BY <1>1, <1>2
<1>4. day + 4 = 7 * ((e - w) \div 7) + 1 /\ (e - w) \div 7 \in Int
  BY <1>1, <1>2
<1>5. (day + 4) % 7 = 1
  <2>1. \A k \in Int : (7 * k + 1) % 7 = 1
    OBVIOUS
  <2>. QED
    BY <1>4, <2>1
<1>6. StartOfWeek(t) = Midnight(day)
  <2>1. t - (w - 1) * Day = t + (1 - w) * Day
    BY <1>2 DEF Day
  <2>2. DayOf(t + (1 - w) * Day) = day
    BY <1>1, <1>2, DayShift
  <2>3. StartOfWeek(t) = StartOfDay(t - (w - 1) * Day)
    BY DEF StartOfWeek, Weekday, w, e
  <2>. QED
    BY <2>1, <2>2, <2>3 DEF StartOfDay
<1>. QED
  BY <1>3, <1>5, <1>6

\* NextWeeklyTime is the first time after t that is delay after the start of a
\* Monday, on Sundays too, which Go numbers 0 and the code 7.
THEOREM NextWeeklyIsFirst ==
    ASSUME OffsetAssumption, NEW t \in Int, NEW delay \in Int
    PROVE  /\ NextWeeklyTime(t, delay) > t
           /\ IsWeekly(NextWeeklyTime(t, delay), delay)
           /\ \A u \in Int :
                 u > t /\ IsWeekly(u, delay) => NextWeeklyTime(t, delay) <= u
<1>. DEFINE r == t - delay
           next == NextWeeklyTime(t, delay)
<1>1. r \in Int /\ DayOf(r) \in Int /\ r < StartOfDay(r) + Day
  BY DayBounds
<1>2. PICK day \in Int : /\ StartOfWeek(r) = Midnight(day)
                         /\ (day + 4) % 7 = 1
                         /\ day <= DayOf(r) /\ DayOf(r) < day + 7
  BY <1>1, WeekBounds
<1>3. /\ Midnight(day) = day * 86400 - Offset /\ Offset \in Int
      /\ Midnight(day + 7) = (day + 7) * 86400 - Offset
      /\ StartOfDay(r) = DayOf(r) * 86400 - Offset
  BY DEF Midnight, StartOfDay, Day, OffsetAssumption
<1>4. next - delay = Midnight(day + 7) /\ next \in Int
  BY <1>2, <1>3 DEF NextWeeklyTime, Day
<1>5. next > t
  BY <1>1, <1>2, <1>3, <1>4 DEF Day
<1>6. (day + 7 + 4) % 7 = 1
  BY <1>2
<1>7. IsWeekly(next, delay)
  BY <1>4, <1>6, DayOfMidnight DEF IsWeekly, IsDaily, Weekday
<1>8. ASSUME NEW u \in Int, u > t, IsWeekly(u, delay)
      PROVE  next <= u
  <2>. DEFINE d == DayOf(u - delay)
  <2>1. d \in Int /\ u - delay = d * 86400 - Offset /\ (d + 4) % 7 = 1
    BY <1>8, DayBounds DEF IsWeekly, IsDaily, Weekday, StartOfDay, Midnight, Day
  <2>. HIDE DEF d
  <2>2. d * 86400 - Offset > day * 86400 - Offset
    <3>1. u - delay > r
      BY <1>8
    <3>2. StartOfDay(r) <= r
      BY <1>1, DayBounds
    <3>. QED
      BY <1>1, <1>2, <1>3, <2>1, <3>1, <3>2
  <2>3. d > day
    BY <1>3, <2>1, <2>2
  <2>4. d >= day + 7
    BY <1>2, <2>1, <2>3
  <2>. QED
    BY <1>3, <1>4, <2>1, <2>4
<1>. QED
  BY <1>5, <1>7, <1>8
=============================================================================
