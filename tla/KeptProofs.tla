------------------------------- MODULE KeptProofs -------------------------------
(***************************************************************************)
(* Proofs about what outlives a restart: the clock and the configuration   *)
(* on the card.  Those about the clock are for hours, days, months and     *)
(* years of any length that two BCD digits can count; those about the      *)
(* configuration are for any number of fields, of any length, whatever     *)
(* characters are typed.                                                   *)
(***************************************************************************)
EXTENDS Rtc, ConfigStore, SequenceTheorems, WellFoundedInduction, TLAPS

(***************************************************************************)
(* BCD: two digits go through one byte and come back.                      *)
(***************************************************************************)

LEMMA RoundTrip ==
  ASSUME NEW v \in 0 .. 99
  PROVE  bcd2int(int2bcd(v)) = v
  <1>1. /\ v \div 10 \in 0 .. 9 /\ v % 10 \in 0 .. 9 /\ v = 10 * (v \div 10) + (v % 10)
    OBVIOUS
  <1>2. \A h, l \in 0 .. 9 :
          /\ (16 * h + l) % 256 = 16 * h + l
          /\ (16 * h + l) \div 16 = h /\ (16 * h + l) % 16 = l
    OBVIOUS
  <1> QED
    BY <1>1, <1>2 DEF bcd2int, int2bcd

\* A byte, of any two hexadecimal digits, is written and reads as up to 165.
LEMMA ByteReads ==
  ASSUME NEW v \in Int
  PROVE  bcd2int(int2bcd(ToByte(v))) \in Shown
  <1>1. ToByte(v) \in 0 .. 255
    BY DEF ToByte
  <1>2. \A n \in 0 .. 255 : n \div 10 \in Nat /\ n % 10 \in Nat
    OBVIOUS
  <1>3. int2bcd(ToByte(v)) \in 0 .. 255
    BY <1>1, <1>2 DEF int2bcd
  <1>4. \A n \in 0 .. 255 : n \div 16 \in 0 .. 15 /\ n % 16 \in 0 .. 15
    OBVIOUS
  <1> QED
    BY <1>3, <1>4 DEF bcd2int, Shown

LEMMA BytesRead ==
  ASSUME NEW b \in Bytes
  PROVE  bcd2int(int2bcd(b)) \in Shown
  BY ByteReads, RtcAssumption DEF Bytes

LEMMA Digits ==
  /\ SECONDS \in 1 .. 99 /\ HOURS \in 1 .. 99 /\ DAYS \in 1 .. 99 /\ MONTHS \in 1 .. 99
  /\ Years \subseteq 0 .. 99
  BY RtcAssumption

\* What the fields of a date and of a time of day are.
LEMMA Fields ==
  /\ \A d \in Date : d.yr \in Years /\ d.yr \in 0 .. 99 /\ d.mo \in 1 .. MONTHS /\ d.dt \in 1 .. DAYS
  /\ \A t \in Time : t.hr \in 0 .. HOURS - 1 /\ t.sc \in 0 .. SECONDS - 1
  BY Digits DEF Date, Time

LEMMA DateTrip ==
  ASSUME NEW d \in Date
  PROVE  FromBcd(ToBcd(d)) = d
  <1>1. /\ DOMAIN d = {"yr", "mo", "dt"}
        /\ d = [f \in {"yr", "mo", "dt"} |-> d[f]]
    BY DEF Date
  <1>2. \A f \in {"yr", "mo", "dt"} : d[f] \in 0 .. 99
    BY Digits, Fields
  <1> QED
    BY <1>1, <1>2, RoundTrip DEF FromBcd, ToBcd

LEMMA TimeTrip ==
  ASSUME NEW t \in Time
  PROVE  FromBcd(ToBcd(t)) = t
  <1>1. /\ t.hr \in 0 .. 99 /\ t.sc \in 0 .. 99
        /\ DOMAIN t = {"hr", "sc"}
        /\ t = [f \in {"hr", "sc"} |-> t[f]]
    BY RtcAssumption DEF Time
  <1>2. \A f \in {"hr", "sc"} : t[f] \in 0 .. 99
    BY <1>1
  <1> QED
    BY <1>1, <1>2, RoundTrip DEF FromBcd, ToBcd

(***************************************************************************)
(* Moments: counting a second, and comparing by day and by time of day.    *)
(***************************************************************************)

LEMMA Product ==
  ASSUME NEW a \in Int, NEW b \in Int, NEW k \in Nat
  PROVE  /\ a * k \in Int /\ (a + 1) * k = a * k + k
         /\ a =< b => a * k =< b * k
  OBVIOUS

\* The days from the start of the century to a date.
Day(d) == (d.yr * MONTHS + d.mo - 1) * DAYS + d.dt - 1

LEMMA DayFacts ==
  ASSUME NEW d \in Date, NEW t \in Time
  PROVE  /\ Day(d) \in Int /\ Moment(d, t) \in Int
         /\ Moment(d, t) = (Day(d) * HOURS + t.hr) * SECONDS + t.sc
  <1>1. /\ d.yr \in Int /\ d.mo \in Int /\ d.dt \in Int /\ t.hr \in Int /\ t.sc \in Int
        /\ MONTHS \in Nat /\ DAYS \in Nat /\ HOURS \in Nat /\ SECONDS \in Nat
    BY Digits, Fields
  <1>2. Day(d) \in Int
    BY <1>1 DEF Day
  <1>3. Moment(d, t) = (Day(d) * HOURS + t.hr) * SECONDS + t.sc
    BY <1>1 DEF Day, Moment
  <1>4. Moment(d, t) \in Int
    BY <1>1, <1>2, <1>3
  <1> QED
    BY <1>2, <1>3, <1>4

\* A later day at the same time of day is a later moment.
LEMMA LaterDay ==
  ASSUME NEW d \in Date, NEW e \in Date, NEW t \in Time, Day(d) =< Day(e)
  PROVE  Moment(d, t) =< Moment(e, t)
  <1>1. /\ t.hr \in Int /\ t.sc \in Int /\ HOURS \in Nat /\ SECONDS \in Nat
        /\ Day(d) \in Int /\ Day(e) \in Int
    BY Digits, Fields, DayFacts
  <1>2. Day(d) * HOURS =< Day(e) * HOURS /\ Day(d) * HOURS \in Int /\ Day(e) * HOURS \in Int
    BY <1>1, Product
  <1>3. Day(d) * HOURS + t.hr =< Day(e) * HOURS + t.hr
    BY <1>1, <1>2
  <1>4. (Day(d) * HOURS + t.hr) * SECONDS =< (Day(e) * HOURS + t.hr) * SECONDS
    BY <1>1, <1>2, <1>3, Product
  <1> QED
    BY <1>1, <1>2, <1>4, DayFacts

\* What the chip shows after the next second.
Then == IF Midnight THEN NextDate(ChipDate) ELSE ChipDate

\* Midnight begins the next day, through the ends of months and years.
LEMMA NextDay ==
  ASSUME NEW d \in Date, NextDate(d) \in Date
  PROVE  Day(NextDate(d)) = Day(d) + 1
  <1>1. /\ d.yr \in Int /\ d.mo \in 1 .. MONTHS /\ d.dt \in 1 .. DAYS
        /\ MONTHS \in Nat \ {0} /\ DAYS \in Nat \ {0}
    BY Digits, Fields
  <1>2. CASE d.dt < DAYS
    <2>1. /\ NextDate(d).yr = d.yr /\ NextDate(d).mo = d.mo /\ NextDate(d).dt = d.dt + 1
      BY <1>2 DEF NextDate, Date
    <2> DEFINE m == (d.yr * MONTHS + d.mo - 1) * DAYS
    <2>2. m \in Int
      BY <1>1
    <2> QED
      BY <1>1, <2>1, <2>2 DEF Day
  <1>3. CASE ~(d.dt < DAYS) /\ d.mo < MONTHS
    <2>1. d.dt = DAYS
      BY <1>1, <1>3
    <2>2. /\ NextDate(d).yr = d.yr /\ NextDate(d).mo = d.mo + 1 /\ NextDate(d).dt = 1
      BY <1>3 DEF NextDate, Date
    <2> DEFINE m == d.yr * MONTHS + d.mo - 1
    <2>3. m \in Int /\ d.yr * MONTHS + (d.mo + 1) - 1 = m + 1
      BY <1>1
    <2> HIDE DEF m
    <2>4. (m + 1) * DAYS = m * DAYS + DAYS /\ m * DAYS \in Int
      BY <1>1, <2>3, Product
    <2>5. Day(d) = m * DAYS + DAYS - 1 /\ Day(NextDate(d)) = (m + 1) * DAYS + 1 - 1
      BY <2>1, <2>2, <2>3 DEF Day, m
    <2> QED
      BY <1>1, <2>4, <2>5
  <1>4. CASE ~(d.dt < DAYS) /\ ~(d.mo < MONTHS)
    <2>1. d.dt = DAYS /\ d.mo = MONTHS
      BY <1>1, <1>4
    <2>2. /\ NextDate(d).yr = d.yr + 1 /\ NextDate(d).mo = 1 /\ NextDate(d).dt = 1
      BY <1>4 DEF NextDate, Date
    <2> DEFINE m == d.yr * MONTHS + MONTHS - 1
    <2>3. m \in Int /\ (d.yr + 1) * MONTHS + 1 - 1 = m + 1
      BY <1>1, Product
    <2> HIDE DEF m
    <2>4. (m + 1) * DAYS = m * DAYS + DAYS /\ m * DAYS \in Int
      BY <1>1, <2>3, Product
    <2>5. Day(d) = m * DAYS + DAYS - 1 /\ Day(NextDate(d)) = (m + 1) * DAYS + 1 - 1
      BY <2>1, <2>2, <2>3 DEF Day, m
    <2> QED
      BY <1>1, <2>4, <2>5
  <1> QED
    BY <1>2, <1>3, <1>4

\* A second is a second, whatever it carries into.
LEMMA NextSecond ==
  ASSUME ChipDate \in Date, ChipTime \in Time, Midnight => NextDate(ChipDate) \in Date
  PROVE  /\ NextTime(ChipTime) \in Time /\ Then \in Date
         /\ Day(Then) >= Day(ChipDate)
         /\ Moment(Then, NextTime(ChipTime)) = Now + 1
  <1> DEFINE d == ChipDate
             t == ChipTime
             u == NextTime(t)
  <1>1. /\ t.hr \in 0 .. HOURS - 1 /\ t.sc \in 0 .. SECONDS - 1
        /\ HOURS \in Nat \ {0} /\ SECONDS \in Nat \ {0} /\ Day(d) \in Int /\ Day(d) * HOURS \in Int
    BY Digits, Fields, DayFacts
  <1>2. Then \in Date
    BY DEF Then
  <1>3. Now = (Day(d) * HOURS + t.hr) * SECONDS + t.sc
    BY DayFacts DEF Now
  <1>4. CASE Midnight
    <2>1. t.hr = HOURS - 1 /\ t.sc = SECONDS - 1 /\ u = [hr |-> 0, sc |-> 0] /\ Then = NextDate(d)
      BY <1>4 DEF Midnight, NextTime, Then
    <2>2. u \in Time /\ u.hr = 0 /\ u.sc = 0
      BY <1>1, <2>1 DEF Time
    <2>3. Day(Then) = Day(d) + 1
      BY <1>4, <2>1, NextDay
    <2>4. Moment(Then, u) = ((Day(d) + 1) * HOURS + 0) * SECONDS + 0
      BY <1>2, <2>2, <2>3, DayFacts
    <2> DEFINE h == Day(d) * HOURS + HOURS - 1
    <2>5. h \in Int /\ (Day(d) + 1) * HOURS + 0 = h + 1 /\ Day(d) * HOURS + t.hr = h
      BY <1>1, <2>1, Product
    <2> HIDE DEF h
    <2>6. (h + 1) * SECONDS = h * SECONDS + SECONDS /\ h * SECONDS \in Int
      BY <1>1, <2>5, Product
    <2> QED
      BY <1>1, <1>2, <1>3, <2>1, <2>2, <2>3, <2>4, <2>5, <2>6
  <1>5. CASE ~Midnight /\ t.sc < SECONDS - 1
    <2>1. u = [t EXCEPT !.sc = @ + 1] /\ Then = d
      BY <1>5 DEF NextTime, Then
    <2>2. u \in Time /\ u.hr = t.hr /\ u.sc = t.sc + 1
      BY <1>1, <1>5, <2>1 DEF Time
    <2> DEFINE h == (Day(d) * HOURS + t.hr) * SECONDS
    <2>3. h \in Int
      BY <1>1
    <2>4. Moment(Then, u) = h + (t.sc + 1)
      BY <1>2, <2>1, <2>2, DayFacts
    <2> HIDE DEF h
    <2>5. Now = h + t.sc
      BY <1>3 DEF h
    <2> QED
      BY <1>1, <1>2, <2>1, <2>2, <2>3, <2>4, <2>5
  <1>6. CASE ~Midnight /\ ~(t.sc < SECONDS - 1)
    <2>1. u = [hr |-> t.hr + 1, sc |-> 0] /\ Then = d /\ t.sc = SECONDS - 1
      BY <1>1, <1>6 DEF NextTime, Then
    <2>2. t.hr # HOURS - 1
      BY <1>6, <2>1 DEF Midnight, Time
    <2>3. u \in Time /\ u.hr = t.hr + 1 /\ u.sc = 0
      BY <1>1, <2>1, <2>2 DEF Time
    <2> DEFINE h == Day(d) * HOURS + t.hr
    <2>4. h \in Int /\ Day(d) * HOURS + (t.hr + 1) = h + 1
      BY <1>1
    <2>5. Moment(Then, u) = (Day(d) * HOURS + (t.hr + 1)) * SECONDS + 0
      BY <1>2, <2>1, <2>3, DayFacts
    <2> HIDE DEF h
    <2>6. (h + 1) * SECONDS = h * SECONDS + SECONDS /\ h * SECONDS \in Int
      BY <1>1, <2>4, Product
    <2>7. Now = h * SECONDS + (SECONDS - 1)
      BY <1>3, <2>1 DEF h
    <2> QED
      BY <1>1, <1>2, <2>1, <2>3, <2>4, <2>5, <2>6, <2>7
  <1> QED
    BY <1>4, <1>5, <1>6

(***************************************************************************)
(* The inductive invariant.                                                *)
(***************************************************************************)

\* While a timestamp is read the clock does not go back: what has been read is
\* the date at the beginning, and neither the day nor the moment is earlier now.
Reading ==
  pc = "time" /\ valid =>
    /\ begun.date \in Date /\ begun.time \in Time
    /\ date \in {begun.date, JunkDate}
    /\ Day(begun.date) =< Day(ChipDate)
    /\ Moment(begun.date, begun.time) =< Now

RInv == TypeOK /\ Reading

\* The registers hold what has been written to them.
LEMMA Written ==
  /\ \A d \in Date : FromBcd(ToBcd(d)) = d
  /\ \A t \in Time : FromBcd(ToBcd(t)) = t
  BY DateTrip, TimeTrip

\* What the registers can be read as, whatever has been written to them.
ShownDate == [yr : Shown, mo : Shown, dt : Shown]
ShownTime == [hr : Shown, sc : Shown]

LEMMA Shows ==
  /\ Date \subseteq ShownDate /\ Time \subseteq ShownTime
  /\ \A a, b, c \in Int :
       FromBcd(ToBcd([yr |-> ToByte(a), mo |-> ToByte(b), dt |-> ToByte(c)])) \in ShownDate
  /\ \A a, b \in Int : FromBcd(ToBcd([hr |-> ToByte(a), sc |-> ToByte(b)])) \in ShownTime
  /\ \A d \in [{"yr", "mo", "dt"} -> Bytes] : FromBcd(ToBcd(d)) \in ShownDate
  /\ \A t \in [{"hr", "sc"} -> Bytes] : FromBcd(ToBcd(t)) \in ShownTime
  <1>1. Date \subseteq ShownDate /\ Time \subseteq ShownTime
    <2>1. /\ 0 .. 99 \subseteq Shown /\ 1 .. MONTHS \subseteq Shown /\ 1 .. DAYS \subseteq Shown
          /\ 0 .. HOURS - 1 \subseteq Shown /\ 0 .. SECONDS - 1 \subseteq Shown
      BY Digits DEF Shown
    <2>2. Years \subseteq Shown
      BY <2>1, Digits
    <2> QED
      BY <2>1, <2>2 DEF Date, Time, ShownDate, ShownTime
  <1>2. ASSUME NEW a \in Int, NEW b \in Int, NEW c \in Int
        PROVE  FromBcd(ToBcd([yr |-> ToByte(a), mo |-> ToByte(b), dt |-> ToByte(c)])) \in ShownDate
    BY ByteReads DEF FromBcd, ToBcd, ShownDate
  <1>3. ASSUME NEW a \in Int, NEW b \in Int
        PROVE  FromBcd(ToBcd([hr |-> ToByte(a), sc |-> ToByte(b)])) \in ShownTime
    BY ByteReads DEF FromBcd, ToBcd, ShownTime
  <1>4. ASSUME NEW d \in [{"yr", "mo", "dt"} -> Bytes]
        PROVE  FromBcd(ToBcd(d)) \in ShownDate
    BY BytesRead DEF FromBcd, ToBcd, ShownDate
  <1>5. ASSUME NEW t \in [{"hr", "sc"} -> Bytes]
        PROVE  FromBcd(ToBcd(t)) \in ShownTime
    BY BytesRead DEF FromBcd, ToBcd, ShownTime
  <1> QED BY <1>1, <1>2, <1>3, <1>4, <1>5

LEMMA RtcInit == Init => RInv
  BY Written, Shows DEF Init, RInv, TypeOK, Reading, ChipDate, ChipTime, NoStamp, ShownDate, ShownTime

\* Setting the clock, with any numbers.
LEMMA SetStep ==
  ASSUME RInv, NEW a, \A n \in 1 .. 5 : a[n] \in Int, Set(a)
  PROVE  RInv'
  <1> DEFINE d == [yr |-> ToByte(a[1]), mo |-> ToByte(a[2]), dt |-> ToByte(a[3])]
             t == [hr |-> ToByte(a[4]), sc |-> ToByte(a[5])]
  <1>1. /\ pc = "idle" /\ chip_date' = ToBcd(d) /\ chip_time' = ToBcd(t)
        /\ valid' = (d \in Date /\ t \in Time)
        /\ UNCHANGED <<pc, date, stamp, begun>>
    BY DEF Set
  <1>2. a[1] \in Int /\ a[2] \in Int /\ a[3] \in Int /\ a[4] \in Int /\ a[5] \in Int
    OBVIOUS
  <1>3. ChipDate' \in ShownDate /\ ChipTime' \in ShownTime
    BY <1>1, <1>2, Shows DEF ChipDate, ChipTime
  <1> HIDE DEF d, t
  <1>4. valid' => ChipDate' = d /\ ChipTime' = t /\ d \in Date /\ t \in Time
    BY <1>1, Written DEF ChipDate, ChipTime
  <1>5. valid' \in BOOLEAN
    BY <1>1
  <1> QED
    BY <1>1, <1>3, <1>4, <1>5 DEF RInv, TypeOK, Reading, ShownDate, ShownTime

LEMMA RtcStep ==
  ASSUME RInv, [Next]_vars
  PROVE  RInv'
  <1>2. CASE Second
    <2>0. /\ ChipDate \in Date /\ ChipTime \in Time /\ valid
          /\ chip_date = ToBcd(ChipDate) /\ chip_time = ToBcd(ChipTime)
      BY <1>2 DEF RInv, TypeOK, Second
    <2>1. /\ chip_time' = ToBcd(NextTime(ChipTime)) /\ chip_date' = ToBcd(Then)
          /\ UNCHANGED <<pc, date, stamp, begun, valid>> /\ (Midnight => NextDate(ChipDate) \in Date)
      BY <1>2, <2>0 DEF Second, Then
    <2>2. /\ NextTime(ChipTime) \in Time /\ Then \in Date /\ Day(Then) >= Day(ChipDate)
          /\ Moment(Then, NextTime(ChipTime)) = Now + 1
      BY <2>0, <2>1, NextSecond
    <2>3. ChipDate' = Then /\ ChipTime' = NextTime(ChipTime)
      BY <2>1, <2>2, Written DEF ChipDate, ChipTime
    <2>4. TypeOK'
      BY <2>1, <2>2, <2>3, Shows DEF RInv, TypeOK, ShownDate, ShownTime
    <2>5. Now' = Now + 1
      BY <2>2, <2>3 DEF Now
    <2>6. Reading'
      <3>1. /\ Now \in Int /\ Day(ChipDate) \in Int /\ Day(Then) \in Int
        BY <2>0, <2>2, DayFacts DEF Now
      <3>2. begun.date \in Date /\ begun.time \in Time =>
              Day(begun.date) \in Int /\ Moment(begun.date, begun.time) \in Int
        BY DayFacts
      <3> QED
        BY <2>0, <2>1, <2>2, <2>3, <2>5, <3>1, <3>2 DEF RInv, Reading
    <2> QED
      BY <2>4, <2>6 DEF RInv
  <1>3. CASE Stray
    <2>1. PICK d \in [{"yr", "mo", "dt"} -> Bytes], t \in [{"hr", "sc"} -> Bytes] :
            chip_date' = ToBcd(d) /\ chip_time' = ToBcd(t)
      BY <1>3 DEF Stray
    <2>2. ~valid /\ UNCHANGED <<pc, date, stamp, begun, valid>>
      BY <1>3 DEF Stray
    <2>3. ChipDate' \in ShownDate /\ ChipTime' \in ShownTime
      BY <2>1, Shows DEF ChipDate, ChipTime
    <2> QED
      BY <2>2, <2>3 DEF RInv, TypeOK, Reading, ShownDate, ShownTime
  <1>7. ASSUME NEW d \in Date, NEW t \in Time, Set(<<d.yr, d.mo, d.dt, t.hr, t.sc>>)
        PROVE  RInv'
    <2> DEFINE a == <<d.yr, d.mo, d.dt, t.hr, t.sc>>
    <2>1. \A n \in 1 .. 5 : a[n] \in Int
      BY Digits, Fields
    <2> HIDE DEF a
    <2>2. Set(a)
      BY <1>7 DEF a
    <2> QED
      BY <2>1, <2>2, SetStep
  <1>8. ASSUME NEW a \in [1 .. 5 -> Unchecked], Set(a)
        PROVE  RInv'
    <2>1. \A n \in 1 .. 5 : a[n] \in Int
      BY RtcAssumption
    <2> QED
      BY <1>8, <2>1, SetStep
  <1>4. CASE ReadDate
    <2>1. /\ pc' = "time" /\ begun' = [date |-> ChipDate, time |-> ChipTime]
          /\ date' \in {ChipDate, JunkDate} /\ stamp' = NoStamp
          /\ ChipDate' = ChipDate /\ ChipTime' = ChipTime /\ Now' = Now
          /\ UNCHANGED <<chip_date, chip_time, valid>>
      BY <1>4 DEF ReadDate, ChipDate, ChipTime, Now
    <2>2. begun'.date = ChipDate /\ begun'.time = ChipTime
      BY <2>1
    <2>3. valid => Day(ChipDate) =< Day(ChipDate) /\ Now =< Now
      BY DayFacts DEF Now, RInv, TypeOK
    <2>4. TypeOK'
      BY <2>1 DEF RInv, TypeOK, NoStamp
    <2>5. Reading'
      BY <2>1, <2>2, <2>3 DEF Reading, Now, RInv, TypeOK
    <2> QED
      BY <2>4, <2>5 DEF RInv
  <1>5. CASE ReadTime
    <2>1. /\ pc' = "idle" /\ stamp'.date = date /\ stamp'.time \in {ChipTime, JunkTime}
          /\ date' = JunkDate /\ ChipDate' = ChipDate /\ ChipTime' = ChipTime
          /\ UNCHANGED <<chip_date, chip_time, valid>>
      BY <1>5 DEF ReadTime, ChipDate, ChipTime
    <2> QED
      BY <2>1 DEF RInv, TypeOK, Reading
  <1>6. CASE UNCHANGED vars
    BY <1>6 DEF vars, RInv, TypeOK, Reading, ChipDate, ChipTime, Now
  <1> QED
    BY <1>2, <1>3, <1>4, <1>5, <1>6, <1>7, <1>8 DEF Next

LEMMA RInvAlways == Spec => []RInv
  <1>1. RInv /\ [Next]_vars => RInv'
    BY RtcStep
  <1> QED
    BY <1>1, RtcInit, PTL DEF Spec

(***************************************************************************)
(* What the run checks, for units of any length.                           *)
(***************************************************************************)

\* Once set with a date and a time of day, the registers hold the encoding of
\* one, also after the carries of BCD; set with other numbers, they hold bytes.
THEOREM RtcTypes == Spec => []TypeOK
  BY RInvAlways, PTL DEF RInv

\* Whatever carries happen between the two transfers of rtc_get_time_str, the
\* timestamp is not ahead of the clock.
THEOREM StampsNeverAhead == Spec => NeverAhead
  <1> DEFINE Step == ReadTime /\ valid /\ Stamped' => Moment(stamp'.date, stamp'.time) <= Now
  <1>1. RInv => Step
    <2> SUFFICES ASSUME RInv, ReadTime, valid, Stamped'
                 PROVE  Moment(stamp'.date, stamp'.time) <= Now
      OBVIOUS
    <2>1. /\ pc = "time" /\ stamp'.date = begun.date /\ stamp'.time = ChipTime
      BY DEF ReadTime, Stamped, RInv, Reading
    <2>2. /\ begun.date \in Date /\ ChipDate \in Date /\ ChipTime \in Time
          /\ Day(begun.date) =< Day(ChipDate)
      BY <2>1 DEF RInv, Reading, TypeOK
    <2> QED
      BY <2>1, <2>2, LaterDay DEF Now
  <1>2. RInv /\ [Next]_vars => [Step]_vars
    BY <1>1
  <1> QED
    BY <1>2, RInvAlways, PTL DEF Spec, NeverAhead

\* If the day does not end while it is read, it is not before the moment at
\* which the reading began.
THEOREM StampsRightWithinADay == Spec => RightWithinADay
  <1> DEFINE Step == ReadTime /\ valid /\ Stamped' /\ begun.date = ChipDate =>
        Moment(begun.date, begun.time) <= Moment(stamp'.date, stamp'.time)
  <1>1. RInv => Step
    <2> SUFFICES ASSUME RInv, ReadTime, valid, Stamped', begun.date = ChipDate
                 PROVE  Moment(begun.date, begun.time) <= Moment(stamp'.date, stamp'.time)
      OBVIOUS
    <2>1. pc = "time" /\ stamp'.date = ChipDate /\ stamp'.time = ChipTime
      BY DEF ReadTime, Stamped, RInv, Reading
    <2> QED
      BY <2>1 DEF RInv, Reading, Now
  <1>2. RInv /\ [Next]_vars => [Step]_vars
    BY <1>1
  <1> QED
    BY <1>2, RInvAlways, PTL DEF Spec, RightWithinADay

-----------------------------------------------------------------------------
(***************************************************************************)
(* Induction and recursion.  A set takes the place of the predicate.       *)
(***************************************************************************)

Below == {p \in Nat \X Nat : p[1] < p[2]}

LEMMA Least ==
  ASSUME NEW T, T \subseteq Nat, T # {}
  PROVE  \E x \in T : \A y \in T : x <= y
  <1>1. IsWellFoundedOn(Below, Nat)
    BY NatLessThanWellFounded DEF OpToRel, Below, IsWellFoundedOn
  <1>2. PICK x \in T : \A y \in T : ~ (<<y, x>> \in Below)
    BY <1>1, WFMin
  <1>3. ASSUME NEW y \in T PROVE x <= y
    <2>1. x \in Nat /\ y \in Nat
      OBVIOUS
    <2>2. y < x => <<y, x>> \in Below
      BY <2>1 DEF Below
    <2> QED
      BY <1>2, <2>1, <2>2
  <1> QED
    BY <1>3

LEMMA Induction ==
  ASSUME NEW S, 0 \in S, \A n \in Nat : n \in S => n + 1 \in S
  PROVE  \A n \in Nat : n \in S
  <1> SUFFICES ASSUME Nat \ S # {} PROVE FALSE
    OBVIOUS
  <1>1. PICK x \in Nat \ S : \A y \in Nat \ S : x <= y
    BY Least, Nat \ S \subseteq Nat
  <1>2. x - 1 \in Nat
    BY <1>1
  <1> QED
    BY <1>1, <1>2

LEMMA MinIs ==
  ASSUME NEW T, T \subseteq Nat, T # {}
  PROVE  Min(T) \in T /\ \A y \in T : Min(T) <= y
  BY Least DEF Min

\* g begins with a, and h makes each value of the one before it.
Recurses(g, m, n, a, h) == g = [k \in m .. n |-> IF k = m THEN a ELSE h[<<k, g[k - 1]>>]]

\* There is such a function.
LEMMA Recursion ==
  ASSUME NEW m \in Int, NEW n \in Int, m <= n, NEW S, NEW a \in S, NEW h \in [Int \X S -> S]
  PROVE  \E g \in [m .. n -> S] : Recurses(g, m, n, a, h)
  <1> DEFINE T == {j \in Nat : \E g \in [m .. m + j -> S] : Recurses(g, m, m + j, a, h)}
  <1>1. 0 \in T
    <2> DEFINE g == [k \in m .. m + 0 |-> a]
    <2>1. g \in [m .. m + 0 -> S] /\ Recurses(g, m, m + 0, a, h)
      BY DEF Recurses
    <2> QED
      BY <2>1
  <1>2. ASSUME NEW j \in Nat, j \in T PROVE j + 1 \in T
    <2>1. PICK g \in [m .. m + j -> S] :
            g = [k \in m .. m + j |-> IF k = m THEN a ELSE h[<<k, g[k - 1]>>]]
      BY <1>2 DEF Recurses
    <2> DEFINE x == h[<<m + (j + 1), g[m + j]>>]
               f == [k \in m .. m + (j + 1) |-> IF k = m + (j + 1) THEN x ELSE g[k]]
    <2>2. x \in S
      BY <2>1
    <2>3. f \in [m .. m + (j + 1) -> S]
      BY <2>1, <2>2
    <2>4. ASSUME NEW k \in m .. m + (j + 1)
          PROVE  f[k] = IF k = m THEN a ELSE h[<<k, f[k - 1]>>]
      <3>1. CASE k = m + (j + 1)
        <4>1. k # m /\ k - 1 = m + j /\ k - 1 \in m .. m + (j + 1) /\ f[k - 1] = g[m + j]
          BY <3>1
        <4> QED
          BY <3>1, <4>1
      <3>2. CASE k # m + (j + 1)
        <4>1. k \in m .. m + j /\ f[k] = g[k]
          BY <3>2
        <4>2. k # m => k - 1 \in m .. m + j /\ f[k - 1] = g[k - 1]
          BY <4>1
        <4>3. g[k] = IF k = m THEN a ELSE h[<<k, g[k - 1]>>]
          BY <2>1, <4>1
        <4> HIDE DEF f
        <4> QED
          BY <4>1, <4>2, <4>3
      <3> QED
        BY <3>1, <3>2
    <2>5. Recurses(f, m, m + (j + 1), a, h)
      BY <2>4 DEF Recurses
    <2> HIDE DEF f
    <2>6. j + 1 \in Nat /\ f \in [m .. m + (j + 1) -> S]
      BY <2>3
    <2> QED
      BY <2>5, <2>6
  <1>3. \A j \in Nat : j \in T
    <2> HIDE DEF T
    <2> QED
      BY <1>1, <1>2, Induction
  <1>4. n - m \in Nat /\ m + (n - m) = n
    OBVIOUS
  <1>5. n - m \in T
    BY <1>3, <1>4
  <1> QED
    BY <1>4, <1>5

(***************************************************************************)
(* Beginnings of strings.                                                  *)
(***************************************************************************)

LEMMA Elements ==
  ASSUME NEW S, NEW s \in Seq(S)
  PROVE  Len(s) \in Nat /\ (\A k \in 1 .. Len(s) : s[k] \in S) /\ s \in [1 .. Len(s) -> S]
  BY LenProperties

LEMMA FunctionSeq ==
  ASSUME NEW S, NEW n \in Nat, NEW s \in [1 .. n -> S]
  PROVE  s \in Seq(S) /\ Len(s) = n
  BY IsASeq

LEMMA Slice ==
  ASSUME NEW S, NEW s \in Seq(S), NEW a \in Int, NEW b \in Int,
         1 <= a, a <= b + 1, b <= Len(s)
  PROVE  /\ SubSeq(s, a, b) \in Seq(S) /\ Len(SubSeq(s, a, b)) = b - a + 1
         /\ \A k \in 1 .. b - a + 1 : SubSeq(s, a, b)[k] = s[a + k - 1]
  OBVIOUS

LEMMA Beginning ==
  ASSUME NEW S, NEW s \in Seq(S), NEW e \in 0 .. Len(s)
  PROVE  /\ SubSeq(s, 1, e) \in Seq(S) /\ Len(SubSeq(s, 1, e)) = e
         /\ \A k \in 1 .. e : SubSeq(s, 1, e)[k] = s[k]
  <1> DEFINE r == SubSeq(s, 1, e)
  <1>0. Len(s) \in Nat
    BY Elements
  <1>1. 1 \in Int /\ e \in Int /\ 1 <= 1 /\ 1 <= e + 1 /\ e <= Len(s) /\ e - 1 + 1 = e
    BY <1>0
  <1>2. r \in Seq(S) /\ Len(r) = e - 1 + 1 /\ \A k \in 1 .. e - 1 + 1 : r[k] = s[1 + k - 1]
    BY <1>1, Slice
  <1> HIDE DEF r
  <1>3. \A k \in 1 .. e : 1 + k - 1 = k
    OBVIOUS
  <1>4. r \in Seq(S) /\ Len(r) = e /\ \A k \in 1 .. e : r[k] = s[k]
    BY <1>1, <1>2, <1>3
  <1> QED
    BY <1>4 DEF r

LEMMA Rest ==
  ASSUME NEW S, NEW s \in Seq(S), NEW n \in 0 .. Len(s)
  PROVE  /\ SubSeq(s, n + 1, Len(s)) \in Seq(S) /\ Len(SubSeq(s, n + 1, Len(s))) = Len(s) - n
         /\ \A k \in 1 .. Len(s) - n : SubSeq(s, n + 1, Len(s))[k] = s[n + k]
  <1> DEFINE l == Len(s)
             r == SubSeq(s, n + 1, l)
  <1>0. l \in Nat
    BY Elements
  <1>n. n \in 0 .. l
    OBVIOUS
  <1>1. n + 1 \in Int /\ l \in Int /\ 1 <= n + 1 /\ n + 1 <= l + 1 /\ l <= Len(s)
    BY <1>0
  <1>2. /\ r \in Seq(S) /\ Len(r) = l - (n + 1) + 1
        /\ \A k \in 1 .. l - (n + 1) + 1 : r[k] = s[(n + 1) + k - 1]
    BY <1>1, Slice
  <1> HIDE DEF r, l
  <1>3. l - (n + 1) + 1 = l - n /\ \A k \in 1 .. l - n : (n + 1) + k - 1 = n + k
    BY <1>0, <1>n
  <1>4. r \in Seq(S) /\ Len(r) = l - n /\ \A k \in 1 .. l - n : r[k] = s[n + k]
    BY <1>2, <1>3
  <1> QED
    BY <1>4 DEF r, l

LEMMA Concat ==
  ASSUME NEW S, NEW s \in Seq(S), NEW r \in Seq(S)
  PROVE  /\ s \o r \in Seq(S) /\ Len(s \o r) = Len(s) + Len(r)
         /\ \A k \in 1 .. Len(s) : (s \o r)[k] = s[k]
         /\ \A k \in 1 .. Len(r) : (s \o r)[Len(s) + k] = r[k]
  <1>1. Len(s) \in Nat /\ Len(r) \in Nat
    BY Elements
  <1>2. /\ s \o r \in Seq(S) /\ Len(s \o r) = Len(s) + Len(r)
        /\ \A i \in 1 .. Len(s) + Len(r) :
             (s \o r)[i] = IF i <= Len(s) THEN s[i] ELSE r[i - Len(s)]
    BY ConcatProperties
  <1>3. ASSUME NEW k \in 1 .. Len(r) PROVE (s \o r)[Len(s) + k] = r[k]
    <2>1. /\ Len(s) + k \in 1 .. Len(s) + Len(r) /\ ~ (Len(s) + k <= Len(s))
          /\ (Len(s) + k) - Len(s) = k
      BY <1>1
    <2> QED
      BY <1>2, <2>1
  <1> QED
    BY <1>1, <1>2, <1>3

LEMMA LeadingIs ==
  ASSUME NEW s \in Seq(Int), NEW C
  PROVE  \E e \in 0 .. Len(s) :
           /\ Leading(s, C) = SubSeq(s, 1, e)
           /\ \A k \in 1 .. e : s[k] \in C
           /\ e < Len(s) => s[e + 1] \notin C
  <1> DEFINE T == {k \in 1 .. Len(s) : s[k] \notin C}
             stop == IF T # {} THEN Min(T) ELSE 0
  <1>0. Len(s) \in Nat
    OBVIOUS
  <1>1. Leading(s, C) = IF stop = 0 THEN s ELSE SubSeq(s, 1, stop - 1)
    BY DEF Leading, SelectInSeq
  <1>2. CASE T = {}
    <2>1. s = SubSeq(s, 1, Len(s))
      BY SubSeqFull
    <2> QED
      BY <1>0, <1>1, <1>2, <2>1
  <1>3. CASE T # {}
    <2>1. Min(T) \in T /\ \A y \in T : Min(T) <= y
      BY <1>0, <1>3, MinIs, T \subseteq Nat
    <2> DEFINE e == Min(T) - 1
    <2>2. e \in 0 .. Len(s) /\ stop - 1 = e /\ stop # 0 /\ e + 1 = Min(T)
      BY <1>0, <1>3, <2>1
    <2>3. ASSUME NEW k \in 1 .. e PROVE s[k] \in C
      <3>1. k \in 1 .. Len(s) /\ ~ (Min(T) <= k)
        <4> HIDE DEF T, e
        <4> QED
          BY <1>0, <2>2
      <3>2. k \notin T
        BY <2>1, <3>1
      <3> QED
        BY <3>1, <3>2
    <2>4. Leading(s, C) = SubSeq(s, 1, e)
      BY <1>1, <2>2
    <2>5. s[e + 1] \notin C
      BY <2>1, <2>2
    <2> HIDE DEF e
    <2> QED
      BY <2>2, <2>3, <2>4, <2>5
  <1> QED
    BY <1>2, <1>3

(***************************************************************************)
(* Numbers: what %d writes and what atoi makes of it.                      *)
(***************************************************************************)

\* The value of the first k digits of s, for every k.
Sums(s) ==
  LET value[k \in 0 .. Len(s)] == IF k = 0 THEN 0 ELSE 10 * value[k - 1] + (s[k] - 48)
  IN  value

LEMMA SumsIs ==
  ASSUME NEW s \in Seq(Int)
  PROVE  /\ Sums(s) \in [0 .. Len(s) -> Int]
         /\ Sums(s)[0] = 0
         /\ \A k \in 1 .. Len(s) : Sums(s)[k] = 10 * Sums(s)[k - 1] + (s[k] - 48)
  <1> DEFINE h == [p \in Int \X Int |->
                     IF p[1] \in 1 .. Len(s) THEN 10 * p[2] + (s[p[1]] - 48) ELSE 0]
             Good(g) == g = [k \in 0 .. Len(s) |->
                               IF k = 0 THEN 0 ELSE 10 * g[k - 1] + (s[k] - 48)]
  <1>0. Len(s) \in Nat
    OBVIOUS
  <1>1. h \in [Int \X Int -> Int]
    BY <1>0
  <1>2. PICK g \in [0 .. Len(s) -> Int] :
          g = [k \in 0 .. Len(s) |-> IF k = 0 THEN 0 ELSE h[<<k, g[k - 1]>>]]
    <2> HIDE DEF h
    <2>1. 0 \in Int /\ Len(s) \in Int /\ 0 <= Len(s)
      BY <1>0
    <2>2. \E g \in [0 .. Len(s) -> Int] : Recurses(g, 0, Len(s), 0, h)
      BY <1>1, <2>1, Recursion
    <2> QED
      BY <2>2, Zenon DEF Recurses
  <1>3. ASSUME NEW k \in 1 .. Len(s) PROVE h[<<k, g[k - 1]>>] = 10 * g[k - 1] + (s[k] - 48)
    <2>1. k - 1 \in 0 .. Len(s) /\ k \in Int
      BY <1>0
    <2>2. g[k - 1] \in Int
      BY <1>2, <2>1
    <2>3. <<k, g[k - 1]>> \in Int \X Int
      BY <2>1, <2>2
    <2> QED
      BY <2>3
  <1>4. Good(g)
    <2> HIDE DEF h
    <2>2. ASSUME NEW k \in 0 .. Len(s)
          PROVE  (IF k = 0 THEN 0 ELSE h[<<k, g[k - 1]>>])
                   = IF k = 0 THEN 0 ELSE 10 * g[k - 1] + (s[k] - 48)
      <3>1. CASE k = 0
        BY <3>1
      <3>2. CASE k # 0
        <4>1. k \in 1 .. Len(s)
          BY <1>0, <3>2
        <4>2. h[<<k, g[k - 1]>>] = 10 * g[k - 1] + (s[k] - 48)
          BY <1>3, <4>1
        <4> QED
          BY <3>2, <4>2
      <3> QED
        BY <3>1, <3>2
    <2> QED
      BY <1>2, <2>2
  <1>5. Good(Sums(s))
    BY <1>4, Zenon DEF Sums
  <1> DEFINE v == Sums(s)
             T == {n \in Nat : n <= Len(s) => v[n] \in Int}
  <1>6. v = [k \in 0 .. Len(s) |-> IF k = 0 THEN 0 ELSE 10 * v[k - 1] + (s[k] - 48)]
    BY <1>5
  <1> HIDE DEF v, h, Good
  <1>7. v[0] = 0 /\ \A k \in 1 .. Len(s) : v[k] = 10 * v[k - 1] + (s[k] - 48)
    <2>1. 0 \in 0 .. Len(s) /\ \A k \in 1 .. Len(s) : k \in 0 .. Len(s) /\ k # 0
      BY <1>0
    <2> QED
      BY <1>6, <2>1
  <1>8. \A n \in Nat : n \in T
    <2>1. 0 \in T
      BY <1>7
    <2>2. ASSUME NEW n \in Nat, n \in T PROVE n + 1 \in T
      <3> SUFFICES ASSUME n + 1 <= Len(s) PROVE v[n + 1] \in Int
        OBVIOUS
      <3>1. v[n] \in Int /\ n + 1 \in 1 .. Len(s) /\ (n + 1) - 1 = n
        BY <1>0, <2>2
      <3>2. s[n + 1] \in Int
        BY <3>1
      <3>3. v[n + 1] = 10 * v[n] + (s[n + 1] - 48)
        BY <1>7, <3>1
      <3> QED
        BY <3>1, <3>2, <3>3
    <2> HIDE DEF T
    <2> QED
      BY <2>1, <2>2, Induction
  <1>9. v \in [0 .. Len(s) -> Int]
    <2>1. ASSUME NEW k \in 0 .. Len(s) PROVE v[k] \in Int
      BY <1>0, <1>8
    <2>2. v = [k \in 0 .. Len(s) |-> v[k]]
      BY <1>6
    <2> QED
      BY <2>1, <2>2
  <1> QED
    BY <1>7, <1>9 DEF v

Digit == 48 .. 57

\* Of a string of digits atoi gives the value of all of them.
LEMMA AllDigits ==
  ASSUME NEW s \in Seq(Digit)
  PROVE  atoi(s) = Sums(s)[Len(s)] /\ atoi(s) \in Int
  <1>0. s \in Seq(Int) /\ Len(s) \in Nat /\ \A k \in 1 .. Len(s) : s[k] \in Digit
    BY DEF Digit
  <1>1. PICK e \in 0 .. Len(s) : /\ Leading(s, 48 .. 57) = SubSeq(s, 1, e)
                                 /\ e < Len(s) => s[e + 1] \notin 48 .. 57
    BY <1>0, LeadingIs
  <1>2. e = Len(s)
    BY <1>0, <1>1 DEF Digit
  <1>3. Len(Leading(s, 48 .. 57)) = Len(s)
    BY <1>0, <1>1, <1>2
  <1>4. atoi(s) = Sums(s)[Len(s)]
    BY <1>3 DEF atoi, Sums
  <1> QED
    <2>1. Len(s) \in 0 .. Len(s) /\ Sums(s) \in [0 .. Len(s) -> Int]
      BY <1>0, SumsIs
    <2> QED
      BY <1>4, <2>1

\* One more digit.
LEMMA MoreDigits ==
  ASSUME NEW s \in Seq(Digit), NEW d \in Digit
  PROVE  atoi(Append(s, d)) = 10 * atoi(s) + (d - 48)
  <1> DEFINE a == Append(s, d)
             v == Sums(s)
             w == Sums(a)
             T == {n \in Nat : n <= Len(s) => w[n] = v[n]}
  <1>0. /\ s \in Seq(Int) /\ a \in Seq(Digit) /\ a \in Seq(Int) /\ Len(s) \in Nat
        /\ Len(a) = Len(s) + 1
        /\ \A k \in 1 .. Len(s) : a[k] = s[k]
        /\ a[Len(s) + 1] = d
    BY DEF Digit
  <1> HIDE DEF a
  <1>1. /\ v[0] = 0 /\ w[0] = 0
        /\ \A k \in 1 .. Len(s) : v[k] = 10 * v[k - 1] + (s[k] - 48)
        /\ \A k \in 1 .. Len(s) + 1 : w[k] = 10 * w[k - 1] + (a[k] - 48)
    BY <1>0, SumsIs
  <1> HIDE DEF v, w
  <1>2. \A n \in Nat : n \in T
    <2>1. 0 \in T
      BY <1>1
    <2>2. ASSUME NEW n \in Nat, n \in T PROVE n + 1 \in T
      <3> SUFFICES ASSUME n + 1 <= Len(s) PROVE w[n + 1] = v[n + 1]
        OBVIOUS
      <3>1. w[n] = v[n] /\ n + 1 \in 1 .. Len(s) /\ n + 1 \in 1 .. Len(s) + 1 /\ (n + 1) - 1 = n
        BY <1>0, <2>2
      <3>2. a[n + 1] = s[n + 1]
        BY <1>0, <3>1
      <3> QED
        BY <1>1, <3>1, <3>2
    <2> HIDE DEF T
    <2> QED
      BY <2>1, <2>2, Induction
  <1>3. w[Len(s)] = v[Len(s)]
    BY <1>0, <1>2
  <1>4. w[Len(s) + 1] = 10 * w[Len(s)] + (d - 48)
    BY <1>0, <1>1
  <1>5. atoi(s) = v[Len(s)] /\ atoi(a) = w[Len(s) + 1]
    BY <1>0, AllDigits DEF v, w
  <1> QED
    BY <1>3, <1>4, <1>5 DEF a

LEMMA NoDigits == atoi(<<>>) = 0
  <1>1. <<>> \in Seq(Digit) /\ <<>> \in Seq(Int) /\ Len(<<>>) = 0
    OBVIOUS
  <1> QED
    BY <1>1, AllDigits, SumsIs

LEMMA Ints == MaxInt \in Nat /\ MaxInt >= 9
  BY SMT DEF MaxInt

LEMMA TenDigits ==
  ASSUME NEW n \in Nat, n <= MaxInt
  PROVE  (n \div 10) \div 1000000000 = 0
  <1>1. n \div 10 \in Nat /\ n \div 10 < 1000000000
    BY SMT DEF MaxInt
  <1> QED
    BY <1>1, SMT

LEMMA LeadsIs ==
  ASSUME NEW n \in 0 .. MaxInt
  PROVE  /\ Leads(n) \subseteq 0 .. MaxInt
         /\ 0 \in Leads(n) /\ n \in Leads(n)
         /\ Leads(n \div 10) \subseteq Leads(n)
  <1> DEFINE m == n \div 10
  <1>0. n \in Nat /\ n <= MaxInt
    BY Ints
  <1>1. /\ n \div 1 = n
        /\ m \div 1 = n \div 10
        /\ m \div 10 = n \div 100
        /\ m \div 100 = n \div 1000
        /\ m \div 1000 = n \div 10000
        /\ m \div 10000 = n \div 100000
    BY <1>0, SMTT(30)
  <1>2. /\ m \div 100000 = n \div 1000000
        /\ m \div 1000000 = n \div 10000000
        /\ m \div 10000000 = n \div 100000000
        /\ m \div 100000000 = n \div 1000000000
    BY <1>0, SMTT(30)
  <1>3. m \div 1000000000 = 0
    BY <1>0, TenDigits
  <1>4. Leads(m) \subseteq Leads(n)
    <2> HIDE DEF m
    <2> QED
      BY <1>1, <1>2, <1>3, SMTT(30) DEF Leads
  <1>5. ASSUME NEW p \in Nat \ {0} PROVE n \div p \in 0 .. MaxInt
    BY <1>0, Ints
  <1>6. Leads(n) \subseteq 0 .. MaxInt
    BY <1>5, Ints, SMTT(30) DEF Leads
  <1> QED
    BY <1>1, <1>4, <1>6, SMTT(30) DEF Leads

\* What is left of the digits of n, from the whole number to none of them.
Numeral(s, n) ==
  /\ s \in Seq(Digit) /\ atoi(s) = n
  /\ \A e \in 0 .. Len(s) : atoi(SubSeq(s, 1, e)) \in Leads(n)

LEMMA OneDigit ==
  ASSUME NEW n \in 0 .. 9
  PROVE  Numeral(<<48 + n>>, n)
  <1> DEFINE s == <<48 + n>>
  <1>1. s \in Seq(Digit) /\ Len(s) = 1 /\ s = Append(<<>>, 48 + n) /\ 48 + n \in Digit
    BY DEF Digit
  <1>2. atoi(s) = n
    <2>1. <<>> \in Seq(Digit)
      OBVIOUS
    <2> HIDE DEF s
    <2>2. atoi(Append(<<>>, 48 + n)) = 10 * atoi(<<>>) + ((48 + n) - 48)
      BY <1>1, <2>1, MoreDigits
    <2> QED
      BY <1>1, <2>2, NoDigits
  <1>3. SubSeq(s, 1, 1) = s /\ SubSeq(s, 1, 0) = <<>>
    <2> HIDE DEF s
    <2>1. SubSeq(s, 1, 1) = s
      BY <1>1, SubSeqFull
    <2>2. SubSeq(s, 1, 0) = <<>>
      BY <1>1, SubSeqEmpty
    <2> QED
      BY <2>1, <2>2
  <1>4. n \in 0 .. MaxInt
    BY Ints
  <1>5. ASSUME NEW e \in 0 .. Len(s) PROVE atoi(SubSeq(s, 1, e)) \in Leads(n)
    <2>1. e = 0 \/ e = 1
      BY <1>1
    <2> HIDE DEF s
    <2> QED
      BY <1>2, <1>3, <1>4, <2>1, NoDigits, LeadsIs
  <1> QED
    BY <1>1, <1>2, <1>5 DEF Numeral

LEMMA NextDigit ==
  ASSUME NEW n \in 10 .. MaxInt, NEW s, Numeral(s, n \div 10)
  PROVE  Numeral(Append(s, 48 + (n % 10)), n)
  <1> DEFINE d == 48 + (n % 10)
             a == Append(s, d)
  <1>1. n \in 0 .. MaxInt /\ d \in Digit /\ n = 10 * (n \div 10) + (d - 48)
    BY Ints DEF Digit
  <1>2. s \in Seq(Digit) /\ atoi(s) = n \div 10
    BY DEF Numeral
  <1> HIDE DEF d
  <1>3. a \in Seq(Digit) /\ atoi(a) = n
    BY <1>1, <1>2, MoreDigits
  <1>4. ASSUME NEW e \in 0 .. Len(a) PROVE atoi(SubSeq(a, 1, e)) \in Leads(n)
    <2>1. CASE e = Len(a)
      <3>1. SubSeq(a, 1, e) = a
        BY <1>3, <2>1, SubSeqFull
      <3> QED
        BY <1>1, <1>3, <3>1, LeadsIs
    <2>2. CASE e # Len(a)
      <3>1. e \in 0 .. Len(s) /\ SubSeq(a, 1, e) = SubSeq(s, 1, e)
        BY <1>1, <1>2, <2>2
      <3>2. atoi(SubSeq(s, 1, e)) \in Leads(n \div 10)
        BY <3>1 DEF Numeral
      <3> QED
        BY <1>1, <3>1, <3>2, LeadsIs
    <2> QED
      BY <2>1, <2>2
  <1> QED
    BY <1>3, <1>4 DEF Numeral, d

\* %d writes the digits of its argument.
LEMMA DecimalIs ==
  ASSUME NEW n \in 0 .. MaxInt
  PROVE  Numeral(Decimal(n), n)
  <1> DEFINE Dec(g, k) == IF k < 10 THEN <<48 + k>> ELSE Append(g[k \div 10], 48 + (k % 10))
             Good(g, m) == g = [k \in 0 .. m |-> Dec(g, k)]
             T == {m \in Nat : \E g : Good(g, m)}
  <1>1. 0 \in T
    <2> DEFINE g == [k \in 0 .. 0 |-> <<48 + k>>]
    <2>1. Good(g, 0)
      OBVIOUS
    <2> QED
      BY <2>1
  <1>2. ASSUME NEW m \in Nat, m \in T PROVE m + 1 \in T
    <2>1. PICK g : Good(g, m)
      BY <1>2
    <2> DEFINE f == [k \in 0 .. m + 1 |-> IF k = m + 1 THEN Dec(g, k) ELSE g[k]]
    <2>2. ASSUME NEW k \in 0 .. m + 1 PROVE f[k] = Dec(f, k)
      <3>1. k >= 10 => k \div 10 \in 0 .. m
        OBVIOUS
      <3>2. k >= 10 => f[k \div 10] = g[k \div 10]
        BY <3>1
      <3>3. k \in 0 .. m => g[k] = Dec(g, k)
        BY <2>1, Zenon
      <3>4. f[k] = IF k = m + 1 THEN Dec(g, k) ELSE g[k]
        BY Zenon
      <3>5. Dec(f, k) = Dec(g, k)
        BY <3>2, SMT
      <3> HIDE DEF Dec, f
      <3> QED
        BY <3>3, <3>4, <3>5
    <2>3. Good(f, m + 1)
      BY <2>2
    <2> HIDE DEF f, Good
    <2> QED
      BY <2>3
  <1>3. \A m \in Nat : m \in T
    <2> HIDE DEF T
    <2> QED
      BY <1>1, <1>2, Induction
  <1> DEFINE d == CHOOSE g : Good(g, n)
  <1>4. n \in Nat
    BY Ints
  <1>5. Good(d, n)
    <2>1. \E g : Good(g, n)
      BY <1>3, <1>4
    <2> HIDE DEF Good
    <2> QED
      BY <2>1, Zenon
  <1>6. Decimal(n) = d[n]
    BY Zenon DEF Decimal
  <1> HIDE DEF d
  <1> DEFINE U == {m \in Nat : \A k \in 0 .. m : k <= n => Numeral(d[k], k)}
  <1>7. ASSUME NEW k \in 0 .. 9, k <= n PROVE Numeral(d[k], k)
    <2>1. d[k] = <<48 + k>>
      BY <1>5, <1>7, <1>4
    <2> QED
      BY <2>1, OneDigit
  <1>8. 0 \in U
    BY <1>4, <1>7
  <1>9. ASSUME NEW m \in Nat, m \in U PROVE m + 1 \in U
    <2> SUFFICES ASSUME m + 1 <= n, m + 1 >= 10 PROVE Numeral(d[m + 1], m + 1)
      BY <1>7, <1>9
    <2>1. m + 1 \in 10 .. MaxInt /\ (m + 1) \div 10 \in 0 .. m /\ (m + 1) \div 10 <= n
      BY Ints
    <2>2. Numeral(d[(m + 1) \div 10], (m + 1) \div 10)
      BY <1>9, <2>1
    <2>3. d[m + 1] = Append(d[(m + 1) \div 10], 48 + ((m + 1) % 10))
      <3>1. m + 1 \in 0 .. n /\ ~ (m + 1 < 10)
        BY <1>4
      <3>2. d[m + 1] = IF m + 1 < 10 THEN <<48 + (m + 1)>>
                       ELSE Append(d[(m + 1) \div 10], 48 + ((m + 1) % 10))
        BY <1>5, <3>1, Zenon
      <3> QED
        BY <3>1, <3>2, Zenon
    <2> QED
      BY <2>1, <2>2, <2>3, NextDigit
  <1>10. \A m \in Nat : m \in U
    <2> HIDE DEF U
    <2> QED
      BY <1>8, <1>9, Induction
  <1> QED
    BY <1>4, <1>6, <1>10

(***************************************************************************)
(* Fields.                                                                 *)
(***************************************************************************)

Printable == 32 .. 126
Char   == {NUL} \cup Printable
Offset(i) == (i - 1) * LEN
Size   == TEXTS * LEN

LEMMA Sizes == /\ TEXTS \in Nat \ {0} /\ LEN \in Nat \ {0} /\ Size \in Nat /\ Lines \in Nat
               /\ BUF \in Nat \ {0} /\ Lines = TEXTS + 1 /\ Cell = 1 .. Size
  BY ConfigAssumption DEF Size, Lines, Cell

LEMMA CharsAre ==
  /\ NUL \in Int /\ NUL \in Char /\ NUL \notin Printable /\ NL \notin Printable
  /\ \A x \in Printable : x # NUL /\ x # NL /\ x \in Nat /\ x \in Char
  /\ \A x \in Char : x \in Nat
  /\ \A x \in Char : x = NUL \/ x \in Printable
  BY DEF Char, Printable, NUL, NL

\* The fields lie behind each other and fill the array.
LEMMA Offsets ==
  /\ Offset(1) = 0 /\ Offset(TEXTS + 1) = Size
  /\ \A i \in 1 .. TEXTS : Offset(i) \in Nat /\ Offset(i + 1) = Offset(i) + LEN
  /\ \A i \in 1 .. TEXTS : Offset(i) + LEN <= Size
  /\ \A i, j \in 1 .. TEXTS : i < j => Offset(i) + LEN <= Offset(j)
  /\ \A c \in Cell : \E i \in 1 .. TEXTS : c - Offset(i) \in 1 .. LEN
  <1>0. TEXTS \in Nat \ {0} /\ LEN \in Nat \ {0}
    BY Sizes
  <1>1. Offset(1) = 0 /\ Offset(TEXTS + 1) = Size
    BY <1>0 DEF Offset, Size
  <1>2. ASSUME NEW i \in 1 .. TEXTS
        PROVE  /\ Offset(i) \in Nat /\ Offset(i + 1) = Offset(i) + LEN
               /\ Offset(i) + LEN <= Size
               /\ \A j \in 1 .. TEXTS : i < j => Offset(i) + LEN <= Offset(j)
    <2>1. Offset(i) \in Nat
      BY <1>0 DEF Offset
    <2>2. Offset(i) + LEN = i * LEN
      BY <1>0 DEF Offset
    <2>3. \A x \in Nat : i <= x => i * LEN <= x * LEN
      <3> SUFFICES ASSUME NEW x \in Nat, i <= x PROVE i * LEN <= x * LEN
        OBVIOUS
      <3>1. x * LEN = i * LEN + (x - i) * LEN /\ (x - i) * LEN \in Nat /\ i * LEN \in Nat
        BY <1>0
      <3> QED
        BY <1>0, <3>1
    <2>4. Offset(i + 1) = i * LEN
      BY <1>0 DEF Offset
    <2>5. \A j \in 1 .. TEXTS : i < j => i <= j - 1 /\ j - 1 \in Nat
      BY <1>0
    <2> QED
      BY <1>0, <2>1, <2>2, <2>3, <2>4, <2>5 DEF Offset, Size
  <1> DEFINE T == {n \in Nat : n <= TEXTS =>
                     \A c \in 1 .. Offset(n + 1) : \E i \in 1 .. TEXTS : c - Offset(i) \in 1 .. LEN}
  <1>3. 0 \in T
    BY <1>1
  <1>4. ASSUME NEW n \in Nat, n \in T PROVE n + 1 \in T
    <2> SUFFICES ASSUME n + 1 <= TEXTS, NEW c \in 1 .. Offset((n + 1) + 1)
                 PROVE  \E i \in 1 .. TEXTS : c - Offset(i) \in 1 .. LEN
      OBVIOUS
    <2>1. n + 1 \in 1 .. TEXTS /\ Offset((n + 1) + 1) = Offset(n + 1) + LEN /\ Offset(n + 1) \in Nat
      BY <1>0, <1>2
    <2>2. CASE c <= Offset(n + 1)
      <3>1. c \in 1 .. Offset(n + 1)
        BY <2>1, <2>2
      <3> QED
        BY <1>0, <1>4, <3>1
    <2>3. CASE c > Offset(n + 1)
      <3>1. c - Offset(n + 1) \in 1 .. LEN
        BY <1>0, <2>1, <2>3
      <3> QED
        BY <2>1, <3>1
    <2> QED
      BY <1>0, <2>1, <2>2, <2>3
  <1>5. \A n \in Nat : n \in T
    <2> HIDE DEF T
    <2> QED
      BY <1>3, <1>4, Induction
  <1>6. \A c \in Cell : \E i \in 1 .. TEXTS : c - Offset(i) \in 1 .. LEN
    BY <1>0, <1>1, <1>5, Sizes
  <1> QED
    BY <1>1, <1>2, <1>6

\* No field has characters behind a zero.
Shaped(t) ==
  /\ t \in [Cell -> Char]
  /\ \A i \in 1 .. TEXTS, k, l \in 1 .. LEN :
       k < l /\ t[Offset(i) + l] # NUL => t[Offset(i) + k] # NUL

\* What a field is written as: its characters, and those of the next fields if
\* it is full, up to the first zero.
LEMMA StrIs ==
  ASSUME NEW t, Shaped(t), NEW i \in 1 .. TEXTS
  PROVE  /\ Str(t, i) \in Seq(Printable)
         /\ Offset(i) + Len(Str(t, i)) <= Size
         /\ \A k \in 1 .. Len(Str(t, i)) : Str(t, i)[k] = t[Offset(i) + k]
         /\ Offset(i) + Len(Str(t, i)) < Size => t[Offset(i) + Len(Str(t, i)) + 1] = NUL
  <1> DEFINE o == Offset(i)
             r == SubSeq(t, o + 1, Size)
  <1>0. /\ o \in Nat /\ o <= Size /\ Size \in Nat /\ LEN \in Nat
        /\ \A c \in 1 .. Size : t[c] \in Char
        /\ t \in Seq(Int) /\ Len(t) = Size
    <2>1. o \in Nat /\ o + LEN <= Size /\ LEN \in Nat /\ Size \in Nat
      BY Offsets, Sizes
    <2>2. t \in [1 .. Size -> Char]
      BY Sizes DEF Shaped
    <2>3. ASSUME NEW x \in 1 .. Size PROVE t[x] \in Char /\ t[x] \in Int
      <3>1. t[x] \in Char
        BY <2>2, Zenon
      <3>2. t[x] \in Nat
        BY <3>1, CharsAre, Zenon
      <3> QED
        BY <3>1, <3>2
    <2>4. t \in [1 .. Size -> Int]
      BY <2>2, <2>3
    <2>5. t \in Seq(Int) /\ Len(t) = Size
      BY <2>1, <2>4, FunctionSeq
    <2> QED
      BY <2>1, <2>3, <2>5
  <1> HIDE DEF o
  <1>1. /\ r \in Seq(Int) /\ Len(r) = Size - o
        /\ \A k \in 1 .. Size - o : r[k] = t[o + k]
    <2>1. o \in 0 .. Len(t)
      BY <1>0
    <2> QED
      BY <1>0, <2>1, Rest
  <1>2. Str(t, i) = Leading(r, Nat \ {NUL})
    BY DEF Str, o, Offset, Size
  <1> HIDE DEF r
  <1>3. PICK e \in 0 .. Len(r) :
          /\ Leading(r, Nat \ {NUL}) = SubSeq(r, 1, e)
          /\ \A k \in 1 .. e : r[k] \in Nat \ {NUL}
          /\ e < Len(r) => r[e + 1] \notin Nat \ {NUL}
    BY <1>1, LeadingIs
  <1> DEFINE s == Str(t, i)
  <1>4. s \in Seq(Int) /\ Len(s) = e /\ \A k \in 1 .. e : s[k] = r[k]
    <2>1. s = SubSeq(r, 1, e)
      BY <1>2, <1>3
    <2> HIDE DEF s
    <2> QED
      BY <1>1, <1>3, <2>1, Beginning
  <1> HIDE DEF s
  <1>5. ASSUME NEW k \in 1 .. e PROVE s[k] = t[o + k] /\ s[k] \in Printable
    <2>0. o \in Nat /\ Size \in Nat /\ k \in Nat /\ k >= 1 /\ k <= Size - o
      <3>1. Len(r) = Size - o /\ o \in Nat /\ Size \in Nat
        BY <1>0, <1>1
      <3> QED
        BY <3>1
    <2>1. o + k \in 1 .. Size /\ k \in 1 .. Size - o
      BY <2>0
    <2>2. r[k] = t[o + k] /\ r[k] # NUL /\ t[o + k] \in Char
      BY <1>0, <1>1, <1>3, <2>1
    <2>3. t[o + k] \in Printable
      BY <2>2, CharsAre
    <2> QED
      BY <1>4, <2>2, <2>3
  <1>6. e < Size - o => t[o + e + 1] = NUL
    <2> SUFFICES ASSUME e < Size - o PROVE t[o + e + 1] = NUL
      OBVIOUS
    <2>1. e + 1 \in 1 .. Size - o /\ o + e + 1 \in 1 .. Size /\ o + (e + 1) = o + e + 1
      BY <1>0, <1>1
    <2>2. r[e + 1] = t[o + e + 1] /\ r[e + 1] \notin Nat \ {NUL} /\ t[o + e + 1] \in Char
      BY <1>0, <1>1, <1>3, <2>1
    <2> QED
      BY <2>2, CharsAre
  <1>7. s \in Seq(Printable)
    <2>1. s \in [1 .. e -> Int] /\ e \in Nat
      BY <1>0, <1>1, <1>4, Elements
    <2>2. s \in [1 .. e -> Printable]
      BY <1>5, <2>1
    <2> QED
      BY <2>1, <2>2, FunctionSeq
  <1>8. /\ o + Len(s) <= Size
        /\ \A k \in 1 .. Len(s) : s[k] = t[o + k]
        /\ o + Len(s) < Size => t[o + Len(s) + 1] = NUL
    BY <1>0, <1>1, <1>4, <1>5, <1>6
  <1> QED
    BY <1>7, <1>8 DEF s, o

LEMMA CopyAt ==
  ASSUME NEW t, NEW i, NEW s, NEW x \in Cell, NEW y, y = x - Offset(i)
  PROVE  Copy(t, i, s)[x] = IF y \in 1 .. Len(s) THEN s[y] ELSE t[x]
  BY Zenon DEF Copy, Offset

\* Copying a string of characters leaves no zero before a character.
LEMMA CopyShaped ==
  ASSUME NEW t, Shaped(t), NEW i \in 1 .. TEXTS, NEW s \in Seq(Printable)
  PROVE  Shaped(Copy(t, i, s))
  <1> DEFINE c == Copy(t, i, s)
             o == Offset(i)
  <1>0. t \in [Cell -> Char] /\ LEN \in Nat /\ Size \in Nat /\ Cell = 1 .. Size
    BY Sizes DEF Shaped
  <1>1. Len(s) \in Nat /\ \A k \in 1 .. Len(s) : s[k] \in Printable
    BY Elements
  <1>2. c = [x \in Cell |-> IF x - o \in 1 .. Len(s) THEN s[x - o] ELSE t[x]]
    BY DEF Copy, Offset
  <1> HIDE DEF c, o
  <1>3. c \in [Cell -> Char]
    <2>1. ASSUME NEW x \in Cell
          PROVE  (IF x - o \in 1 .. Len(s) THEN s[x - o] ELSE t[x]) \in Char
      BY <1>0, <1>1, CharsAre
    <2> QED
      BY <1>2, <2>1
  <1>4. ASSUME NEW x \in Cell
        PROVE  c[x] = IF x - o \in 1 .. Len(s) THEN s[x - o] ELSE t[x]
    BY CopyAt DEF c, o
  <1>5. ASSUME NEW x \in Cell, NEW y \in Cell, x < y, x - o >= 1 \/ y - o < 1,
               c[y] # NUL, t[y] # NUL => t[x] # NUL
        PROVE  c[x] # NUL
    <2>1. CASE x - o \in 1 .. Len(s)
      <3>1. c[x] = s[x - o]
        BY <1>4, <2>1
      <3> QED
        BY <1>1, <2>1, <3>1, CharsAre
    <2>2. CASE x - o \notin 1 .. Len(s)
      <3>1. x \in Int /\ y \in Int /\ o \in Int /\ Len(s) \in Int
        BY <1>0, <1>1, Offsets DEF o
      <3>2. y - o \notin 1 .. Len(s)
        BY <1>5, <2>2, <3>1
      <3>3. c[x] = t[x] /\ c[y] = t[y]
        BY <1>4, <2>2, <3>2
      <3> QED
        BY <1>5, <3>3
    <2> QED
      BY <2>1, <2>2
  <1>6. ASSUME NEW j \in 1 .. TEXTS, NEW k \in 1 .. LEN, NEW l \in 1 .. LEN,
               k < l, c[Offset(j) + l] # NUL
        PROVE  c[Offset(j) + k] # NUL
    <2> DEFINE p == Offset(j)
    <2>1. /\ p \in Nat /\ o \in Nat /\ p + LEN <= Size
          /\ p = o \/ o + LEN <= p \/ p + LEN <= o
      <3>1. i < j \/ i = j \/ j < i
        BY Sizes
      <3> QED
        BY <1>0, <3>1, Offsets DEF o
    <2>2. t[p + l] # NUL => t[p + k] # NUL
      BY <1>6 DEF Shaped
    <2> HIDE DEF p
    <2>3. p + k \in Cell /\ p + l \in Cell /\ p + k < p + l
      BY <1>0, <1>6, <2>1
    <2>4. p + k - o >= 1 \/ p + l - o < 1
      BY <1>0, <2>1
    <2>5. c[p + l] # NUL
      BY <1>6 DEF p
    <2>6. c[p + k] # NUL
      BY <1>0, <1>5, <2>1, <2>2, <2>3, <2>4, <2>5
    <2> QED
      BY <2>6 DEF p
  <1> QED
    BY <1>3, <1>6 DEF Shaped, c

(***************************************************************************)
(* The image of a configuration: its lines behind each other.              *)
(***************************************************************************)

\* Line i ends at end[i].
Places(f, R, end) ==
  /\ f \in Seq(Int) /\ end \in [0 .. Len(R) -> Nat]
  /\ end[0] = 0 /\ end[Len(R)] = Len(f)
  /\ \A i \in 0 .. Len(R) : end[i] <= Len(f)
  /\ \A i \in 1 .. Len(R) : end[i] = end[i - 1] + Len(R[i])
  /\ \A i \in 1 .. Len(R) : \A j \in 1 .. Len(R[i]) : f[end[i - 1] + j] = R[i][j]

LEMMA Within ==
  ASSUME NEW a \in Nat, NEW b \in Nat, NEW c \in Nat, a + b <= c, NEW j \in 1 .. b
  PROVE  a + j \in 1 .. c
  OBVIOUS

LEMMA FlattenIs ==
  ASSUME NEW R \in Seq(Seq(Int)), Len(R) >= 1
  PROVE  \E end : Places(FlattenSeq(R), R, end)
  <1> DEFINE n == Len(R)
             h == [p \in Int \X Seq(Int) |-> IF p[1] \in 1 .. n THEN p[2] \o R[p[1]] ELSE <<>>]
             Good(g) == g = [i \in 1 .. n |-> IF i = 1 THEN R[i] ELSE g[i - 1] \o R[i]]
  <1>0. n \in Nat /\ n >= 1 /\ \A i \in 1 .. n : R[i] \in Seq(Int)
    BY Elements
  <1> HIDE DEF n
  <1>1. h \in [Int \X Seq(Int) -> Seq(Int)]
    <2>1. ASSUME NEW p \in Int \X Seq(Int)
          PROVE  (IF p[1] \in 1 .. n THEN p[2] \o R[p[1]] ELSE <<>>) \in Seq(Int)
      <3>1. p[2] \in Seq(Int) /\ <<>> \in Seq(Int)
        OBVIOUS
      <3>2. p[1] \in 1 .. n => R[p[1]] \in Seq(Int)
        BY <1>0
      <3> QED
        BY <3>1, <3>2, ConcatProperties
    <2> QED
      BY <2>1
  <1>2. PICK g \in [1 .. n -> Seq(Int)] :
          g = [k \in 1 .. n |-> IF k = 1 THEN R[1] ELSE h[<<k, g[k - 1]>>]]
    <2> HIDE DEF h
    <2>1. 1 \in Int /\ n \in Int /\ 1 <= n /\ R[1] \in Seq(Int)
      BY <1>0
    <2>2. \E g \in [1 .. n -> Seq(Int)] : Recurses(g, 1, n, R[1], h)
      BY <1>1, <2>1, Recursion
    <2> QED
      BY <2>2, Zenon DEF Recurses
  <1>3. Good(g)
    <2>1. ASSUME NEW k \in 1 .. n, k # 1 PROVE h[<<k, g[k - 1]>>] = g[k - 1] \o R[k]
      <3>1. k \in Int /\ k - 1 \in 1 .. n
        BY <1>0, <2>1
      <3>2. <<k, g[k - 1]>> \in Int \X Seq(Int)
        BY <1>2, <3>1
      <3> QED
        BY <3>2
    <2> HIDE DEF h
    <2>2. ASSUME NEW k \in 1 .. n
          PROVE  (IF k = 1 THEN R[1] ELSE h[<<k, g[k - 1]>>])
                   = IF k = 1 THEN R[k] ELSE g[k - 1] \o R[k]
      BY <2>1
    <2> QED
      BY <1>2, <2>2
  <1> DEFINE f == CHOOSE x : Good(x)
  <1>4. Good(f)
    <2> HIDE DEF Good
    <2> QED
      BY <1>3, Zenon
  <1>5. FlattenSeq(R) = f[n]
    <2>1. Len(R) # 0
      BY <1>0 DEF n
    <2> QED
      BY <2>1, Zenon DEF FlattenSeq, n
  <1> HIDE DEF f, h
  <1>6. f[1] = R[1] /\ \A k \in Nat \ {0} : k + 1 <= n => f[k + 1] = f[k] \o R[k + 1]
    <2>1. 1 \in 1 .. n
      BY <1>0
    <2>2. ASSUME NEW k \in Nat \ {0}, k + 1 <= n PROVE f[k + 1] = f[k] \o R[k + 1]
      <3>1. k + 1 \in 1 .. n /\ k + 1 # 1 /\ (k + 1) - 1 = k
        BY <1>0, <2>2
      <3>2. f[k + 1] = IF k + 1 = 1 THEN R[k + 1] ELSE f[(k + 1) - 1] \o R[k + 1]
        BY <1>4, <3>1, Zenon
      <3> QED
        BY <3>1, <3>2
    <2>3. f[1] = IF 1 = 1 THEN R[1] ELSE f[1 - 1] \o R[1]
      BY <1>4, <2>1, Zenon
    <2> QED
      BY <2>2, <2>3
  <1> HIDE DEF Good
  <1> DEFINE end == [i \in 0 .. n |-> IF i = 0 THEN 0 ELSE Len(f[i])]
             P(k) == /\ f[k] \in Seq(Int) /\ end[k] = Len(f[k])
                     /\ \A i \in 0 .. k : end[i] \in Nat /\ end[i] <= Len(f[k])
                     /\ \A i \in 1 .. k : end[i] = end[i - 1] + Len(R[i])
                     /\ \A i \in 1 .. k : \A j \in 1 .. Len(R[i]) :
                          f[k][end[i - 1] + j] = R[i][j]
             T == {k \in Nat : k >= 1 /\ k <= n => P(k)}
  <1>7. end[0] = 0 /\ (\A k \in 1 .. n : end[k] = Len(f[k])) /\ end = [i \in 0 .. n |-> end[i]]
    BY <1>0
  <1> HIDE DEF end
  <1>8. P(1)
    <2>1. 1 \in 1 .. n /\ R[1] \in Seq(Int) /\ Len(R[1]) \in Nat
      BY <1>0, Elements
    <2>2. end[1] = Len(R[1]) /\ end[1 - 1] = 0
      <3>1. 1 - 1 = 0
        OBVIOUS
      <3>2. end[1] = Len(f[1])
        BY <1>7, <2>1, Zenon
      <3> QED
        BY <1>6, <1>7, <3>1, <3>2
    <2>3. (\A i \in 1 .. 1 : i = 1) /\ (\A i \in 0 .. 1 : i = 0 \/ i = 1)
      OBVIOUS
    <2>4. \A i \in 0 .. 1 : end[i] \in Nat /\ end[i] <= Len(f[1])
      BY <1>6, <1>7, <2>1, <2>2, <2>3
    <2>5. end[1] = end[1 - 1] + Len(R[1]) /\ end[1] = Len(f[1])
      BY <1>6, <2>1, <2>2
    <2>6. \A j \in 1 .. Len(R[1]) : end[1 - 1] + j = j
      BY <2>1, <2>2
    <2> QED
      BY <1>6, <2>1, <2>3, <2>4, <2>5, <2>6
  <1>9. ASSUME NEW k \in Nat \ {0}, k + 1 <= n, P(k) PROVE P(k + 1)
    <2> DEFINE s == f[k]
               r == R[k + 1]
               u == f[k + 1]
    <2>0. k + 1 \in 1 .. n /\ k \in 1 .. n /\ (k + 1) - 1 = k
      BY <1>0, <1>9
    <2>1. /\ s \in Seq(Int) /\ r \in Seq(Int) /\ Len(s) \in Nat /\ Len(r) \in Nat
          /\ u = s \o r
      BY <1>0, <1>6, <1>9, <2>0, Elements
    <2>2. /\ end[k] = Len(s) /\ end[k + 1] = Len(u)
          /\ \A i \in 0 .. k : end[i] \in Nat /\ end[i] <= Len(s)
          /\ \A i \in 1 .. k : end[i] = end[i - 1] + Len(R[i])
          /\ \A i \in 1 .. k : \A j \in 1 .. Len(R[i]) : s[end[i - 1] + j] = R[i][j]
      BY <1>7, <1>9, <2>0
    <2> HIDE DEF s, u
    <2>3. /\ u \in Seq(Int) /\ Len(u) = Len(s) + Len(r)
          /\ \A x \in 1 .. Len(s) : u[x] = s[x]
          /\ \A j \in 1 .. Len(r) : u[Len(s) + j] = r[j]
      BY <2>1, Concat
    <2>4. ASSUME NEW i \in 0 .. k + 1 PROVE end[i] \in Nat /\ end[i] <= Len(u)
      <3>1. i = k + 1 \/ i \in 0 .. k
        OBVIOUS
      <3>2. CASE i = k + 1
        BY <2>1, <2>2, <2>3, <3>2
      <3>3. CASE i \in 0 .. k
        <4>1. end[i] \in Nat /\ end[i] <= Len(s)
          BY <2>2, <3>3, Zenon
        <4> QED
          BY <2>1, <2>3, <4>1
      <3> QED
        BY <3>1, <3>2, <3>3
    <2>5. ASSUME NEW i \in 1 .. k + 1
          PROVE  /\ end[i] = end[i - 1] + Len(R[i])
                 /\ \A j \in 1 .. Len(R[i]) : u[end[i - 1] + j] = R[i][j]
      <3>1. CASE i = k + 1
        BY <2>0, <2>2, <2>3, <3>1 DEF r
      <3>2. CASE i \in 1 .. k
        <4>1. ASSUME NEW j \in 1 .. Len(R[i]) PROVE u[end[i - 1] + j] = R[i][j]
          <5>1. /\ end[i - 1] \in Nat /\ end[i] = end[i - 1] + Len(R[i]) /\ end[i] <= Len(s)
                /\ s[end[i - 1] + j] = R[i][j]
            <6>1. i \in 0 .. k /\ i - 1 \in 0 .. k
              BY <3>2
            <6> QED
              BY <2>2, <3>2, <4>1, <6>1, Zenon
          <5>2. Len(R[i]) \in Nat
            BY <1>0, <2>0, <3>2, Elements
          <5>3. end[i - 1] + j \in 1 .. Len(s)
            <6>1. Len(s) \in Nat
              BY <2>1
            <6> QED
              BY <5>1, <5>2, <6>1, Within
          <5> QED
            BY <2>3, <5>1, <5>3
        <4> QED
          BY <2>2, <3>2, <4>1
      <3> QED
        BY <3>1, <3>2
    <2>6. u \in Seq(Int) /\ end[k + 1] = Len(u)
      BY <2>2, <2>3
    <2> QED
      BY <2>4, <2>5, <2>6 DEF u
  <1>10. \A k \in Nat : k \in T
    <2>1. 0 \in T
      OBVIOUS
    <2>2. ASSUME NEW k \in Nat, k \in T PROVE k + 1 \in T
      <3> HIDE DEF P
      <3>1. CASE k = 0
        BY <1>8, <3>1
      <3>2. CASE k # 0
        BY <1>0, <1>9, <2>2, <3>2
      <3> QED
        BY <3>1, <3>2
    <2> HIDE DEF T
    <2> QED
      BY <2>1, <2>2, Induction
  <1>11. P(n)
    <2> HIDE DEF P
    <2> QED
      BY <1>0, <1>10
  <1>12. end \in [0 .. n -> Nat]
    BY <1>7, <1>11
  <1>13. Places(f[n], R, end)
    BY <1>0, <1>7, <1>11, <1>12 DEF Places, n
  <1> QED
    BY <1>5, <1>13

\* A configuration as it is in memory.
Proper(m) ==
  /\ m \in [text : [Cell -> Char], num : 0 .. MaxInt]
  /\ Shaped(m.text)

\* What stands between tag and line end in line i.
Text(m, i) == IF i = Lines THEN Decimal(m.num) ELSE Str(m.text, i)

Plain == Nat \ {NL}

LEMMA SeqSubset ==
  ASSUME NEW S, NEW T, S \subseteq T, NEW s \in Seq(S)
  PROVE  s \in Seq(T)
  <1>1. Len(s) \in Nat /\ s \in [1 .. Len(s) -> T]
    BY Elements
  <1> QED
    BY <1>1, FunctionSeq

LEMMA PlainIs ==
  /\ Digit \subseteq Plain /\ Printable \subseteq Plain /\ Plain \subseteq Int /\ Plain \subseteq Nat
  /\ NL \notin Plain /\ NL \in Int
  /\ \A i \in 1 .. Lines : Tag(i) \in Plain
  <1>1. Digit \subseteq Plain
    BY DEF Digit, Plain, NL
  <1>2. Printable \subseteq Plain
    BY CharsAre DEF Plain
  <1>3. \A i \in 1 .. Lines : Tag(i) \in Nat /\ Tag(i) # NL
    BY Sizes DEF Tag, NL
  <1> QED
    BY <1>1, <1>2, <1>3 DEF Plain, NL

LEMMA TextIs ==
  ASSUME NEW m, Proper(m), NEW i \in 1 .. Lines
  PROVE  Text(m, i) \in Seq(Plain)
  <1>1. CASE i = Lines
    <2>1. m.num \in 0 .. MaxInt
      BY DEF Proper
    <2>2. Decimal(m.num) \in Seq(Digit)
      BY <2>1, DecimalIs DEF Numeral
    <2> QED
      BY <1>1, <2>2, PlainIs, SeqSubset DEF Text
  <1>2. CASE i # Lines
    <2>1. i \in 1 .. TEXTS /\ Shaped(m.text)
      BY <1>2, Sizes DEF Proper
    <2>2. Str(m.text, i) \in Seq(Printable)
      BY <2>1, StrIs
    <2> QED
      BY <1>2, <2>2, PlainIs, SeqSubset DEF Text
  <1> QED
    BY <1>1, <1>2

\* A line of the file: its tag, its text, its end.
IsLine(r, t, i) ==
  /\ r \in Seq(Int) /\ t \in Seq(Plain) /\ Len(t) \in Nat /\ Len(r) = Len(t) + 2
  /\ r[1] = Tag(i) /\ r[Len(t) + 2] = NL
  /\ \A k \in 1 .. Len(t) : r[k + 1] = t[k]
  /\ \A k \in 1 .. Len(t) + 1 : r[k] \in Plain

LEMMA RecordIs ==
  ASSUME NEW m, Proper(m), NEW i \in 1 .. Lines
  PROVE  IsLine(Record(m, i), Text(m, i), i)
  <1> DEFINE t == Text(m, i)
             a == <<Tag(i)>>
             b == a \o t
             r == b \o <<NL>>
  <1>0. r = Record(m, i)
    BY Zenon DEF Record, Text
  <1>1. t \in Seq(Plain) /\ t \in Seq(Int) /\ Len(t) \in Nat /\ \A k \in 1 .. Len(t) : t[k] \in Plain
    <2>1. t \in Seq(Plain)
      BY TextIs
    <2> HIDE DEF t
    <2> QED
      BY <2>1, Elements, SeqSubset, PlainIs
  <1> HIDE DEF t
  <1>2. a \in Seq(Int) /\ Len(a) = 1 /\ a[1] = Tag(i) /\ Tag(i) \in Plain
    <2>1. Tag(i) \in Plain /\ Tag(i) \in Int
      BY PlainIs
    <2> QED
      BY <2>1
  <1> HIDE DEF a
  <1>3. /\ b \in Seq(Int) /\ Len(b) = 1 + Len(t)
        /\ \A k \in 1 .. Len(a) : b[k] = a[k]
        /\ \A k \in 1 .. Len(t) : b[Len(a) + k] = t[k]
    <2>1. b \in Seq(Int) /\ Len(b) = Len(a) + Len(t)
      BY <1>1, <1>2, Concat
    <2>2. ASSUME NEW k \in 1 .. Len(a) PROVE b[k] = a[k]
      BY <1>1, <1>2, Concat
    <2>3. \A k \in 1 .. Len(t) : b[Len(a) + k] = t[k]
      <3>1. t \in Seq(Int) /\ a \in Seq(Int)
        BY <1>1, <1>2
      <3> QED
        BY <3>1, Concat
    <2> HIDE DEF b
    <2> QED
      BY <1>1, <1>2, <2>1, <2>2, <2>3
  <1> HIDE DEF b
  <1>4. <<NL>> \in Seq(Int) /\ Len(<<NL>>) = 1 /\ <<NL>>[1] = NL
    BY PlainIs
  <1>5. /\ r \in Seq(Int) /\ Len(r) = Len(b) + 1
        /\ \A k \in 1 .. Len(b) : r[k] = b[k]
        /\ \A k \in 1 .. 1 : r[Len(b) + k] = <<NL>>[k]
    BY <1>3, <1>4, Concat
  <1> HIDE DEF r
  <1>6. r[1] = Tag(i)
    <2>1. 1 \in 1 .. Len(b) /\ 1 \in 1 .. Len(a)
      BY <1>1, <1>2, <1>3
    <2> QED
      BY <1>2, <1>3, <1>5, <2>1
  <1>7. r[Len(t) + 2] = NL
    <2>1. Len(b) + 1 = Len(t) + 2 /\ 1 \in 1 .. 1
      BY <1>1, <1>3
    <2> QED
      BY <1>4, <1>5, <2>1
  <1>8. ASSUME NEW k \in 1 .. Len(t) PROVE r[k + 1] = t[k]
    <2>1. k + 1 \in 1 .. Len(b) /\ Len(a) + k = k + 1
      BY <1>1, <1>2, <1>3
    <2> QED
      BY <1>3, <1>5, <2>1
  <1>9. ASSUME NEW k \in 1 .. Len(t) + 1 PROVE r[k] \in Plain
    <2>1. CASE k = 1
      BY <1>2, <1>6, <2>1
    <2>2. CASE k # 1
      <3>1. k - 1 \in 1 .. Len(t) /\ (k - 1) + 1 = k
        BY <1>1, <2>2
      <3> QED
        BY <1>1, <1>8, <3>1
    <2> QED
      BY <2>1, <2>2
  <1> QED
    BY <1>0, <1>1, <1>3, <1>5, <1>6, <1>7, <1>8, <1>9 DEF IsLine, t

\* The lines of m, and where they are in its image.
Records(m) == [i \in 1 .. Lines |-> Record(m, i)]

LEMMA ImageIs ==
  ASSUME NEW m, Proper(m)
  PROVE  /\ Len(Records(m)) = Lines
         /\ \E end : Places(Image(m), Records(m), end)
  <1>1. ASSUME NEW i \in 1 .. Lines PROVE Record(m, i) \in Seq(Int)
    BY RecordIs DEF IsLine
  <1>2. Lines \in Nat /\ Lines >= 1
    BY Sizes
  <1>3. Records(m) \in [1 .. Lines -> Seq(Int)]
    BY <1>1 DEF Records
  <1>4. Records(m) \in Seq(Seq(Int)) /\ Len(Records(m)) = Lines
    BY <1>2, <1>3, FunctionSeq
  <1>5. Image(m) = FlattenSeq(Records(m))
    BY Zenon DEF Image, Records
  <1> QED
    BY <1>2, <1>4, <1>5, FlattenIs

(***************************************************************************)
(* What f_gets finds in a file that begins as the image does.              *)
(***************************************************************************)

\* A file that ends within the image of m, or goes on behind it, or is empty.
Begins(f, m) ==
  /\ f \in Seq(Int)
  /\ \A k \in 1 .. Len(f) : k <= Len(Image(m)) => f[k] = Image(m)[k]

Short(m) == \A i \in 1 .. Lines : Len(Record(m, i)) < BUF

\* Line r begins behind position o of f, or f ends before it.
Meets(f, o, r) ==
  /\ f \in Seq(Int) /\ r \in Seq(Int) /\ o \in 0 .. Len(f) /\ Len(r) >= 1
  /\ Len(r) < BUF \/ o = Len(f)
  /\ r[Len(r)] = NL
  /\ \A k \in 1 .. Len(r) - 1 : r[k] \in Plain
  /\ \A k \in 1 .. Len(r) : o + k <= Len(f) => f[o + k] = r[k]

\* How much of it there is.
Part(f, o, r) == IF o + Len(r) <= Len(f) THEN Len(r) ELSE Len(f) - o

LEMMA GetsIs ==
  ASSUME NEW f, NEW o, NEW r, Meets(f, o, r)
  PROVE  /\ Part(f, o, r) \in 0 .. Len(r) /\ Part(f, o, r) <= Len(f)
         /\ Gets(f, o + 1) = SubSeq(r, 1, Part(f, o, r))
  <1> DEFINE n == Len(r)
             L == Len(f) - o
             e == Part(f, o, r)
             s == SubSeq(f, o + 1, Len(f))
  <1>a. f \in Seq(Int) /\ r \in Seq(Int) /\ o \in 0 .. Len(f) /\ n >= 1
    BY DEF Meets
  <1>b. (n < BUF \/ o = Len(f)) /\ r[n] = NL /\ \A k \in 1 .. n - 1 : r[k] \in Plain
    BY DEF Meets
  <1>c. \A k \in 1 .. n : o + k <= Len(f) => f[o + k] = r[k]
    BY DEF Meets
  <1>d. Len(f) \in Nat /\ n \in Nat
    BY <1>a, Elements
  <1>0. n \in Nat /\ L \in Nat /\ o \in Nat /\ Len(f) = o + L /\ BUF \in Nat /\ BUF >= 1 /\ n >= 1
    <2> HIDE DEF n
    <2> QED
      BY <1>a, <1>d, Sizes
  <1>9. e = (IF n <= L THEN n ELSE L) /\ e \in 0 .. n /\ e \in 0 .. L
    <2>1. e = IF o + n <= Len(f) THEN n ELSE L
      BY DEF Part
    <2> HIDE DEF n, L, e
    <2> QED
      BY <1>0, <2>1
  <1>6. n < BUF \/ L = 0
    <2>1. n < BUF \/ o = Len(f)
      BY DEF Meets
    <2> HIDE DEF n, L
    <2> QED
      BY <1>0, <2>1
  <1>1. s \in Seq(Int) /\ Len(s) = L /\ \A k \in 1 .. L : s[k] = f[o + k]
    BY <1>a, Rest
  <1>2. Gets(f, o + 1) = SubSeq(s, 1, Min({Len(Leading(s, Plain)) + 1, Len(s), BUF - 1}))
    BY Zenon DEF Gets, Plain
  <1> HIDE DEF s, n, L, e
  <1>3. ASSUME NEW k \in 1 .. L, k <= n PROVE s[k] = r[k]
    <2>1. o + k <= Len(f) /\ k \in 1 .. n
      BY <1>0, <1>3
    <2> QED
      BY <1>1, <1>c, <2>1
  <1>4. PICK z \in 0 .. L : /\ Leading(s, Plain) = SubSeq(s, 1, z)
                            /\ \A k \in 1 .. z : s[k] \in Plain
                            /\ z < L => s[z + 1] \notin Plain
    BY <1>1, LeadingIs
  <1>5. Len(Leading(s, Plain)) = z
    <2>1. z \in 0 .. Len(s)
      BY <1>1
    <2> QED
      BY <1>1, <1>4, <2>1, Beginning
  <1> DEFINE T == {z + 1, L, BUF - 1}
  <1>7. Min(T) \in T /\ \A y \in T : Min(T) <= y
    <2>1. T \subseteq Nat /\ T # {}
      BY <1>0
    <2> HIDE DEF T
    <2> QED
      BY <2>1, MinIs
  <1>8. Gets(f, o + 1) = SubSeq(s, 1, Min(T))
    BY <1>1, <1>2, <1>5
  <1>10. Min(T) = e
    <2>1. CASE n <= L
      <3>1. ~(n <= z)
        <4> SUFFICES ASSUME n <= z PROVE FALSE
          OBVIOUS
        <4>1. n \in 1 .. z /\ n \in 1 .. L /\ n <= n
          BY <1>0, <2>1
        <4> QED
          BY <1>3, <1>4, <1>b, <4>1, PlainIs
      <3>2. z + 1 <= n
        BY <1>0, <3>1
      <3>3. ~(z + 1 <= n - 1)
        <4> SUFFICES ASSUME z + 1 <= n - 1 PROVE FALSE
          OBVIOUS
        <4>1. z + 1 \in 1 .. n - 1 /\ z + 1 \in 1 .. L /\ z < L /\ z + 1 <= n
          BY <1>0, <2>1
        <4> QED
          BY <1>3, <1>4, <1>b, <4>1
      <3>4. z + 1 = n /\ n <= BUF - 1
        BY <1>0, <1>6, <2>1, <3>2, <3>3
      <3>5. n \in T /\ \A y \in T : n <= y
        BY <1>0, <2>1, <3>4
      <3>6. Min(T) \in Int /\ Min(T) <= n /\ n <= Min(T)
        <4>1. Min(T) \in Int
          BY <1>0, <1>7
        <4> HIDE DEF T
        <4> QED
          BY <1>7, <3>5, <4>1
      <3> HIDE DEF T
      <3> QED
        BY <1>0, <1>9, <2>1, <3>6
    <2>2. CASE ~(n <= L)
      <3>1. ~(z < L)
        <4> SUFFICES ASSUME z < L PROVE FALSE
          OBVIOUS
        <4>1. z + 1 \in 1 .. n - 1 /\ z + 1 \in 1 .. L /\ z + 1 <= n
          BY <1>0, <2>2
        <4> QED
          BY <1>3, <1>4, <1>b, <4>1
      <3>2. z = L /\ L <= BUF - 1
        BY <1>0, <1>6, <2>2, <3>1
      <3>3. L \in T /\ \A y \in T : L <= y
        BY <1>0, <3>2
      <3>4. Min(T) \in Int /\ Min(T) <= L /\ L <= Min(T)
        <4>1. Min(T) \in Int
          BY <1>0, <1>7
        <4> HIDE DEF T
        <4> QED
          BY <1>7, <3>3, <4>1
      <3> HIDE DEF T
      <3> QED
        BY <1>0, <1>9, <2>2, <3>4
    <2> QED
      BY <2>1, <2>2
  <1> HIDE DEF T
  <1>11. SubSeq(s, 1, e) = SubSeq(r, 1, e)
    <2>1. e \in 0 .. Len(s) /\ e \in 0 .. Len(r)
      BY <1>1, <1>9 DEF n
    <2>2. /\ SubSeq(s, 1, e) \in Seq(Int) /\ Len(SubSeq(s, 1, e)) = e
          /\ \A k \in 1 .. e : SubSeq(s, 1, e)[k] = s[k]
      BY <1>1, <2>1, Beginning
    <2>3. /\ SubSeq(r, 1, e) \in Seq(Int) /\ Len(SubSeq(r, 1, e)) = e
          /\ \A k \in 1 .. e : SubSeq(r, 1, e)[k] = r[k]
      BY <1>a, <2>1, Beginning
    <2>4. ASSUME NEW k \in 1 .. e PROVE SubSeq(s, 1, e)[k] = SubSeq(r, 1, e)[k]
      <3>1. k \in 1 .. L /\ k <= n
        BY <1>0, <1>9
      <3> QED
        BY <1>3, <2>2, <2>3, <3>1
    <2> QED
      BY <2>2, <2>3, <2>4, SeqEqual
  <1>12. e <= Len(f)
    BY <1>0, <1>9
  <1> QED
    BY <1>8, <1>9, <1>10, <1>11, <1>12 DEF n, e

\* How far f has been read when line k has been.
Until(f, end, k) == IF end[k] <= Len(f) THEN end[k] ELSE Len(f)

LEMMA NextLine ==
  ASSUME NEW m, Proper(m), NEW f, Begins(f, m), f = <<>> \/ Short(m),
         NEW end, Places(Image(m), Records(m), end), NEW k \in 1 .. Lines
  PROVE  /\ Until(f, end, k - 1) \in Nat
         /\ Meets(f, Until(f, end, k - 1), Record(m, k))
         /\ Until(f, end, k - 1) + Part(f, Until(f, end, k - 1), Record(m, k)) = Until(f, end, k)
         /\ Len(f) >= Len(Image(m)) =>
              Part(f, Until(f, end, k - 1), Record(m, k)) = Len(Record(m, k))
  <1> DEFINE g == Image(m)
             r == Record(m, k)
             o == Until(f, end, k - 1)
             n == Len(r)
             a == end[k - 1]
             b == end[k]
             l == Len(f)
  <1>1. r = Records(m)[k] /\ Len(Records(m)) = Lines /\ Lines \in Nat
    BY ImageIs, Sizes DEF Records
  <1>2. /\ a \in Nat /\ b \in Nat /\ b <= Len(g) /\ b = a + n
        /\ \A j \in 1 .. n : g[a + j] = r[j]
    <2>1. k - 1 \in 0 .. Len(Records(m)) /\ k \in 0 .. Len(Records(m)) /\ k \in 1 .. Len(Records(m))
      BY <1>1
    <2> HIDE DEF r
    <2> QED
      BY <1>1, <2>1 DEF Places
  <1>3. r \in Seq(Int) /\ n \in Nat /\ n >= 1 /\ r[n] = NL /\ \A j \in 1 .. n - 1 : r[j] \in Plain
    <2> DEFINE t == Text(m, k)
    <2>1. /\ r \in Seq(Int) /\ Len(t) \in Nat /\ n = Len(t) + 2
          /\ r[Len(t) + 2] = NL /\ \A j \in 1 .. Len(t) + 1 : r[j] \in Plain
      BY RecordIs DEF IsLine
    <2> HIDE DEF t, r
    <2>2. n - 1 = Len(t) + 1
      BY <2>1
    <2> QED
      BY <2>1, <2>2
  <1>4. f \in Seq(Int) /\ l \in Nat /\ \A j \in 1 .. l : j <= Len(g) => f[j] = g[j]
    BY Elements DEF Begins
  <1>5. Len(g) \in Nat
    <2>1. g \in Seq(Int)
      BY <1>1, ImageIs DEF Places
    <2> QED
      BY <2>1, Elements
  <1>6. n < BUF \/ l = 0
    <2>1. CASE f = <<>>
      BY <2>1
    <2>2. CASE Short(m)
      BY <2>2 DEF Short
    <2> QED
      BY <2>1, <2>2
  <1>7. o = IF a <= l THEN a ELSE l
    BY DEF Until
  <1>8. Until(f, end, k) = IF b <= l THEN b ELSE l
    BY DEF Until
  <1>9. Part(f, o, r) = IF o + n <= l THEN n ELSE l - o
    BY DEF Part
  <1> HIDE DEF g, r, o, n, a, b, l
  <1>10. o \in 0 .. l /\ o \in Nat /\ (o < l => o = a)
    BY <1>2, <1>4, <1>7
  <1>11. n < BUF \/ o = l
    BY <1>4, <1>6, <1>10
  <1>12. ASSUME NEW j \in 1 .. n, o + j <= l PROVE f[o + j] = r[j]
    <2>1. o = a
      BY <1>3, <1>4, <1>10, <1>12
    <2>2. a + j \in 1 .. l /\ a + j <= Len(g)
      BY <1>2, <1>3, <1>4, <1>5, <1>12, <2>1
    <2> QED
      BY <1>2, <1>4, <2>1, <2>2
  <1>13. Meets(f, o, r)
    BY <1>3, <1>4, <1>10, <1>11, <1>12 DEF Meets, n, l
  <1>14. o + Part(f, o, r) = Until(f, end, k)
    BY <1>2, <1>3, <1>4, <1>7, <1>8, <1>9
  <1>15. l >= Len(g) => Part(f, o, r) = n
    BY <1>2, <1>3, <1>4, <1>5, <1>7, <1>9
  <1> QED
    BY <1>10, <1>13, <1>14, <1>15 DEF o, r, n, l, g

\* Each line that is read is the beginning of the line that was written.
LEMMA LineIs ==
  ASSUME NEW m, Proper(m), NEW f, Begins(f, m), f = <<>> \/ Short(m), NEW i \in 1 .. Lines
  PROVE  \E e \in 0 .. Len(Record(m, i)) :
           /\ Line(f, i) = SubSeq(Record(m, i), 1, e) /\ e <= Len(f)
           /\ Len(f) >= Len(Image(m)) => e = Len(Record(m, i))
  <1>1. PICK end : Places(Image(m), Records(m), end)
    BY ImageIs
  <1> DEFINE Good(g) == g = [k \in 1 .. i |-> IF k = 1 THEN 1 ELSE g[k - 1] + Len(Gets(f, g[k - 1]))]
             u(k) == Until(f, end, k)
             r(k) == Record(m, k)
             q == [k \in 1 .. i |-> u(k - 1) + 1]
             at == CHOOSE g : Good(g)
  <1>0. i \in Nat /\ i <= Lines /\ Lines \in Nat /\ i >= 1
    BY Sizes
  <1>2. ASSUME NEW k \in 1 .. Lines
        PROVE  /\ u(k - 1) \in Nat /\ Part(f, u(k - 1), r(k)) \in 0 .. Len(r(k))
               /\ Part(f, u(k - 1), r(k)) <= Len(f)
               /\ Gets(f, u(k - 1) + 1) = SubSeq(r(k), 1, Part(f, u(k - 1), r(k)))
               /\ Len(f) >= Len(Image(m)) => Part(f, u(k - 1), r(k)) = Len(r(k))
               /\ u(k) = u(k - 1) + Len(Gets(f, u(k - 1) + 1))
    <2> DEFINE e == Part(f, u(k - 1), r(k))
    <2>1. /\ u(k - 1) \in Nat /\ Meets(f, u(k - 1), r(k)) /\ u(k - 1) + e = u(k)
          /\ Len(f) >= Len(Image(m)) => e = Len(r(k))
      BY <1>1, NextLine
    <2>2. e \in 0 .. Len(r(k)) /\ e <= Len(f) /\ Gets(f, u(k - 1) + 1) = SubSeq(r(k), 1, e)
      BY <2>1, GetsIs
    <2>3. r(k) \in Seq(Int)
      BY RecordIs DEF IsLine
    <2> HIDE DEF e, u, r
    <2>6. Len(SubSeq(r(k), 1, e)) = e
      BY <2>2, <2>3, Beginning
    <2> QED
      BY <2>1, <2>2, <2>6 DEF e
  <1>3. u(0) = 0
    <2>1. end[0] = 0 /\ Len(f) \in Nat
      BY <1>1, Elements DEF Places, Begins
    <2> QED
      BY <2>1 DEF Until
  <1> HIDE DEF u
  <1>4. Good(q)
    <2>1. ASSUME NEW k \in 1 .. i
          PROVE  u(k - 1) + 1 = IF k = 1 THEN 1 ELSE q[k - 1] + Len(Gets(f, q[k - 1]))
      <3>1. CASE k = 1
        BY <1>3, <3>1
      <3>2. CASE k # 1
        <4>1. k - 1 \in 1 .. Lines /\ k - 1 \in 1 .. i /\ (k - 1) - 1 \in Int
          BY <1>0, <3>2
        <4>2. q[k - 1] = u((k - 1) - 1) + 1
          BY <4>1
        <4> DEFINE x == (k - 1) - 1
                   w == Len(Gets(f, u(x) + 1))
        <4>3. u(x) \in Nat /\ u(k - 1) \in Nat /\ u(k - 1) = u(x) + w
          BY <1>0, <1>2, <4>1
        <4> HIDE DEF q
        <4>4. q[k - 1] + Len(Gets(f, q[k - 1])) = u(x) + 1 + w
          BY <4>2
        <4> HIDE DEF x, w
        <4>5. w = u(k - 1) - u(x)
          BY <4>3 DEF w
        <4> QED
          BY <3>2, <4>3, <4>4, <4>5
      <3> QED
        BY <3>1, <3>2
    <2> QED
      BY <2>1
  <1>5. Good(at)
    <2> HIDE DEF Good, q
    <2> QED
      BY <1>4
  <1> HIDE DEF at, q
  <1>6. ASSUME NEW k \in 1 .. i
        PROVE  at[k] = IF k = 1 THEN 1 ELSE at[k - 1] + Len(Gets(f, at[k - 1]))
    BY <1>5, Zenon
  <1> DEFINE T == {n \in Nat : n + 1 <= i => at[n + 1] = u(n) + 1}
  <1>7. 0 \in T
    <2>1. 1 \in 1 .. i
      BY <1>0
    <2>2. at[1] = 1
      BY <1>6, <2>1
    <2> QED
      BY <1>3, <2>2
  <1>8. ASSUME NEW n \in Nat, n \in T PROVE n + 1 \in T
    <2> SUFFICES ASSUME n + 2 <= i PROVE at[n + 2] = u(n + 1) + 1
      OBVIOUS
    <2>1. n + 2 \in 1 .. i /\ n + 2 # 1 /\ (n + 2) - 1 = n + 1 /\ n + 1 \in 1 .. Lines /\ n + 1 <= i
          /\ (n + 1) - 1 = n
      BY <1>0
    <2>2. at[n + 1] = u(n) + 1
      BY <1>8, <2>1
    <2>3. at[n + 2] = at[n + 1] + Len(Gets(f, at[n + 1]))
      BY <1>6, <2>1
    <2> DEFINE w == Len(Gets(f, u(n) + 1))
    <2>4. u(n) \in Nat /\ u(n + 1) = u(n) + w
      BY <1>2, <2>1
    <2>5. u(n + 1) \in Nat
      <3>1. (n + 2) \in 1 .. Lines
        BY <1>0, <2>1
      <3> QED
        BY <1>2, <2>1, <3>1
    <2>6. at[n + 2] = u(n) + 1 + w
      BY <2>2, <2>3
    <2> HIDE DEF w
    <2>7. w = u(n + 1) - u(n)
      BY <2>4, <2>5 DEF w
    <2> QED
      BY <2>4, <2>5, <2>6, <2>7
  <1>9. \A n \in Nat : n \in T
    <2> HIDE DEF T
    <2> QED
      BY <1>7, <1>8, Induction
  <1>10. at[i] = u(i - 1) + 1
    <2>1. i - 1 \in Nat /\ (i - 1) + 1 = i /\ i <= i
      BY <1>0
    <2>2. i - 1 \in T
      BY <1>9, <2>1
    <2> HIDE DEF u
    <2> QED
      BY <2>1, <2>2
  <1>11. Line(f, i) = Gets(f, at[i])
    BY Zenon DEF Line, at
  <1>12. Part(f, u(i - 1), r(i)) \in 0 .. Len(Record(m, i))
    BY <1>2
  <1> QED
    BY <1>2, <1>10, <1>11, <1>12

(***************************************************************************)
(* Reading what was written.                                               *)
(***************************************************************************)

\* The file holds m, or a beginning of it.
Holds(f, m) == Proper(m) /\ Begins(f, m) /\ (f = <<>> \/ Short(m))

Whole(f, m) == Len(f) >= Len(Image(m))

LEMMA ValueIs ==
  ASSUME NEW m, NEW f, Holds(f, m), NEW i \in 1 .. Lines
  PROVE  /\ Found(f, i) /\ Len(Line(f, i)) # 1 =>
              \E d \in 0 .. Len(Text(m, i)) : /\ Value(f, i) = SubSeq(Text(m, i), 1, d)
                                              /\ Whole(f, m) => d = Len(Text(m, i))
         /\ Whole(f, m) => Found(f, i) /\ Len(Line(f, i)) # 1
         /\ f = <<>> => ~ Found(f, i)
  <1> DEFINE r == Record(m, i)
             t == Text(m, i)
             s == Line(f, i)
  <1>1. PICK e \in 0 .. Len(r) : s = SubSeq(r, 1, e) /\ e <= Len(f) /\ (Whole(f, m) => e = Len(r))
    BY LineIs DEF Holds, Whole
  <1>2. /\ r \in Seq(Int) /\ t \in Seq(Plain) /\ Len(t) \in Nat /\ Len(r) = Len(t) + 2
        /\ r[1] = Tag(i) /\ \A k \in 1 .. Len(t) : r[k + 1] = t[k]
    BY RecordIs DEF IsLine, Holds
  <1>3. Found(f, i) <=> s # <<>> /\ s[1] = Tag(i)
    BY DEF Found
  <1>4. Value(f, i) = SubSeq(s, 2, Len(s) - 1)
    BY DEF Value
  <1> HIDE DEF r, t, s
  <1>5. s \in Seq(Int) /\ Len(s) = e /\ \A k \in 1 .. e : s[k] = r[k]
    BY <1>1, <1>2, Beginning
  <1>6. e >= 1 => Found(f, i)
    <2> SUFFICES ASSUME e >= 1 PROVE s # <<>> /\ s[1] = Tag(i)
      BY <1>3
    <2>1. 1 \in 1 .. e
      OBVIOUS
    <2>2. s[1] = Tag(i)
      BY <1>2, <1>5, <2>1
    <2>3. s # <<>>
      BY <1>5
    <2> QED
      BY <2>2, <2>3
  <1>7. Found(f, i) => e >= 1
    <2> SUFFICES ASSUME e = 0 PROVE s = <<>>
      BY <1>1, <1>2, <1>3
    <2> QED
      BY <1>5
  <1>8. ASSUME e >= 2 PROVE Value(f, i) = SubSeq(t, 1, e - 2)
    <2> DEFINE v == SubSeq(s, 2, e - 1)
               w == SubSeq(t, 1, e - 2)
    <2>1. /\ 2 \in Int /\ e - 1 \in Int /\ 1 <= 2 /\ 2 <= (e - 1) + 1 /\ e - 1 <= Len(s)
          /\ e - 2 \in 0 .. Len(t) /\ (e - 1) - 2 + 1 = e - 2
      BY <1>1, <1>2, <1>5, <1>8
    <2>2. v \in Seq(Int) /\ Len(v) = e - 2 /\ \A k \in 1 .. e - 2 : v[k] = s[2 + k - 1]
      BY <1>5, <2>1, Slice
    <2>3. w \in Seq(Plain) /\ Len(w) = e - 2 /\ \A k \in 1 .. e - 2 : w[k] = t[k]
      BY <1>2, <2>1, Beginning
    <2> HIDE DEF v, w
    <2>4. w \in Seq(Int)
      BY <2>3, SeqSubset, PlainIs
    <2>5. ASSUME NEW k \in 1 .. e - 2 PROVE v[k] = w[k]
      <3>0. e \in Int /\ k \in Int /\ 1 <= k /\ k <= e - 2 /\ Len(t) \in Nat /\ e <= Len(t) + 2
        BY <1>1, <1>2
      <3>1. 2 + k - 1 = k + 1 /\ k + 1 \in 1 .. e /\ k \in 1 .. Len(t)
        BY <3>0
      <3>2. v[k] = s[k + 1] /\ w[k] = t[k]
        BY <2>2, <2>3, <3>1
      <3> QED
        BY <1>2, <1>5, <3>1, <3>2
    <2>6. v = w
      BY <2>2, <2>3, <2>4, <2>5, SeqEqual
    <2> QED
      BY <1>4, <1>5, <2>6 DEF v, w
  <1>9. Whole(f, m) => e = Len(t) + 2
    BY <1>1, <1>2
  <1>10. Found(f, i) /\ Len(s) # 1 =>
            \E d \in 0 .. Len(t) : Value(f, i) = SubSeq(t, 1, d) /\ (Whole(f, m) => d = Len(t))
    <2> SUFFICES ASSUME Found(f, i), Len(s) # 1
                 PROVE  \E d \in 0 .. Len(t) : Value(f, i) = SubSeq(t, 1, d)
                                               /\ (Whole(f, m) => d = Len(t))
      OBVIOUS
    <2>1. e >= 2
      BY <1>1, <1>2, <1>5, <1>7
    <2>2. e - 2 \in 0 .. Len(t) /\ (Whole(f, m) => e - 2 = Len(t))
      BY <1>1, <1>2, <1>9, <2>1
    <2> QED
      BY <1>8, <2>1, <2>2
  <1>11. Whole(f, m) => Found(f, i) /\ Len(s) # 1
    <2>1. Whole(f, m) => e >= 1 /\ e # 1
      BY <1>2, <1>9
    <2> QED
      BY <1>5, <1>6, <2>1
  <1>12. f = <<>> => ~ Found(f, i)
    <2>1. f = <<>> => e = 0
      BY <1>1, <1>2
    <2> QED
      BY <1>7, <2>1
  <1> QED
    BY <1>10, <1>11, <1>12 DEF t, s

\* Nothing runs over where the file has all of it, or nothing.
LEMMA NoOverrun ==
  ASSUME NEW m, NEW f, Holds(f, m), Whole(f, m) \/ f = <<>>
  PROVE  ~ Overruns(f)
  BY ValueIs, Zenon DEF Overruns

\* The text t has no characters but those of m, and all of them up to place o.
Taken(t, m) == Shaped(t) /\ \A c \in Cell : t[c] \in {m.text[c], NUL}
Filled(t, m, o) == \A c \in Cell : c <= o => t[c] = m.text[c]

\* Copying the first d characters of what field i was written as.
LEMMA OneField ==
  ASSUME NEW m, Proper(m), NEW i \in 1 .. TEXTS, NEW d \in 0 .. Len(Str(m.text, i)),
         NEW t, Taken(t, m)
  PROVE  /\ Taken(Copy(t, i, SubSeq(Str(m.text, i), 1, d)), m)
         /\ d = Len(Str(m.text, i)) /\ Filled(t, m, Offset(i)) =>
              Filled(Copy(t, i, SubSeq(Str(m.text, i), 1, d)), m, Offset(i + 1))
  <1> DEFINE u == m.text
             w == Str(u, i)
             v == SubSeq(w, 1, d)
             o == Offset(i)
             x == Copy(t, i, v)
  <1>0. /\ Shaped(u) /\ u \in [Cell -> Char]
        /\ LEN \in Nat /\ Size \in Nat /\ o \in Nat /\ Cell = 1 .. Size
        /\ Offset(i + 1) = o + LEN
    BY Sizes, Offsets DEF Proper, Shaped
  <1>1. /\ w \in Seq(Printable) /\ o + Len(w) <= Size
        /\ \A k \in 1 .. Len(w) : w[k] = u[o + k]
        /\ o + Len(w) < Size => u[o + Len(w) + 1] = NUL
    <2> HIDE DEF u
    <2> QED
      BY <1>0, StrIs DEF o
  <1>2. Shaped(t) /\ \A c \in Cell : t[c] \in {u[c], NUL}
    BY DEF Taken
  <1> HIDE DEF u, w, o
  <1>3. Len(w) \in Nat
    BY <1>1, Elements
  <1>d. d \in 0 .. Len(w)
    BY DEF w, u
  <1>4. v \in Seq(Printable) /\ Len(v) = d /\ \A k \in 1 .. d : v[k] = w[k]
    BY <1>1, <1>d, Beginning
  <1> HIDE DEF v
  <1>5. Shaped(x)
    BY <1>2, <1>4, CopyShaped
  <1>6. ASSUME NEW c \in Cell, NEW k, k = c - o
        PROVE  x[c] = IF k \in 1 .. d THEN u[c] ELSE t[c]
    <2>1. x[c] = IF k \in 1 .. Len(v) THEN v[k] ELSE t[c]
      BY <1>6, CopyAt DEF o
    <2>2. k \in 1 .. d => v[k] = u[c]
      <3> SUFFICES ASSUME k \in 1 .. d PROVE v[k] = u[c]
        OBVIOUS
      <3>1. k \in 1 .. Len(w) /\ o + k = c
        BY <1>0, <1>3, <1>6, <1>d
      <3> QED
        BY <1>1, <1>4, <3>1
    <2> HIDE DEF x
    <2> QED
      BY <1>4, <2>1, <2>2
  <1> HIDE DEF x
  <1>7. \A c \in Cell : x[c] \in {u[c], NUL}
    <2>1. ASSUME NEW c \in Cell PROVE x[c] \in {u[c], NUL}
      <3>1. c - o \in Int
        BY <1>0
      <3>2. x[c] = u[c] \/ x[c] = t[c]
        BY <1>6
      <3> QED
        BY <1>2, <3>2
    <2> QED
      BY <2>1
  <1>8. ASSUME d = Len(w), Filled(t, m, o), NEW c \in Cell, c <= o + LEN PROVE x[c] = u[c]
    <2> DEFINE k == c - o
    <2>0. k \in Int /\ c \in Nat /\ o + k = c
      BY <1>0
    <2>1. x[c] = IF k \in 1 .. d THEN u[c] ELSE t[c]
      BY <1>6
    <2> HIDE DEF k
    <2>2. CASE k \in 1 .. d
      BY <2>1, <2>2
    <2>3. CASE k < 1
      <3>1. t[c] = u[c]
        <4>1. c <= o
          BY <1>0, <2>0, <2>3
        <4> QED
          BY <1>8, <4>1 DEF Filled, u
      <3> QED
        BY <2>1, <3>1
    <2>4. CASE k > d
      <3>1. d + 1 \in 1 .. LEN /\ k \in 1 .. LEN /\ o + d < Size /\ d \in Nat
        BY <1>0, <1>3, <1>8, <1>d, <2>0, <2>4
      <3>2. u[o + (d + 1)] = NUL
        <4>1. o + d + 1 = o + (d + 1)
          BY <1>0, <3>1
        <4> QED
          BY <1>1, <1>8, <3>1, <4>1
      <3>3. k = d + 1 \/ d + 1 < k
        BY <2>0, <2>4, <3>1
      <3>4. u[o + k] = NUL
        BY <1>0, <3>1, <3>2, <3>3 DEF Shaped, o
      <3>5. t[c] = NUL
        BY <1>2, <2>0, <3>4
      <3>6. k \notin 1 .. d
        BY <2>0, <2>4, <3>1
      <3> QED
        BY <2>0, <2>1, <3>4, <3>5, <3>6
    <2> QED
      BY <1>d, <1>3, <2>0, <2>2, <2>3, <2>4
  <1>9. Taken(x, m)
    BY <1>5, <1>7 DEF Taken, u
  <1>10. d = Len(w) /\ Filled(t, m, o) => Filled(x, m, Offset(i + 1))
    BY <1>0, <1>8 DEF Filled, u
  <1> QED
    BY <1>9, <1>10 DEF x, v, w, u, o

LEMMA BlankIs == Proper(Blank)
  <1>1. Blank.text \in [Cell -> Char] /\ Blank.num = 0 /\ \A c \in Cell : Blank.text[c] = NUL
    BY CharsAre DEF Blank
  <1>2. Blank \in [text : [Cell -> Char], num : 0 .. MaxInt]
    BY CharsAre, Ints DEF Blank
  <1>3. ASSUME NEW i \in 1 .. TEXTS, NEW k \in 1 .. LEN PROVE Blank.text[Offset(i) + k] = NUL
    <2>1. Offset(i) \in Nat /\ LEN \in Nat /\ Size \in Nat /\ Offset(i) + LEN <= Size /\ Cell = 1 .. Size
      BY Offsets, Sizes
    <2>2. Offset(i) + k \in Cell
      BY <2>1, Within
    <2> QED
      BY <1>1, <2>2
  <1> QED
    BY <1>1, <1>2, <1>3 DEF Proper, Shaped

\* What is read of one field.
LEMMA TextRead ==
  ASSUME NEW m, NEW f, Holds(f, m), ~ Overruns(f), NEW i \in 1 .. TEXTS, NEW t, Taken(t, m),
         NEW x, x = IF Found(f, i) THEN Copy(t, i, Value(f, i)) ELSE t
  PROVE  Taken(x, m) /\ (Whole(f, m) /\ Filled(t, m, Offset(i)) => Filled(x, m, Offset(i + 1)))
  <1>1. i \in 1 .. Lines /\ i # Lines /\ Proper(m)
    BY Sizes DEF Holds
  <1>2. Text(m, i) = Str(m.text, i)
    BY <1>1 DEF Text
  <1>3. Found(f, i) => Len(Line(f, i)) # 1
    BY <1>1 DEF Overruns
  <1>4. CASE Found(f, i)
    <2>1. PICK d \in 0 .. Len(Str(m.text, i)) :
            Value(f, i) = SubSeq(Str(m.text, i), 1, d) /\ (Whole(f, m) => d = Len(Str(m.text, i)))
      BY <1>1, <1>2, <1>3, <1>4, ValueIs
    <2>2. x = Copy(t, i, SubSeq(Str(m.text, i), 1, d))
      BY <1>4, <2>1
    <2> QED
      BY <1>1, <2>1, <2>2, OneField
  <1>5. CASE ~ Found(f, i)
    BY <1>1, <1>5, ValueIs
  <1> QED
    BY <1>4, <1>5

\* And of the number.
LEMMA NumberRead ==
  ASSUME NEW m, NEW f, Holds(f, m), ~ Overruns(f),
         NEW n, n = IF Found(f, Lines) THEN atoi(Value(f, Lines)) ELSE 0
  PROVE  n \in Leads(m.num) /\ (Whole(f, m) => n = m.num)
  <1> DEFINE s == Decimal(m.num)
  <1>1. Lines \in 1 .. Lines /\ m.num \in 0 .. MaxInt
    BY Sizes DEF Holds, Proper
  <1>2. s \in Seq(Digit) /\ atoi(s) = m.num /\ \A e \in 0 .. Len(s) : atoi(SubSeq(s, 1, e)) \in Leads(m.num)
    BY <1>1, DecimalIs DEF Numeral
  <1>3. Text(m, Lines) = s
    BY DEF Text
  <1>4. Found(f, Lines) => Len(Line(f, Lines)) # 1
    BY <1>1 DEF Overruns
  <1> HIDE DEF s
  <1>5. CASE Found(f, Lines)
    <2>1. PICK d \in 0 .. Len(s) :
            Value(f, Lines) = SubSeq(s, 1, d) /\ (Whole(f, m) => d = Len(s))
      BY <1>1, <1>3, <1>4, <1>5, ValueIs
    <2>2. SubSeq(s, 1, Len(s)) = s
      BY <1>2, SubSeqFull
    <2>3. n = atoi(SubSeq(s, 1, d))
      BY <1>5, <2>1
    <2>4. Whole(f, m) => SubSeq(s, 1, d) = s
      BY <2>1, <2>2
    <2>5. Whole(f, m) => n = m.num
      BY <1>2, <2>3, <2>4, Zenon
    <2> QED
      BY <1>2, <2>1, <2>3, <2>5, Zenon
  <1>6. CASE ~ Found(f, Lines)
    BY <1>1, <1>6, LeadsIs, ValueIs
  <1> QED
    BY <1>5, <1>6

LEMMA ReadIs ==
  ASSUME NEW m, NEW f, Holds(f, m), ~ Overruns(f)
  PROVE  /\ Proper(Read(f))
         /\ \A c \in Cell : Read(f).text[c] \in {m.text[c], NUL}
         /\ Read(f).num \in Leads(m.num)
         /\ Whole(f, m) => Read(f) = m
  <1> DEFINE Put(t, i) == IF Found(f, i) THEN Copy(t, i, Value(f, i)) ELSE t
             Good(g) == g = [i \in 0 .. TEXTS |-> IF i = 0 THEN Blank.text ELSE Put(g[i - 1], i)]
             S == {t \in [Cell -> Char] : Taken(t, m)}
             h == [p \in Int \X S |-> IF p[1] \in 1 .. TEXTS THEN Put(p[2], p[1]) ELSE p[2]]
             text == CHOOSE g : Good(g)
             num == IF Found(f, Lines) THEN atoi(Value(f, Lines)) ELSE 0
  <1>0. TEXTS \in Nat /\ Proper(m) /\ Proper(Blank) /\ Size \in Nat /\ Cell = 1 .. Size
    BY Sizes, BlankIs DEF Holds
  <1>1. Taken(Blank.text, m) /\ Filled(Blank.text, m, Offset(1))
    <2>1. \A c \in Cell : Blank.text[c] = NUL
      BY DEF Blank
    <2>2. \A c \in Cell : ~(c <= Offset(1))
      BY <1>0, Offsets
    <2> QED
      BY <1>0, <2>1, <2>2 DEF Taken, Filled, Proper
  <1>2. ASSUME NEW i \in 1 .. TEXTS, NEW t, Taken(t, m)
        PROVE  /\ Taken(Put(t, i), m)
               /\ Whole(f, m) /\ Filled(t, m, Offset(i)) => Filled(Put(t, i), m, Offset(i + 1))
    BY <1>2, TextRead
  <1>3. \A t : t \in S <=> Taken(t, m)
    BY DEF Taken, Shaped
  <1> HIDE DEF S, Put
  <1>4. h \in [Int \X S -> S]
    <2>1. ASSUME NEW p \in Int \X S
          PROVE  (IF p[1] \in 1 .. TEXTS THEN Put(p[2], p[1]) ELSE p[2]) \in S
      <3>1. p[2] \in S
        OBVIOUS
      <3>2. p[1] \in 1 .. TEXTS => Put(p[2], p[1]) \in S
        BY <1>2, <1>3, <3>1
      <3> QED
        BY <3>1, <3>2
    <2> QED
      BY <2>1
  <1>5. PICK g \in [0 .. TEXTS -> S] :
          g = [k \in 0 .. TEXTS |-> IF k = 0 THEN Blank.text ELSE h[<<k, g[k - 1]>>]]
    <2> HIDE DEF h
    <2>1. 0 \in Int /\ TEXTS \in Int /\ 0 <= TEXTS /\ Blank.text \in S
      BY <1>0, <1>1, <1>3
    <2>2. \E g \in [0 .. TEXTS -> S] : Recurses(g, 0, TEXTS, Blank.text, h)
      BY <1>4, <2>1, Recursion
    <2> QED
      BY <2>2, Zenon DEF Recurses
  <1>6. Good(g)
    <2>1. ASSUME NEW k \in 0 .. TEXTS, k # 0 PROVE h[<<k, g[k - 1]>>] = Put(g[k - 1], k)
      <3>1. k \in Int /\ k \in 1 .. TEXTS /\ k - 1 \in 0 .. TEXTS
        BY <1>0, <2>1
      <3>2. <<k, g[k - 1]>> \in Int \X S
        BY <1>5, <3>1
      <3> QED
        BY <3>1, <3>2
    <2> HIDE DEF h
    <2>2. ASSUME NEW k \in 0 .. TEXTS
          PROVE  (IF k = 0 THEN Blank.text ELSE h[<<k, g[k - 1]>>])
                   = IF k = 0 THEN Blank.text ELSE Put(g[k - 1], k)
      BY <2>1
    <2> QED
      BY <1>5, <2>2
  <1>7. Good(text)
    <2> HIDE DEF Good
    <2> QED
      BY <1>6
  <1> HIDE DEF text, h
  <1>8. ASSUME NEW i \in 0 .. TEXTS
        PROVE  text[i] = IF i = 0 THEN Blank.text ELSE Put(text[i - 1], i)
    BY <1>7, Zenon
  <1> DEFINE T == {n \in Nat : n <= TEXTS =>
                     Taken(text[n], m) /\ (Whole(f, m) => Filled(text[n], m, Offset(n + 1)))}
  <1>9. 0 \in T
    <2>1. text[0] = Blank.text
      BY <1>0, <1>8
    <2> QED
      BY <1>1, <2>1
  <1>10. ASSUME NEW n \in Nat, n \in T PROVE n + 1 \in T
    <2> SUFFICES ASSUME n + 1 <= TEXTS
                 PROVE  /\ Taken(text[n + 1], m)
                        /\ Whole(f, m) => Filled(text[n + 1], m, Offset((n + 1) + 1))
      OBVIOUS
    <2>1. n + 1 \in 0 .. TEXTS /\ n + 1 \in 1 .. TEXTS /\ n + 1 # 0 /\ (n + 1) - 1 = n /\ n <= TEXTS
      BY <1>0
    <2>2. text[n + 1] = Put(text[n], n + 1)
      BY <1>8, <2>1
    <2>3. Taken(text[n], m) /\ (Whole(f, m) => Filled(text[n], m, Offset(n + 1)))
      BY <1>10, <2>1
    <2> QED
      BY <1>2, <2>1, <2>2, <2>3
  <1>11. \A n \in Nat : n \in T
    <2> HIDE DEF T
    <2> QED
      BY <1>9, <1>10, Induction
  <1>12. Taken(text[TEXTS], m) /\ (Whole(f, m) => Filled(text[TEXTS], m, Offset(TEXTS + 1)))
    BY <1>0, <1>11
  <1> HIDE DEF T
  <1>13. num \in Leads(m.num) /\ (Whole(f, m) => num = m.num)
    BY NumberRead
  <1>14. Read(f) = [text |-> text[TEXTS], num |-> num]
    BY Zenon DEF Read, text, Put
  <1> HIDE DEF num
  <1>15. Read(f).text = text[TEXTS] /\ Read(f).num = num
    BY <1>14
  <1>16. Proper(Read(f))
    <2>1. Shaped(text[TEXTS]) /\ text[TEXTS] \in [Cell -> Char]
      BY <1>12 DEF Taken, Shaped
    <2>2. num \in 0 .. MaxInt
      BY <1>0, <1>13, LeadsIs DEF Proper
    <2> QED
      BY <1>14, <1>15, <2>1, <2>2 DEF Proper
  <1>17. Whole(f, m) => Read(f) = m
    <2> SUFFICES ASSUME Whole(f, m) PROVE Read(f) = m
      OBVIOUS
    <2>1. \A c \in Cell : text[TEXTS][c] = m.text[c]
      BY <1>0, <1>12, Offsets DEF Filled
    <2>2. text[TEXTS] \in [Cell -> Char] /\ m.text \in [Cell -> Char]
      BY <1>0, <1>12 DEF Taken, Shaped, Proper
    <2>3. text[TEXTS] = m.text
      BY <2>1, <2>2
    <2>4. m = [text |-> m.text, num |-> m.num]
      BY <1>0 DEF Proper
    <2> QED
      BY <1>13, <1>14, <2>3, <2>4
  <1> QED
    BY <1>12, <1>13, <1>15, <1>16, <1>17 DEF Taken

(***************************************************************************)
(* Every change of the configuration keeps it in form.                     *)
(***************************************************************************)

LEMMA EraseShaped ==
  ASSUME NEW t, Shaped(t), NEW i \in 1 .. TEXTS
  PROVE  Shaped(Erase(t, i))
  <1> DEFINE z == [k \in 1 .. LEN |-> NUL]
             x == Copy(t, i, z)
             o == Offset(i)
  <1>0. /\ t \in [Cell -> Char] /\ LEN \in Nat /\ Size \in Nat /\ Cell = 1 .. Size /\ o \in Nat
        /\ NUL \in Char
    BY Sizes, Offsets, CharsAre DEF Shaped
  <1>1. Len(z) = LEN /\ \A k \in 1 .. LEN : z[k] = NUL
    <2>1. z \in [1 .. LEN -> {NUL}]
      OBVIOUS
    <2> HIDE DEF z
    <2> QED
      BY <1>0, <2>1, FunctionSeq
  <1> HIDE DEF z, o
  <1>2. ASSUME NEW c \in Cell, NEW k, k = c - o
        PROVE  x[c] = IF k \in 1 .. LEN THEN NUL ELSE t[c]
    <2>1. x[c] = IF k \in 1 .. Len(z) THEN z[k] ELSE t[c]
      BY <1>2, CopyAt DEF o
    <2> HIDE DEF x
    <2> QED
      BY <1>1, <2>1
  <1>3. x \in [Cell -> Char]
    <2>1. x = [c \in Cell |-> IF c - o \in 1 .. Len(z) THEN z[c - o] ELSE t[c]]
      BY DEF Copy, o, Offset
    <2>2. ASSUME NEW c \in Cell
          PROVE  (IF c - o \in 1 .. Len(z) THEN z[c - o] ELSE t[c]) \in Char
      BY <1>0, <1>1
    <2> HIDE DEF x
    <2> QED
      BY <2>1, <2>2
  <1> HIDE DEF x
  <1>x. \A c \in Cell : x[c] = IF c - o \in 1 .. LEN THEN NUL ELSE t[c]
    BY <1>2
  <1>4. ASSUME NEW j \in 1 .. TEXTS, NEW k \in 1 .. LEN, NEW l \in 1 .. LEN,
               k < l, x[Offset(j) + l] # NUL
        PROVE  x[Offset(j) + k] # NUL
    <2> DEFINE p == Offset(j)
    <2>1. p \in Nat /\ p + LEN <= Size /\ (p = o \/ o + LEN <= p \/ p + LEN <= o)
      <3>1. i < j \/ i = j \/ j < i
        BY Sizes
      <3> QED
        BY <1>0, <3>1, Offsets DEF o
    <2>2. t[p + l] # NUL => t[p + k] # NUL
      BY <1>4 DEF Shaped
    <2>3. x[p + l] # NUL
      BY <1>4
    <2> HIDE DEF p
    <2>4. p + k \in Cell /\ p + l \in Cell
      BY <1>0, <2>1, Within
    <2>5. x[p + l] = IF (p + l) - o \in 1 .. LEN THEN NUL ELSE t[p + l]
      BY <1>x, <2>4
    <2>6. x[p + k] = IF (p + k) - o \in 1 .. LEN THEN NUL ELSE t[p + k]
      BY <1>x, <2>4
    <2>7. p # o
      <3>1. p = o => (p + l) - o \in 1 .. LEN
        BY <1>0, <2>1
      <3> QED
        BY <2>3, <2>5, <3>1
    <2>8. (p + l) - o \notin 1 .. LEN /\ (p + k) - o \notin 1 .. LEN
      BY <1>0, <2>1, <2>7
    <2>9. x[p + k] # NUL
      BY <2>2, <2>3, <2>5, <2>6, <2>8
    <2> QED
      BY <2>9 DEF p
  <1>5. Shaped(x)
    BY <1>3, <1>4 DEF Shaped
  <1> QED
    BY <1>5 DEF Erase, x, z

LEMMA WipedShaped ==
  ASSUME NEW t, Shaped(t)
  PROVE  Shaped(Wiped(t))
  <1> DEFINE x == Wiped(t)
             gone(c) == \E i \in Erased : c - Offset(i) \in 1 .. LEN
  <1>0. /\ t \in [Cell -> Char] /\ LEN \in Nat /\ Size \in Nat /\ Cell = 1 .. Size /\ NUL \in Char
        /\ Erased \subseteq 1 .. TEXTS
    BY Sizes, CharsAre, ConfigAssumption DEF Shaped
  <1>1. x = [c \in Cell |-> IF gone(c) THEN NUL ELSE t[c]]
    BY Zenon DEF Wiped, Offset
  <1> HIDE DEF x, gone
  <1>2. x \in [Cell -> Char] /\ \A c \in Cell : x[c] = IF gone(c) THEN NUL ELSE t[c]
    BY <1>0, <1>1
  <1>3. ASSUME NEW j \in 1 .. TEXTS, NEW k \in 1 .. LEN, NEW l \in 1 .. LEN,
               k < l, x[Offset(j) + l] # NUL
        PROVE  x[Offset(j) + k] # NUL
    <2> DEFINE p == Offset(j)
    <2>1. p \in Nat /\ p + LEN <= Size
      BY <1>0, Offsets
    <2>2. t[p + l] # NUL => t[p + k] # NUL
      BY <1>3 DEF Shaped
    <2>3. x[p + l] # NUL
      BY <1>3
    <2>4. p + k \in Cell /\ p + l \in Cell
      BY <1>0, <2>1, Within
    <2>5. ~gone(p + l) /\ t[p + l] # NUL
      BY <1>2, <2>3, <2>4
    <2>6. ASSUME NEW i \in Erased
          PROVE  (p + k) - Offset(i) \notin 1 .. LEN
      <3> DEFINE o == Offset(i)
      <3>1. i \in 1 .. TEXTS /\ o \in Nat /\ (p = o \/ o + LEN <= p \/ p + LEN <= o)
        <4>1. i \in 1 .. TEXTS /\ (i < j \/ i = j \/ j < i)
          BY <1>0, <2>6, Sizes
        <4> QED
          BY <1>0, <4>1, Offsets
      <3>2. (p + l) - o \notin 1 .. LEN
        BY <2>5 DEF gone
      <3> HIDE DEF p, o
      <3>3. p # o
        BY <1>0, <2>1, <3>2
      <3>4. (p + k) - o \notin 1 .. LEN
        BY <1>0, <2>1, <3>1, <3>3
      <3> QED
        BY <3>4 DEF p, o
    <2>7. ~gone(p + k)
      BY <2>6 DEF gone
    <2>8. x[p + k] # NUL
      BY <1>2, <2>2, <2>4, <2>5, <2>7
    <2> QED
      BY <2>8
  <1>4. Shaped(x)
    BY <1>2, <1>3 DEF Shaped
  <1> QED
    BY <1>4 DEF x

LEMMA Typed ==
  ASSUME NEW n, NEW s \in BoundedSeq(Chars, n)
  PROVE  s \in Seq(Printable)
  <1>1. Chars \subseteq Printable
    BY ConfigAssumption DEF Printable
  <1>2. PICK j \in 0 .. n : s \in [1 .. j -> Chars]
    BY DEF BoundedSeq, SeqOf
  <1>3. j \in Nat /\ s \in [1 .. j -> Printable]
    BY <1>1, <1>2
  <1> QED
    BY <1>3, FunctionSeq

LEMMA SetProper ==
  ASSUME NEW m, Proper(m), NEW t, Shaped(t)
  PROVE  Proper([m EXCEPT !.text = t])
  <1>1. t \in [Cell -> Char]
    BY DEF Shaped
  <1> QED
    BY <1>1 DEF Proper

(***************************************************************************)
(* The file holds what was saved last, whole unless cut.                   *)
(***************************************************************************)

ImageOf(m) == image = Image(m) /\ Short(m)

KeptInv ==
  /\ Proper(config) /\ back \in {"button", "run"}
  /\ Holds(file, saved)
  /\ ~ cut => Whole(file, saved) \/ (file = <<>> /\ saved = Blank)
  /\ config_pc = "close" => ImageOf(config)
  /\ config_pc = "entry" => ImageOf(saved)

LEMMA KeptInit == ConfigInit => KeptInv
  <1> SUFFICES ASSUME ConfigInit PROVE KeptInv
    OBVIOUS
  <1>1. file = <<>> /\ saved = Blank /\ config = Blank /\ config_pc = "boot" /\ back = "button"
    BY DEF ConfigInit
  <1>2. Begins(<<>>, Blank)
    BY DEF Begins
  <1> QED
    BY <1>1, <1>2, BlankIs DEF KeptInv, Holds

LEMMA ImageType ==
  ASSUME NEW m, Proper(m)
  PROVE  Image(m) \in Seq(Int) /\ Len(Image(m)) \in Nat
  <1>1. Image(m) \in Seq(Int)
    BY ImageIs DEF Places
  <1> QED
    BY <1>1, Elements

\* The card and what is being written stay as they are.
LEMMA CardKept ==
  ASSUME KeptInv, Proper(config'), back' \in {"button", "run"}, UNCHANGED card,
         config_pc' \notin {"close", "entry"}
  PROVE  KeptInv'
  <1>1. file' = file /\ saved' = saved /\ cut' = cut
    BY DEF card
  <1>2. /\ Holds(file', saved')
        /\ ~ cut' => Whole(file', saved') \/ (file' = <<>> /\ saved' = Blank)
    BY <1>1 DEF KeptInv
  <1> QED
    BY <1>2 DEF KeptInv

\* The sector: its image over the beginning of the old file.
LEMMA SectorKept ==
  ASSUME KeptInv, WriteSector
  PROVE  KeptInv'
  <1> DEFINE g == Image(config)
             f == [k \in 1 .. Len(file) |-> IF k <= Len(g) THEN g[k] ELSE file[k]]
  <1>1. /\ config_pc = "close" /\ config_pc' = "entry" /\ back' = back /\ config' = config
        /\ image' = image /\ saved' = config
        /\ file' = [k \in 1 .. Len(file) |-> IF k <= Len(image) THEN image[k] ELSE file[k]]
        /\ cut' = (Len(image) > Len(file))
    BY DEF WriteSector
  <1>2. image = g /\ Short(config) /\ Proper(config) /\ file \in Seq(Int) /\ back \in {"button", "run"}
    BY <1>1 DEF KeptInv, ImageOf, Holds, Begins
  <1>3. g \in Seq(Int) /\ Len(g) \in Nat /\ \A k \in 1 .. Len(g) : g[k] \in Int
    BY <1>2, ImageType, Elements
  <1>4. Len(file) \in Nat /\ \A k \in 1 .. Len(file) : file[k] \in Int
    BY <1>2, Elements
  <1> HIDE DEF g
  <1>5. f \in Seq(Int) /\ Len(f) = Len(file)
    <2>1. \A k \in 1 .. Len(file) : (IF k <= Len(g) THEN g[k] ELSE file[k]) \in Int
      BY <1>3, <1>4
    <2>2. f \in [1 .. Len(file) -> Int]
      BY <2>1
    <2> HIDE DEF f
    <2> QED
      BY <1>4, <2>2, FunctionSeq
  <1>6. \A k \in 1 .. Len(file) : k <= Len(g) => f[k] = g[k]
    OBVIOUS
  <1>7. file' = f
    BY <1>1, <1>2
  <1> HIDE DEF f
  <1>8. Begins(f, config)
    BY <1>5, <1>6 DEF Begins, g
  <1>9. Holds(file', saved')
    BY <1>1, <1>2, <1>7, <1>8 DEF Holds
  <1>10. ~ cut' => Whole(file', saved')
    <2>1. ~ cut' => ~ (Len(g) > Len(file))
      BY <1>1, <1>2, Zenon
    <2>2. ~ (Len(g) > Len(file)) => Len(f) >= Len(g)
      BY <1>3, <1>4, <1>5
    <2> QED
      BY <1>1, <1>7, <2>1, <2>2 DEF Whole, g
  <1>11. ImageOf(saved)'
    BY <1>1, <1>2 DEF ImageOf, g
  <1>12. Proper(config') /\ back' \in {"button", "run"}
    BY <1>1, <1>2
  <1> QED
    BY <1>1, <1>9, <1>10, <1>11, <1>12 DEF KeptInv

\* The entry: the file gets the rest of the image.
LEMMA EntryKept ==
  ASSUME KeptInv, WriteEntry
  PROVE  KeptInv'
  <1> DEFINE g == Image(saved)
             n == Len(file)
             p == SubSeq(g, n + 1, Len(g))
  <1>1. /\ config_pc = "entry" /\ config_pc' = back /\ back' = back /\ config' = config
        /\ saved' = saved /\ file' = file \o SubSeq(image, Len(file) + 1, Len(image))
    BY DEF WriteEntry
  <1>2. /\ image = g /\ Short(saved) /\ Proper(saved) /\ file \in Seq(Int)
        /\ Proper(config) /\ back \in {"button", "run"}
        /\ \A k \in 1 .. n : k <= Len(g) => file[k] = g[k]
    BY <1>1 DEF KeptInv, ImageOf, Holds, Begins
  <1>3. g \in Seq(Int) /\ Len(g) \in Nat
    BY <1>2, ImageType
  <1>4. n \in Nat
    BY <1>2, Elements
  <1>5. file' = file \o p
    BY <1>1, <1>2
  <1> HIDE DEF g, n
  <1>6. file' \in Seq(Int) /\ Len(file') >= Len(g)
        /\ \A k \in 1 .. Len(file') : k <= Len(g) => file'[k] = g[k]
    <2>1. CASE Len(g) <= n
      <3>1. p = <<>>
        <4>1. n + 1 \in Int /\ Len(g) \in Int /\ Len(g) < n + 1
          BY <1>3, <1>4, <2>1
        <4> QED
          BY <4>1, SubSeqEmpty
      <3>2. file' = file
        BY <1>2, <1>5, <3>1, ConcatEmptySeq
      <3> QED
        BY <1>2, <2>1, <3>2 DEF n
    <2>2. CASE n < Len(g)
      <3>1. n \in 0 .. Len(g)
        BY <1>3, <1>4, <2>2
      <3>2. p \in Seq(Int) /\ Len(p) = Len(g) - n /\ \A k \in 1 .. Len(g) - n : p[k] = g[n + k]
        BY <1>3, <3>1, Rest
      <3> HIDE DEF p
      <3>3. file' \in Seq(Int) /\ Len(file') = n + Len(p)
        BY <1>2, <1>5, <3>2, Concat DEF n
      <3>4. \A k \in 1 .. n : file'[k] = file[k]
        BY <1>2, <1>5, <3>2, Concat DEF n
      <3>5. \A k \in 1 .. Len(p) : file'[n + k] = p[k]
        BY <1>2, <1>5, <3>2, Concat DEF n
      <3>6. Len(file') = Len(g)
        BY <1>3, <1>4, <3>2, <3>3
      <3>7. ASSUME NEW k \in 1 .. Len(g) PROVE file'[k] = g[k]
        <4>1. CASE k <= n
          <5>1. k \in 1 .. n /\ k <= Len(g)
            BY <1>3, <1>4, <4>1
          <5> QED
            BY <1>2, <3>4, <5>1
        <4>2. CASE ~(k <= n)
          <5>1. k - n \in 1 .. Len(p) /\ n + (k - n) = k
                /\ k - n \in 1 .. Len(g) - n
            BY <1>3, <1>4, <3>2, <4>2
          <5>2. file'[k] = p[k - n]
            BY <3>5, <5>1
          <5>3. p[k - n] = g[k]
            BY <3>2, <5>1
          <5> QED
            BY <5>2, <5>3
        <4> QED
          BY <4>1, <4>2
      <3> QED
        BY <1>3, <3>3, <3>6, <3>7
    <2> QED
      BY <1>3, <1>4, <2>1, <2>2
  <1> HIDE DEF p
  <1>7. Holds(file', saved')
    BY <1>1, <1>2, <1>6 DEF Holds, Begins, g
  <1>8. Whole(file', saved')
    BY <1>1, <1>6 DEF Whole, g
  <1>9. Proper(config') /\ back' \in {"button", "run"} /\ config_pc' \notin {"close", "entry"}
    BY <1>1, <1>2
  <1> QED
    BY <1>7, <1>8, <1>9 DEF KeptInv

LEMMA KeptNext == KeptInv /\ [ConfigNext]_configVars => KeptInv'
  <1> SUFFICES ASSUME KeptInv, [ConfigNext]_configVars PROVE KeptInv'
    OBVIOUS
  <1>0. Proper(config) /\ back \in {"button", "run"} /\ Shaped(config.text)
    BY DEF KeptInv, Proper
  <1>1. CASE fs_read_config
    <2>1. back' = "button" /\ UNCHANGED card
      BY <1>1 DEF fs_read_config
    <2>2. CASE config_pc' = "save" /\ config' = Blank
      BY <2>1, <2>2, BlankIs, CardKept
    <2>3. CASE config_pc' = "lost" /\ config' = config
      BY <1>0, <2>1, <2>3, CardKept
    <2>4. CASE ~ Overruns(file) /\ config_pc' = "button" /\ config' = Read(file)
      <3>1. Proper(config')
        BY <2>4, ReadIs DEF KeptInv
      <3> QED
        BY <2>1, <2>4, <3>1, CardKept
    <2> QED
      BY <1>1, <2>2, <2>3, <2>4 DEF fs_read_config
  <1>2. CASE fs_write_config
    <2>1. config' = config /\ back' = back /\ UNCHANGED card /\ config_pc = "save"
      BY <1>2 DEF fs_write_config
    <2>2. CASE config_pc' = back
      BY <1>0, <2>1, <2>2, CardKept
    <2>3. CASE config_pc' = "lost"
      BY <1>0, <2>1, <2>3, CardKept
    <2>4. CASE /\ ~ \E i \in 1 .. Lines : Len(Record(config, i)) >= BUF
               /\ config_pc' = "close" /\ image' = Image(config)
      <3>1. Short(config)
        <4>1. ASSUME NEW i \in 1 .. Lines PROVE Len(Record(config, i)) < BUF
          <5>1. Len(Record(config, i)) \in Nat
            BY <1>0, RecordIs, Elements DEF IsLine
          <5> QED
            BY <2>4, <5>1, Sizes
        <4> QED
          BY <4>1 DEF Short
      <3>2. ImageOf(config)'
        BY <2>1, <2>4, <3>1 DEF ImageOf
      <3>3. file' = file /\ saved' = saved /\ cut' = cut
        BY <2>1 DEF card
      <3>4. /\ Holds(file', saved')
            /\ ~ cut' => Whole(file', saved') \/ (file' = <<>> /\ saved' = Blank)
        BY <3>3 DEF KeptInv
      <3> QED
        BY <1>0, <2>1, <2>4, <3>2, <3>4 DEF KeptInv
    <2> QED
      BY <1>2, <2>2, <2>3, <2>4 DEF fs_write_config
  <1>3. CASE WriteSector
    BY <1>3, SectorKept
  <1>4. CASE WriteEntry
    BY <1>4, EntryKept
  <1>5. CASE CloseFails
    BY <1>0, <1>5, CardKept DEF CloseFails
  <1>6. CASE Button
    <2> DEFINE t == Wiped(config.text)
    <2>1. back' = "run" /\ config_pc' \in {"run", "save"} /\ UNCHANGED card
          /\ (config' = config \/ config' = [config EXCEPT !.text = t])
      BY <1>6 DEF Button
    <2>2. Proper([config EXCEPT !.text = t])
      <3>1. Shaped(t)
        BY <1>0, WipedShaped
      <3> HIDE DEF t
      <3> QED
        BY <1>0, <3>1, SetProper
    <2>3. Proper(config')
      BY <1>0, <2>1, <2>2
    <2> QED
      BY <2>1, <2>3, CardKept
  <1>7. ASSUME NEW i \in 1 .. TEXTS, NEW s \in BoundedSeq(Chars, LEN + 1), ConfigSet(i, s)
        PROVE  KeptInv'
    <2> DEFINE t == Copy(Erase(config.text, i), i, s)
    <2>1. config_pc' = "save" /\ back' = back /\ UNCHANGED card
          /\ config' = [config EXCEPT !.text = t]
      BY <1>7 DEF ConfigSet
    <2>2. Shaped(t)
      <3>1. Shaped(Erase(config.text, i))
        BY <1>0, EraseShaped
      <3>2. s \in Seq(Printable)
        BY Typed
      <3> QED
        BY <3>1, <3>2, CopyShaped
    <2> HIDE DEF t
    <2>3. Proper(config')
      BY <1>0, <2>1, <2>2, SetProper
    <2> QED
      BY <1>0, <2>1, <2>3, CardKept
  <1>8. ASSUME NEW n \in Times, Calibrate(n) PROVE KeptInv'
    <2>1. config_pc' = "save" /\ back' = back /\ UNCHANGED card
          /\ config' = [config EXCEPT !.num = n]
      BY <1>8 DEF Calibrate
    <2>2. n \in 0 .. MaxInt
      BY ConfigAssumption
    <2>3. Proper(config')
      BY <1>0, <2>1, <2>2 DEF Proper
    <2> QED
      BY <1>0, <2>1, <2>3, CardKept
  <1>9. CASE Restart
    BY <1>9, BlankIs, CardKept DEF Restart
  <1>10. CASE UNCHANGED configVars
    BY <1>10 DEF configVars, card, KeptInv, ImageOf
  <1> QED
    BY <1>1, <1>2, <1>3, <1>4, <1>5, <1>6, <1>7, <1>8, <1>9, <1>10 DEF ConfigNext

LEMMA BlankRead ==
  ASSUME Holds(<<>>, Blank)
  PROVE  ~ Overruns(<<>>) /\ Read(<<>>) = Blank
  <1> DEFINE r == Read(<<>>)
  <1>1. ~ Overruns(<<>>)
    BY NoOverrun
  <1>2. Proper(r) /\ (\A c \in Cell : r.text[c] \in {Blank.text[c], NUL}) /\ r.num \in Leads(Blank.num)
    BY <1>1, ReadIs
  <1> HIDE DEF r
  <1>3. r.text = Blank.text
    <2>1. r.text \in [Cell -> Char]
      BY <1>2 DEF Proper
    <2>2. \A c \in Cell : r.text[c] = NUL
      BY <1>2 DEF Blank
    <2>3. Blank.text = [c \in Cell |-> NUL]
      BY DEF Blank
    <2> QED
      BY <2>1, <2>2, <2>3
  <1>4. r.num = 0
    <2>1. r.num \in Leads(0)
      BY <1>2 DEF Blank
    <2> QED
      BY <2>1, SMTT(30) DEF Leads
  <1>5. r = [text |-> r.text, num |-> r.num]
    BY <1>2 DEF Proper
  <1>6. Blank = [text |-> Blank.text, num |-> 0]
    BY DEF Blank
  <1> QED
    BY <1>1, <1>3, <1>4, <1>5, <1>6 DEF r

LEMMA KeptReads == KeptInv => ReadsBack
  <1> SUFFICES ASSUME KeptInv, ~ cut PROVE ~ Overruns(file) /\ Read(file) = saved
    BY DEF ReadsBack
  <1>1. Holds(file, saved)
    BY DEF KeptInv
  <1>2. CASE Whole(file, saved)
    <2>1. ~ Overruns(file)
      BY <1>1, <1>2, NoOverrun
    <2> QED
      BY <1>1, <1>2, <2>1, ReadIs
  <1>3. CASE file = <<>> /\ saved = Blank
    BY <1>1, <1>3, BlankRead
  <1> QED
    BY <1>2, <1>3 DEF KeptInv

LEMMA KeptCut == KeptInv => CutKeepsBeginning
  <1> SUFFICES ASSUME KeptInv, ~ Overruns(file)
               PROVE  /\ \A c \in Cell : Read(file).text[c] \in {saved.text[c], NUL}
                      /\ Read(file).num \in Leads(saved.num)
    BY DEF CutKeepsBeginning
  <1>1. Holds(file, saved)
    BY DEF KeptInv
  <1> QED
    BY <1>1, ReadIs

LEMMA KeptAlways == ConfigSpec => []KeptInv
  BY KeptInit, KeptNext, PTL DEF ConfigSpec

\* What a restart would read is the configuration that fs_write_config wrote
\* last, in every state in which the directory entry says how long the file is.
THEOREM ConfigReadsBack == ConfigSpec => []ReadsBack
  BY KeptAlways, KeptReads, PTL

\* And in the others each field is a beginning of what was written, with nothing
\* of an older file and nothing of another field.
THEOREM ConfigCutKeepsBeginning == ConfigSpec => []CutKeepsBeginning
  BY KeptAlways, KeptCut, PTL
=============================================================================
