---------------------------------- MODULE Rtc ----------------------------------
(***************************************************************************)
(* The clock (firmware/src/rtc.c and the command rtc of monitor.c).  The   *)
(* clock chip counts in BCD registers; the firmware sets all of them in    *)
(* one transfer, with whatever numbers it is given, and reads the date and *)
(* the time of day in two, and between the two the chip goes on counting.  *)
(* Minutes and weekday are left out, and the lengths of the units are      *)
(* parameters.                                                             *)
(***************************************************************************)
EXTENDS Integers

CONSTANTS
  SECONDS, HOURS, DAYS, MONTHS,   \* lengths of a (short) hour, day, month, year
  Years,                          \* two-digit years that occur
  Unchecked                       \* numbers typed or sent for any field

ASSUME RtcAssumption ==
  /\ \A n \in {SECONDS, HOURS, DAYS, MONTHS} : n \in 1 .. 99
  /\ Years \subseteq 0 .. 99 /\ Years # {} /\ Unchecked \subseteq Int

Date == [yr : Years, mo : 1 .. MONTHS, dt : 1 .. DAYS]
Time == [hr : 0 .. HOURS - 1, sc : 0 .. SECONDS - 1]

VARIABLES
  chip_date, chip_time,    \* the registers of the chip
  pc,                      \* rtc_get_time_str: what it reads next
  date,                    \* the date it has read
  stamp,                   \* the timestamp it has made: [date, time]
  begun,                   \* history: date and time when it began to read
  valid                    \* history: the last set was with a date and a time

vars == <<chip_date, chip_time, pc, date, stamp, begun, valid>>

-----------------------------------------------------------------------------
(* BCD *)

\* Mutant of int2bcd: the tens are shifted one bit short.
int2bcdShort(val) == (8 * (val \div 10) + (val % 10)) % 256

\* Into one byte.
int2bcd(val) == (16 * (val \div 10) + (val % 10)) % 256

bcd2int(val) == 10 * (val \div 16) + (val % 16)

\* A parameter of i2c_rtc_set_time is a uint8_t.
ToByte(v) == v % 256
Bytes     == {ToByte(v) : v \in Unchecked}

ToBcd(r)   == [f \in DOMAIN r |-> int2bcd(r[f])]
FromBcd(r) == [f \in DOMAIN r |-> bcd2int(r[f])]

\* The seconds from the start of the century to a date and a time of day.
Moment(d, t) ==
  (((d.yr * MONTHS + d.mo - 1) * DAYS + d.dt - 1) * HOURS + t.hr) * SECONDS + t.sc

ChipDate == FromBcd(chip_date)
ChipTime == FromBcd(chip_time)
Now      == Moment(ChipDate, ChipTime)

\* What the variables of a failed transfer hold: they stay uninitialised.
JunkDate == [yr |-> -1, mo |-> -1, dt |-> -1]
JunkTime == [hr |-> -1, sc |-> -1]
NoStamp  == [date |-> JunkDate, time |-> JunkTime]

Init ==
  /\ chip_date \in {ToBcd(d) : d \in Date} /\ chip_time \in {ToBcd(t) : t \in Time}
  /\ pc = "idle" /\ valid = TRUE
  /\ date = JunkDate /\ stamp = NoStamp /\ begun = NoStamp

-----------------------------------------------------------------------------
(* The chip *)

Midnight == ChipTime = [hr |-> HOURS - 1, sc |-> SECONDS - 1]

NextTime(t) ==
  IF Midnight THEN [hr |-> 0, sc |-> 0]
  ELSE IF t.sc < SECONDS - 1 THEN [t EXCEPT !.sc = @ + 1]
  ELSE [hr |-> t.hr + 1, sc |-> 0]

NextDate(d) ==
  IF d.dt < DAYS THEN [d EXCEPT !.dt = @ + 1]
  ELSE IF d.mo < MONTHS THEN [d EXCEPT !.mo = @ + 1, !.dt = 1]
  ELSE [yr |-> d.yr + 1, mo |-> 1, dt |-> 1]

\* The chip counts a second, up to the last of Years.
Second ==
  /\ valid
  /\ Midnight => NextDate(ChipDate) \in Date
  /\ chip_time' = ToBcd(NextTime(ChipTime))
  /\ chip_date' = IF Midnight THEN ToBcd(NextDate(ChipDate)) ELSE chip_date
  /\ UNCHANGED <<pc, date, stamp, begun, valid>>

\* How it counts on from what is not a date and a time is not known.
Stray ==
  /\ ~valid
  /\ chip_date' \in {ToBcd(d) : d \in [{"yr", "mo", "dt"} -> Bytes]}
  /\ chip_time' \in {ToBcd(t) : t \in [{"hr", "sc"} -> Bytes]}
  /\ UNCHANGED <<pc, date, stamp, begun, valid>>

-----------------------------------------------------------------------------
(* The firmware *)

\* rtc set, and set_rtc of the manager: the arguments, in the order year, month,
\* day, hour and second, are written to all registers in one transfer, or to
\* none if it fails.  Nobody asks whether they are a date and a time.
Set(a) ==
  /\ pc = "idle"
  /\ LET d == [yr |-> ToByte(a[1]), mo |-> ToByte(a[2]), dt |-> ToByte(a[3])]
         t == [hr |-> ToByte(a[4]), sc |-> ToByte(a[5])]
     IN  /\ chip_date' = ToBcd(d) /\ chip_time' = ToBcd(t)
         /\ valid' = (d \in Date /\ t \in Time)
  /\ UNCHANGED <<pc, date, stamp, begun>>

\* Mutant of ReadDate: month and day are taken from each other's register.
ReadDateSwapped ==
  /\ pc = "idle" /\ pc' = "time"
  /\ begun' = [date |-> ChipDate, time |-> ChipTime]
  /\ date' \in {[ChipDate EXCEPT !.mo = ChipDate.dt, !.dt = ChipDate.mo], JunkDate}
  /\ stamp' = NoStamp
  /\ UNCHANGED <<chip_date, chip_time, valid>>

\* rtc_get_time_str begins with rtc_get_date, whose transfer may fail ...
ReadDate ==
  /\ pc = "idle" /\ pc' = "time"
  /\ begun' = [date |-> ChipDate, time |-> ChipTime]
  /\ date' \in {ChipDate, JunkDate}
  /\ stamp' = NoStamp
  /\ UNCHANGED <<chip_date, chip_time, valid>>

\* Mutant of ReadTime: the time is the one read first, the date the one read last.
ReadTimeFirst ==
  /\ pc = "time" /\ pc' = "idle"
  /\ stamp' = [date |-> ChipDate, time |-> begun.time]
  /\ date' = JunkDate /\ begun' = NoStamp
  /\ UNCHANGED <<chip_date, chip_time, valid>>

\* ... and goes on with rtc_get_time, whose transfer may fail too; nobody is
\* told, and the timestamp is made of what the variables hold.
ReadTime ==
  /\ pc = "time" /\ pc' = "idle"
  /\ \E t \in {ChipTime, JunkTime} : stamp' = [date |-> date, time |-> t]
  /\ date' = JunkDate /\ begun' = NoStamp
  /\ UNCHANGED <<chip_date, chip_time, valid>>

Next ==
  \/ Second \/ Stray
  \/ \E d \in Date, t \in Time : Set(<<d.yr, d.mo, d.dt, t.hr, t.sc>>)
  \/ \E a \in [1 .. 5 -> Unchecked] : Set(a)
  \/ ReadDate \/ ReadTime

Spec == Init /\ [][Next]_vars

-----------------------------------------------------------------------------
(* Properties *)

\* A timestamp is made of two good transfers.
Stamped == stamp.date # JunkDate /\ stamp.time # JunkTime

\* What a byte reads as: 0xFF is 165.
Shown == 0 .. 165

\* Type correctness: once the clock has been set with a date and a time, its
\* registers hold the encoding of a date and a time, also after the carries of
\* BCD.  Set with other numbers, they hold bytes, which read as up to 165.
TypeOK ==
  /\ ChipDate \in [yr : Shown, mo : Shown, dt : Shown]
  /\ ChipTime \in [hr : Shown, sc : Shown]
  /\ valid => /\ ChipDate \in Date /\ chip_date = ToBcd(ChipDate)
              /\ ChipTime \in Time /\ chip_time = ToBcd(ChipTime)
  /\ pc \in {"idle", "time"} /\ valid \in BOOLEAN
  /\ date \in [yr : Shown, mo : Shown, dt : Shown] \cup {JunkDate}
  /\ stamp.date \in [yr : Shown, mo : Shown, dt : Shown] \cup {JunkDate}
  /\ stamp.time \in [hr : Shown, sc : Shown] \cup {JunkTime}

\* With a clock set to a date and a time, a timestamp is never ahead of it,
\* whatever carries happen while it is read.
NeverAhead ==
  [][ReadTime /\ valid /\ Stamped' => Moment(stamp'.date, stamp'.time) <= Now]_vars

\* With such a clock, and if the day does not end while it is read, a timestamp
\* is a moment of the interval in which it was read.
RightWithinADay ==
  [][ReadTime /\ valid /\ Stamped' /\ begun.date = ChipDate =>
       Moment(begun.date, begun.time) <= Moment(stamp'.date, stamp'.time)]_vars
=============================================================================
