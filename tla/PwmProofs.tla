------------------------------- MODULE PwmProofs -------------------------------
(***************************************************************************)
(* Proofs about the three components that PWM_Handler (monitor.c) serves:  *)
(* its channel 0 counts the time the terminal waits, channel 1 blinks the  *)
(* LED and channel 2 runs the calibration.  In each of them the handler    *)
(* preempts the code it shares state with between any two statements.      *)
(***************************************************************************)
EXTENDS CorePutc, RgbLed, Relay, TLAPS

(***************************************************************************)
(* Channel 0, the terminal: for a tick counter of any width, the flag keeps*)
(* a handler and the main loop apart although it is tested and set in      *)
(* different statements, because handlers nest; and the wrap of the 8-bit  *)
(* counter never makes core_putc give up early.                            *)
(***************************************************************************)

\* While the main loop is inside, no handler is anywhere in core_putc: this
\* is what makes the gap between testing and setting the flag harmless.
Nested == putc_pc["main"] \in Inside => putc_pc["isr"] = "idle"

\* Until two ticks have passed since prev_tick was read, the counter tells how
\* many, modulo its width.
Elapsed ==
  \A x \in Context : waited[x] < 2 =>
     \/ sys_tick = prev_tick[x] + waited[x]
     \/ sys_tick = prev_tick[x] + waited[x] - TICKS

\* The inductive invariant.
PutcInv == PutcTypeOK /\ Nested /\ LockMatches /\ Elapsed /\ GiveUpNotEarly

LEMMA PutcInvInit == PutcInit => PutcInv
  <1> SUFFICES ASSUME PutcInit PROVE PutcInv
    OBVIOUS
  <1> USE TicksAssumption DEF PutcInit, Context, Inside
  <1>1. PutcTypeOK
    <2>1. sys_tick \in 0 .. TICKS - 1 /\ prev_tick \in [Context -> 0 .. TICKS - 1]
      OBVIOUS
    <2>2. waited \in [Context -> 0 .. 2]
      OBVIOUS
    <2>3. putc_pc \in [Context -> Inside \cup {"idle", "grab", "check", "lock"}]
      OBVIOUS
    <2>4. direct \in [Context -> BOOLEAN]
      OBVIOUS
    <2> QED BY <2>1, <2>2, <2>3, <2>4 DEF PutcTypeOK
  <1>2. Nested /\ LockMatches
    BY DEF Nested, LockMatches
  <1>3. Elapsed /\ GiveUpNotEarly
    BY DEF Elapsed, GiveUpNotEarly
  <1> QED BY <1>1, <1>2, <1>3 DEF PutcInv

\* A step of core_putc preserves the invariant.
LEMMA ContextStep ==
  ASSUME PutcInv, NEW x \in Context, Enter(x) \/ Go(x)
  PROVE  PutcInv'
  <1> USE TicksAssumption DEF PutcInv, PutcTypeOK, Nested, LockMatches, Elapsed, GiveUpNotEarly,
        Context, Inside, PutcStep, tickVars, usbVars
  <1>1. CASE Enter(x)
    BY <1>1 DEF Enter
  <1>2. CASE Grab(x)
    BY <1>2 DEF Grab
  <1>3. CASE CheckEnabled(x)
    BY <1>3 DEF CheckEnabled
  <1>4. CASE Lock(x)
    BY <1>4 DEF Lock
  <1>5. CASE Poll(x)
    BY <1>5 DEF Poll
  <1>6. CASE TestTick(x)
    <2>1. ASSUME waited[x] < 2 PROVE ~TimedOut(x)
      BY <2>1 DEF TimedOut
    <2> QED BY <1>6, <2>1 DEF TestTick
  <1>7. CASE Write(x)
    BY <1>7 DEF Write
  <1>8. CASE GiveUp(x)
    BY <1>8 DEF GiveUp
  <1>9. CASE Unlock(x)
    BY <1>9 DEF Unlock
  <1> QED BY <1>1, <1>2, <1>3, <1>4, <1>5, <1>6, <1>7, <1>8, <1>9 DEF Go

LEMMA PutcInvStep == PutcInv /\ [PutcNext]_putcVars => PutcInv'
  <1> SUFFICES ASSUME PutcInv, [PutcNext]_putcVars PROVE PutcInv'
    OBVIOUS
  <1> USE TicksAssumption DEF PutcInv, PutcTypeOK, Nested, LockMatches, Elapsed, GiveUpNotEarly,
        Context, Inside, tickVars, usbVars
  <1>1. CASE \E x \in Context : Enter(x) \/ Go(x)
    BY <1>1, ContextStep
  <1>2. CASE \E on \in BOOLEAN : UsbEnable(on) \/ SetEcho(on)
    BY <1>2 DEF UsbEnable, SetEcho
  <1>3. CASE HostReads
    BY <1>3 DEF HostReads
  <1>4. CASE Tick
    <2>1. Nested' /\ LockMatches'
      BY <1>4 DEF Tick
    <2>4. sys_tick' \in 0 .. TICKS - 1
      BY <1>4 DEF Tick, NextTick
    <2>7. polled' \in BOOLEAN
      BY <1>4 DEF Tick
    <2>5. waited' \in [Context -> 0 .. 2]
      BY <1>4 DEF Tick
    <2>6. PutcTypeOK'
      BY <1>4, <2>4, <2>5, <2>7 DEF Tick
    <2>2. Elapsed'
      BY <1>4 DEF Tick, NextTick
    <2>3. GiveUpNotEarly'
      BY <1>4 DEF Tick
    <2> QED BY <2>1, <2>2, <2>3, <2>6
  <1>5. CASE UNCHANGED putcVars
    BY <1>5 DEF putcVars
  <1>6. CASE EchoKey \/ SendData
    <2>1. PICK x \in Context : DirectBegin(x)
      BY <1>6 DEF EchoKey, SendData
    <2>2. direct' \in [Context -> BOOLEAN]
      BY <2>1 DEF DirectBegin
    <2> QED BY <2>1, <2>2 DEF DirectBegin
  <1>7. CASE \E x \in Context : DirectEnd(x)
    BY <1>7 DEF DirectEnd
  <1> QED BY <1>1, <1>2, <1>3, <1>4, <1>5, <1>6, <1>7 DEF PutcNext

LEMMA PutcAlways == PutcSpec => []PutcInv
  BY PutcInvInit, PutcInvStep, PTL DEF PutcSpec

\* The types of the state of core_putc hold in every behaviour.
THEOREM PutcTypes == PutcSpec => []PutcTypeOK
  <1>1. PutcInv => PutcTypeOK
    BY DEF PutcInv
  <1> QED BY <1>1, PutcAlways, PTL

\* "prevent re-entrant": two contexts are in the USB driver at once only by
\* the echo of core_read_usb or the data of mon_data, which go there without
\* core_putc; two calls of core_putc never are.
THEOREM NotReentrant == PutcSpec => []OneWriter
  <1>1. PutcInv => OneWriter
    BY DEF PutcInv, Nested, OneWriter, InDriver, Inside, Context
  <1> QED BY <1>1, PutcAlways, PTL

\* The flag is set exactly while a call of core_putc is past the lock, so it
\* is never left behind to silence the terminal.
THEOREM LockHeld == PutcSpec => []LockMatches
  <1>1. PutcInv => LockMatches
    BY DEF PutcInv
  <1> QED BY <1>1, PutcAlways, PTL

\* The terminal is given up only after two ticks, wherever the counter wraps.
THEOREM PatientEnough == PutcSpec => []GiveUpNotEarly
  <1>1. PutcInv => GiveUpNotEarly
    BY DEF PutcInv
  <1> QED BY <1>1, PutcAlways, PTL

(***************************************************************************)
(* Channel 1, the status LED: for any colours and any number of calls,     *)
(* with the timer's handler preempting calls and calls preempting calls.   *)
(***************************************************************************)

Fields == {"red", "green"}

LedTypes ==
  /\ led_pc \in [Caller -> {"idle", "red", "green", "write", "written", "stop", "start"}]
  /\ arg \in [Caller -> [colour : [Fields -> {0, 1}], blink : BOOLEAN]]
  /\ led_color \in [Fields -> {0, 1}]
  /\ timer \in BOOLEAN /\ alone \in BOOLEAN /\ last \in Caller

\* A timer that runs once every call has returned is the one the last call
\* started; only a call that is to blink comes to start it.
TimerInv ==
  /\ Idle /\ timer => arg[last].blink
  /\ \A x \in Caller : led_pc[x] = "start" => arg[x].blink

\* Only a write in progress is cut; what a call that nothing has preempted has
\* done so far; what the last call has done if nothing preempted it.
AloneInv ==
  /\ cut \subseteq Writing
  /\ \A x \in Caller : alone /\ led_pc[x] # "idle" =>
       /\ \A y \in Caller : y # x => led_pc[y] = "idle"
       /\ x \notin cut
       /\ led_pc[x] = "green" => led_color["red"] = arg[x].colour["red"]
       /\ led_pc[x] \in {"write", "written", "stop", "start"} => led_color = arg[x].colour
       /\ led_pc[x] \in {"stop", "start"} => shown = arg[x].colour
  /\ UndisturbedCallWins

LedInv == LedTypes /\ TimerInv /\ AloneInv

LEMMA LedInitInv == LedInit => LedInv
  <1> SUFFICES ASSUME LedInit PROVE LedInv
    OBVIOUS
  <1> USE DEF LedInit, Caller, Dark
  <1>1. LedTypes
    <2>1. led_color \in [Fields -> {0, 1}]
      BY DEF Fields
    <2>2. arg \in [Caller -> [colour : [Fields -> {0, 1}], blink : BOOLEAN]]
      BY DEF Fields
    <2> QED
      BY <2>1, <2>2 DEF LedTypes
  <1>2. TimerInv
    BY DEF TimerInv
  <1>3. AloneInv
    BY DEF AloneInv, UndisturbedCallWins
  <1> QED
    BY <1>1, <1>2, <1>3 DEF LedInv

\* The types, and what calls do to the timer.
LEMMA CallTypes ==
  ASSUME LedInv, NEW x \in Caller, rgb_led_set(x)
  PROVE  LedTypes' /\ TimerInv'
  <1> USE DEF LedInv, LedTypes, TimerInv, LedStep, Idle
  <1>1. CASE StoreRed(x)
    BY <1>1 DEF StoreRed, Fields
  <1>2. CASE StoreGreen(x)
    BY <1>2 DEF StoreGreen, Fields
  <1>3. CASE StartWrite(x)
    BY <1>3 DEF StartWrite
  <1>4. CASE EndWrite(x)
    BY <1>4 DEF EndWrite
  <1>5. CASE StopTimer(x)
    BY <1>5 DEF StopTimer
  <1>6. CASE StartTimer(x)
    BY <1>6 DEF StartTimer
  <1> QED
    BY <1>1, <1>2, <1>3, <1>4, <1>5, <1>6 DEF rgb_led_set

LEMMA CallAlone ==
  ASSUME LedInv, NEW x \in Caller, rgb_led_set(x)
  PROVE  AloneInv'
  <1> USE DEF LedInv, LedTypes, AloneInv, UndisturbedCallWins, LedStep, Idle, Writing, Runs
  <1>1. CASE StoreRed(x)
    BY <1>1 DEF StoreRed, Fields
  <1>2. CASE StoreGreen(x)
    <2>1. alone => led_color' = arg[x].colour
      <3>1. /\ arg[x].colour \in [Fields -> {0, 1}] /\ led_color' \in [Fields -> {0, 1}]
            /\ led_color'["green"] = arg[x].colour["green"] /\ led_color'["red"] = led_color["red"]
        BY <1>2 DEF StoreGreen, Fields
      <3>2. alone => led_color["red"] = arg[x].colour["red"]
        BY <1>2 DEF StoreGreen
      <3> QED
        BY <3>1, <3>2 DEF Fields
    <2> QED
      BY <1>2, <2>1 DEF StoreGreen
  <1>3. CASE StartWrite(x)
    BY <1>3 DEF StartWrite
  <1>4. CASE EndWrite(x)
    BY <1>4 DEF EndWrite
  <1>5. CASE StopTimer(x)
    BY <1>5 DEF StopTimer
  <1>6. CASE StartTimer(x)
    BY <1>6 DEF StartTimer, TimerInv
  <1> QED
    BY <1>1, <1>2, <1>3, <1>4, <1>5, <1>6 DEF rgb_led_set

LEMMA LedNextInv == LedInv /\ [LedNext]_ledVars => LedInv'
  <1> SUFFICES ASSUME LedInv, [LedNext]_ledVars PROVE LedInv'
    OBVIOUS
  <1>1. ASSUME NEW x \in Caller, NEW colour \in Colours, NEW blink \in BOOLEAN, Call(x, colour, blink)
        PROVE  LedInv'
    <2>1. colour \in [Fields -> {0, 1}]
      BY RgbLedAssumption DEF Fields
    <2>2. LedTypes'
      BY <1>1, <2>1 DEF Call, LedInv, LedTypes, LedStep, Idle
    <2>3. TimerInv'
      BY <1>1 DEF Call, LedInv, LedTypes, TimerInv, LedStep, Idle
    <2>4. AloneInv'
      BY <1>1 DEF Call, LedInv, LedTypes, AloneInv, UndisturbedCallWins, LedStep, Idle, Writing
    <2> QED
      BY <2>2, <2>3, <2>4 DEF LedInv
  <1>2. ASSUME NEW x \in Caller, rgb_led_set(x) PROVE LedInv'
    BY <1>2, CallTypes, CallAlone DEF LedInv
  <1>3. CASE Blink
    <2>1. LedTypes' /\ TimerInv'
      BY <1>3 DEF Blink, LedInv, LedTypes, TimerInv, Idle
    <2>2. AloneInv'
      BY <1>3 DEF Blink, LedInv, LedTypes, TimerInv, AloneInv, UndisturbedCallWins, Idle, Writing
    <2> QED
      BY <2>1, <2>2 DEF LedInv
  <1>4. CASE UNCHANGED ledVars
    BY <1>4 DEF ledVars, LedInv, LedTypes, TimerInv, AloneInv, UndisturbedCallWins, Idle, Writing
  <1> QED
    BY <1>1, <1>2, <1>3, <1>4 DEF LedNext

LEMMA LedAlways == LedSpec => []LedInv
  BY LedInitInv, LedNextInv, PTL DEF LedSpec

\* A call that neither the timer's handler nor the USB interrupt preempted leaves its
\* colour stored and, if it is to be steady, shown, however the calls before it mixed.
THEOREM UndisturbedCall == LedSpec => []UndisturbedCallWins
  <1>1. LedInv => UndisturbedCallWins
    BY DEF LedInv, AloneInv
  <1> QED
    BY <1>1, LedAlways, PTL

\* Whichever calls preempted one another: once every call has returned and the last one
\* was steady, nothing changes the LED until the next call.
THEOREM SteadyLed == LedSpec => SteadyStays
  <1> DEFINE Same == Idle /\ ~arg[last].blink => shown' = shown
  <1>1. LedInv /\ [LedNext]_ledVars => [Same]_ledVars
    <2> SUFFICES ASSUME LedInv, LedNext, Idle, ~arg[last].blink PROVE shown' = shown
      OBVIOUS
    <2>1. ~Blink
      BY DEF LedInv, TimerInv, Blink
    <2>2. ASSUME NEW x \in Caller PROVE ~rgb_led_set(x)
      BY DEF rgb_led_set, StoreRed, StoreGreen, StartWrite, EndWrite, StopTimer, StartTimer,
             LedStep, Idle
    <2> QED
      BY <2>1, <2>2 DEF LedNext, Call
  <1> QED
    BY <1>1, LedAlways, PTL DEF LedSpec, SteadyStays

(***************************************************************************)
(* Channel 2, calibration mode: for every MIN_CAL_TIME and all times an    *)
(* operator may ask for, with the handler free to run between any two      *)
(* statements of the command and a restart at any moment.                  *)
(***************************************************************************)

\* The types, for any times an operator may ask for.
LEMMA RelayTypesInit == RelayInit => RelayTypeOK
  <1> SUFFICES ASSUME RelayInit PROVE RelayTypeOK
    OBVIOUS
  <1> USE DEF RelayInit
  <1>1. saved \in Config
    BY DEF Config, NoConfig
  <1>2. /\ pin \in BOOLEAN /\ gpbr \in BOOLEAN
        /\ calibrate \in BOOLEAN /\ pwm2 \in BOOLEAN
        /\ torn \in BOOLEAN /\ saved_torn \in BOOLEAN
    OBVIOUS
  <1>3. args \in Nat \X Nat
    OBVIOUS
  <1> QED
    BY <1>1, <1>2, <1>3 DEF RelayTypeOK

\* What is read of a configuration whose save was cut is one.
LEMMA ShortenedType ==
  ASSUME NEW c \in Config, NEW d \in Shortened(c)
  PROVE  d \in Config
  <1>1. c.calibrate \in BOOLEAN /\ c.on \in Nat /\ c.off \in Nat
    BY DEF Config
  <1>2. ASSUME NEW n \in Nat PROVE Leads(n) \subseteq Nat
    <2>1. \A p \in Powers : n \div p \in Nat
      BY RelayAssumption
    <2> QED
      BY <2>1 DEF Leads
  <1>3. Leads(c.on) \subseteq Nat /\ Leads(c.off) \subseteq Nat
    BY <1>1, <1>2
  <1>4. CASE d = NoConfig
    BY <1>4 DEF NoConfig, Config
  <1>5. CASE d \in {[calibrate |-> c.calibrate, on |-> n, off |-> 0] : n \in Leads(c.on)}
    BY <1>1, <1>3, <1>5 DEF Config
  <1>6. CASE d \in {[calibrate |-> c.calibrate, on |-> c.on, off |-> n] : n \in Leads(c.off)}
    BY <1>1, <1>3, <1>6 DEF Config
  <1> QED
    BY <1>4, <1>5, <1>6 DEF Shortened

LEMMA RelayTypesStep == RelayTypeOK /\ [RelayNext]_relayVars => RelayTypeOK'
  <1> SUFFICES ASSUME RelayTypeOK, [RelayNext]_relayVars PROVE RelayTypeOK'
    OBVIOUS
  <1> USE DEF RelayTypeOK
  <1>1. ASSUME NEW on \in BOOLEAN, RelaySet(on) PROVE RelayTypeOK'
    BY <1>1 DEF RelaySet, calVars, cardVars, isrVars, cmdVars
  <1>2. ASSUME NEW on \in BOOLEAN, WifiRelay(on) PROVE RelayTypeOK'
    BY <1>2 DEF WifiRelay, calVars, cardVars, isrVars, cmdVars
  <1>3. CASE RelayToggle
    BY <1>3 DEF RelayToggle, calVars, cardVars, isrVars, cmdVars
  <1>4. CASE SafetyOff
    BY <1>4 DEF SafetyOff, calVars, cardVars, isrVars, cmdVars
  <1>5. ASSUME NEW on \in CalTimes, NEW off \in CalTimes, CalStart(on, off) PROVE RelayTypeOK'
    <2>1. on \in Nat /\ off \in Nat
      BY <1>5, RelayAssumption DEF CalStart, TimesValid
    <2> QED
      BY <1>5, <2>1 DEF CalStart, cardVars, isrVars
  <1>6. CASE CalSetOn \/ CalSetOff
    BY <1>6 DEF CalSetOn, CalSetOff, cardVars, isrVars
  <1>7. CASE CalEnable \/ CalStop \/ CalDisable
    BY <1>7 DEF CalEnable, CalStop, CalDisable, cardVars, isrVars
  <1>8. ASSUME NEW written \in {"all", "part", "none"}, SaveConfig(written)
        PROVE  RelayTypeOK'
    <2> DEFINE c == [calibrate |-> calibrate, on |-> on_time, off |-> off_time]
    <2>1. c \in Config /\ c.on \in Nat /\ c.off \in Nat
      BY DEF Config
    <2>2. saved' \in Config /\ saved_torn' \in BOOLEAN
      <3>1. CASE written = "all"
        BY <1>8, <2>1, <3>1 DEF SaveConfig
      <3>2. CASE written = "part"
        <4>1. saved' \in Shortened(c) /\ saved_torn' = TRUE
          BY <1>8, <3>2 DEF SaveConfig
        <4> HIDE DEF c
        <4> QED
          BY <2>1, <4>1, ShortenedType
      <3>3. CASE written = "none"
        BY <1>8, <3>3 DEF SaveConfig, cardVars
      <3> QED
        BY <3>1, <3>2, <3>3
    <2> QED
      BY <1>8, <2>2 DEF SaveConfig, calVars, isrVars
  <1>9. CASE CalTick
    <2>1. cal_state' \in {"ON", "OFF"} /\ cal_tick' \in Nat /\ since' \in Nat
      BY <1>9 DEF CalTick, CountTick, EndPhase, isrVars
    <2>2. pin' \in BOOLEAN
      BY <1>9 DEF CalTick, CountTick, EndPhase, isrVars
    <2> QED
      BY <1>9, <2>1, <2>2 DEF CalTick, calVars, cardVars, cmdVars
  <1>10. CASE Restart
    <2>1. PICK cfg \in Config : BootWith(cfg) /\ torn' \in BOOLEAN
      BY <1>10 DEF Restart, Config, NoConfig
    <2>2. /\ cfg.calibrate \in BOOLEAN /\ cfg.on \in Nat /\ cfg.off \in Nat
          /\ saved' \in Config /\ saved_torn' \in BOOLEAN
      BY <1>10 DEF Restart, Config, cardVars
    <2>3. /\ pin' \in BOOLEAN /\ gpbr' \in BOOLEAN
          /\ calibrate' \in BOOLEAN /\ pwm2' \in BOOLEAN
      BY <1>10, <2>1, <2>2 DEF Restart, BootWith
    <2> QED
      BY <1>10, <2>1, <2>2, <2>3 DEF Restart, BootWith
  <1>11. CASE UNCHANGED relayVars
    BY <1>11 DEF relayVars, calVars, cardVars, isrVars, cmdVars
  <1> QED
    BY <1>1, <1>2, <1>3, <1>4, <1>5, <1>6, <1>7, <1>8, <1>9, <1>10, <1>11
    DEF RelayNext, RelayCommand, CalCommand

\* The pin, the configuration and the handler's counters keep their types.
THEOREM RelayTypes == RelaySpec => []RelayTypeOK
  BY RelayTypesInit, RelayTypesStep, PTL DEF RelaySpec

\* While the command runs, its arguments are good; once it has set the times,
\* they are; the timer is only ever started with good times, and only those
\* are saved as times of a calibration, unless they were read from a save that
\* was cut short.
CalInv ==
  /\ cal_pc \in {"idle", "on_time", "off_time", "enable", "disable", "save"}
  /\ cal_pc \in {"on_time", "off_time"} => TimesValid(args[1], args[2])
  /\ cal_pc = "off_time" => on_time >= MIN_CAL_TIME
  /\ cal_pc = "enable" => TimesValid(on_time, off_time)
  /\ cal_pc \in {"idle", "save"} /\ calibrate /\ ~torn => TimesValid(on_time, off_time)
  /\ cal_pc = "disable" => ~calibrate
  /\ pwm2 /\ ~torn => TimesValid(on_time, off_time)
  /\ SavedIsValid

LEMMA CalInit == RelayInit => CalInv
  BY DEF RelayInit, CalInv, SavedIsValid, NoConfig

LEMMA CalCommandStep ==
  ASSUME CalInv, CalCommand
  PROVE  CalInv'
  <1>1. ASSUME NEW on \in CalTimes, NEW off \in CalTimes, CalStart(on, off)
        PROVE  CalInv'
    BY <1>1, RelayAssumption DEF CalStart, cardVars, CalInv, SavedIsValid, TimesValid
  <1>2. CASE CalSetOn
    BY <1>2 DEF CalSetOn, cardVars, CalInv, SavedIsValid, TimesValid
  <1>3. CASE CalSetOff
    BY <1>3 DEF CalSetOff, cardVars, CalInv, SavedIsValid, TimesValid
  <1>4. CASE CalEnable
    BY <1>4 DEF CalEnable, cardVars, CalInv, SavedIsValid, TimesValid
  <1>5. CASE CalStop
    BY <1>5 DEF CalStop, cardVars, CalInv, SavedIsValid, TimesValid
  <1>6. CASE CalDisable
    BY <1>6 DEF CalDisable, cardVars, CalInv, SavedIsValid, TimesValid
  <1>7. ASSUME NEW written \in {"all", "part", "none"}, SaveConfig(written) PROVE CalInv'
    <2>1. SavedIsValid'
      <3>1. CASE written = "all"
        <4>1. /\ saved'.calibrate = calibrate /\ saved'.on = on_time /\ saved'.off = off_time
              /\ saved_torn' = torn
          BY <1>7, <3>1 DEF SaveConfig
        <4>2. cal_pc \in {"idle", "save"}
          BY <1>7 DEF SaveConfig
        <4> QED
          BY <4>1, <4>2 DEF SavedIsValid, CalInv, TimesValid
      <3>2. CASE written = "part"
        BY <1>7, <3>2 DEF SaveConfig, SavedIsValid
      <3>3. CASE written = "none"
        BY <1>7, <3>3 DEF SaveConfig, cardVars, CalInv, SavedIsValid, TimesValid
      <3> QED
        BY <3>1, <3>2, <3>3
    <2>2. /\ cal_pc \in {"idle", "save"} /\ cal_pc' = "idle"
          /\ UNCHANGED <<calibrate, on_time, off_time, pwm2, torn, args>>
      BY <1>7 DEF SaveConfig, calVars
    <2> QED
      BY <2>1, <2>2 DEF CalInv, TimesValid
  <1> QED
    BY <1>1, <1>2, <1>3, <1>4, <1>5, <1>6, <1>7 DEF CalCommand

LEMMA CalStep == CalInv /\ [RelayNext]_relayVars => CalInv'
  <1> SUFFICES ASSUME CalInv, [RelayNext]_relayVars PROVE CalInv'
    OBVIOUS
  <1>1. CASE RelayCommand
    BY <1>1 DEF RelayCommand, RelaySet, WifiRelay, RelayToggle, SafetyOff,
                calVars, cmdVars, cardVars, CalInv, SavedIsValid, TimesValid
  <1>2. CASE CalCommand
    BY <1>2, CalCommandStep
  <1>3. CASE CalTick
    BY <1>3 DEF CalTick, calVars, cmdVars, cardVars, CalInv, SavedIsValid, TimesValid
  <1>4. CASE Restart
    <2>1. SavedIsValid' /\ cal_pc' = "idle"
      BY <1>4 DEF Restart, BootWith, cardVars, CalInv, SavedIsValid, TimesValid
    <2>2. CASE BootWith(saved) /\ torn' = saved_torn
      BY <2>1, <2>2 DEF BootWith, CalInv, SavedIsValid, TimesValid
    <2>3. CASE BootWith(NoConfig)
      <3>1. ~calibrate' /\ ~pwm2'
        BY <2>3 DEF BootWith, NoConfig
      <3> QED
        BY <2>1, <3>1 DEF CalInv
    <2> QED
      BY <1>4, <2>2, <2>3 DEF Restart
  <1>5. CASE UNCHANGED relayVars
    BY <1>5 DEF relayVars, calVars, cmdVars, cardVars, CalInv, SavedIsValid, TimesValid
  <1> QED
    BY <1>1, <1>2, <1>3, <1>4, <1>5 DEF RelayNext

LEMMA CalAlways == RelaySpec => []CalInv
  BY CalInit, CalStep, PTL DEF RelaySpec

\* The handler never runs with a time the command would have refused, unless it
\* was read from a save that was cut short.
THEOREM TimesAlwaysValid == RelaySpec => []CalTimesValid
  <1>1. CalInv => CalTimesValid
    BY DEF CalInv, CalTimesValid
  <1> QED
    BY <1>1, CalAlways, PTL

\* Only a calibration that can be run after a restart is ever saved whole.
THEOREM SavedAlwaysValid == RelaySpec => []SavedIsValid
  <1>1. CalInv => SavedIsValid
    BY DEF CalInv
  <1> QED
    BY <1>1, CalAlways, PTL

\* The count the handler keeps is the number of ticks since it switched the
\* pin: nothing but the end of a phase and a restart sets it back.
TickInv == cal_tick = since /\ cal_tick \in Nat

LEMMA TickStep == TickInv /\ [RelayNext]_relayVars => TickInv'
  <1> SUFFICES ASSUME TickInv, [RelayNext]_relayVars PROVE TickInv'
    OBVIOUS
  <1>1. CASE RelayCommand
    BY <1>1 DEF RelayCommand, RelaySet, WifiRelay, RelayToggle, SafetyOff,
                isrVars, TickInv
  <1>2. CASE CalCommand
    BY <1>2 DEF CalCommand, CalStart, CalSetOn, CalSetOff, CalEnable, CalStop,
                CalDisable, SaveConfig, isrVars, TickInv
  <1>3. CASE CalTick
    BY <1>3 DEF CalTick, CountTick, EndPhase, isrVars, TickInv
  <1>4. CASE Restart
    BY <1>4 DEF Restart, BootWith, TickInv
  <1>5. CASE UNCHANGED relayVars
    BY <1>5 DEF relayVars, isrVars, TickInv
  <1> QED
    BY <1>1, <1>2, <1>3, <1>4, <1>5 DEF RelayNext

\* Between two times it switches the pin the handler leaves it alone for at
\* least MIN_CAL_TIME ticks of calibration, unless its times are those of a save
\* that was cut short.
THEOREM Chatter == RelaySpec => NoChatter
  <1> DEFINE Slow ==
        CalTick /\ cal_state' # cal_state => torn \/ since + 1 >= MIN_CAL_TIME
  <1>1. RelayInit => TickInv
    BY DEF RelayInit, TickInv
  <1>2. RelayTypeOK /\ CalInv /\ TickInv /\ [RelayNext]_relayVars => [Slow]_relayVars
    <2> SUFFICES ASSUME RelayTypeOK, CalInv, TickInv, CalTick, cal_state' # cal_state, ~torn
                 PROVE  since + 1 >= MIN_CAL_TIME
      OBVIOUS
    <2>1. pwm2 /\ cal_tick + 1 >= PhaseTime
      BY DEF CalTick, CountTick, isrVars
    <2>2. /\ on_time >= MIN_CAL_TIME /\ off_time >= MIN_CAL_TIME
          /\ on_time \in Nat /\ off_time \in Nat
      BY <2>1 DEF CalInv, TimesValid, RelayTypeOK
    <2>3. CASE PhaseTime = on_time
      BY <2>1, <2>2, <2>3, RelayAssumption DEF TickInv
    <2>4. CASE PhaseTime = off_time
      BY <2>1, <2>2, <2>4, RelayAssumption DEF TickInv
    <2> QED
      BY <2>3, <2>4 DEF PhaseTime
  <1> QED
    BY <1>1, <1>2, TickStep, CalAlways, RelayTypes, PTL DEF RelaySpec, NoChatter
================================================================================
