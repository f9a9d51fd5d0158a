--------------------------------- MODULE Relay ---------------------------------
(***************************************************************************)
(* The relay that switches the load, and the calibration mode that drives  *)
(* it (firmware/src/monitor.c, main.c, wemo_fs.c).  Four parts of the code *)
(* write the relay pin: the console command relay, which also keeps the    *)
(* state in a backup register; the WiFi commands relay_on and relay_off;   *)
(* the power log's safety switch-off; and, in calibration mode, the        *)
(* interrupt handler of the PWM timer, which can preempt the console       *)
(* command calibrate between any two of its statements.  The calibration   *)
(* starts again after a restart, from the configuration file, whose save   *)
(* may have been cut short (module ConfigStore has the file itself).       *)
(***************************************************************************)
EXTENDS Integers

CONSTANTS
  MIN_CAL_TIME,            \* shortest phase of calibration, in ms (1000)
  CalTimes,                \* the times the operator asks for, short ones too
  Powers,                  \* powers of the base numbers are written in (10)
  MaxRestarts              \* bound: restarts of the firmware

ASSUME RelayAssumption ==
  /\ MIN_CAL_TIME \in Nat \ {0}
  /\ CalTimes \subseteq Int
  /\ Powers \subseteq Nat \ {0}
  /\ MaxRestarts \in Nat

VARIABLES
  pin,                     \* whether the relay pin is high: the load is on
  gpbr,                    \* the backup register GPBR_RELAY_STATE
  calibrate, on_time, off_time,   \* the run-time configuration
  saved,                   \* the same three on the SD card
  pwm2,                    \* whether the calibration timer and interrupt run
  cal_state, cal_tick,     \* static variables of PWM_Handler
  cal_pc, args,            \* mon_calibrate: next statement, its arguments
  restarts,                \* restarts so far
  torn,                    \* history: the times are those of a save cut short
  saved_torn,              \* history: so are the times on the card
  since                    \* history: ticks of the timer since it switched the pin

calVars   == <<calibrate, on_time, off_time, pwm2>>
isrVars   == <<cal_state, cal_tick, since>>
cmdVars   == <<cal_pc, args>>
cardVars  == <<saved, saved_torn>>
relayVars == <<pin, gpbr, calVars, torn, cardVars, isrVars, cmdVars, restarts>>

Config   == [calibrate : BOOLEAN, on : Nat, off : Nat]
NoConfig == [calibrate |-> FALSE, on |-> 0, off |-> 0]

\* io_init drives the pin low; monitor() starts the timer if the saved
\* configuration says so; the static variables start from their initialisers.
BootWith(cfg) ==
  /\ pin' = FALSE
  /\ calibrate' = cfg.calibrate /\ on_time' = cfg.on /\ off_time' = cfg.off
  /\ pwm2' = cfg.calibrate
  /\ cal_state' = "ON" /\ cal_tick' = 0 /\ since' = 0
  /\ cal_pc' = "idle" /\ UNCHANGED args

RelayInit ==
  /\ pin = FALSE /\ gpbr = FALSE
  /\ calibrate = FALSE /\ on_time = 0 /\ off_time = 0
  /\ saved = NoConfig /\ saved_torn = FALSE /\ torn = FALSE
  /\ pwm2 = FALSE
  /\ cal_state = "ON" /\ cal_tick = 0 /\ since = 0
  /\ cal_pc = "idle" /\ args = <<0, 0>>
  /\ restarts = 0

-----------------------------------------------------------------------------
(* Commands that switch the relay *)

\* relay on, relay off on the console.
RelaySet(on) ==
  /\ cal_pc = "idle"
  /\ pin' = on /\ gpbr' = on
  /\ UNCHANGED <<calVars, torn, cardVars, isrVars, cmdVars, restarts>>

\* relay toggle: the pin and the register are each toggled.
RelayToggle ==
  /\ cal_pc = "idle"
  /\ pin' = ~pin /\ gpbr' = ~gpbr
  /\ UNCHANGED <<calVars, torn, cardVars, isrVars, cmdVars, restarts>>

\* relay_on and relay_off over WiFi write the pin only.
WifiRelay(on) ==
  /\ cal_pc = "idle"
  /\ pin' = on
  /\ UNCHANGED <<gpbr, calVars, torn, cardVars, isrVars, cmdVars, restarts>>

\* "lost NILM, load off and resetting WiFi" in core_log_power_data.
SafetyOff ==
  /\ cal_pc = "idle"
  /\ pin' = FALSE
  /\ UNCHANGED <<gpbr, calVars, torn, cardVars, isrVars, cmdVars, restarts>>

-----------------------------------------------------------------------------
(* The calibrate command, statement by statement *)

TimesValid(on, off) == on >= MIN_CAL_TIME /\ off >= MIN_CAL_TIME

\* calibrate start on off: bad times are refused before anything is changed.
CalStart(on, off) ==
  /\ cal_pc = "idle" /\ TimesValid(on, off)
  /\ args' = <<on, off>>
  /\ calibrate' = TRUE
  /\ cal_pc' = "on_time"
  /\ UNCHANGED <<pin, gpbr, on_time, off_time, pwm2, torn, cardVars, isrVars, restarts>>

\* Mutant of CalSetOn: the timer is started before the times are set.
CalSetOnTimerFirst ==
  /\ cal_pc = "on_time" /\ cal_pc' = "off_time"
  /\ on_time' = args[1] /\ pwm2' = TRUE
  /\ UNCHANGED <<pin, gpbr, calibrate, off_time, torn, cardVars, isrVars, args, restarts>>

CalSetOn ==
  /\ cal_pc = "on_time" /\ cal_pc' = "off_time"
  /\ on_time' = args[1]
  /\ UNCHANGED <<pin, gpbr, calibrate, off_time, pwm2, torn, cardVars, isrVars, args, restarts>>

\* From here on both times are the command's.
CalSetOff ==
  /\ cal_pc = "off_time" /\ cal_pc' = "enable"
  /\ off_time' = args[2] /\ torn' = FALSE
  /\ UNCHANGED <<pin, gpbr, calibrate, on_time, pwm2, cardVars, isrVars, args, restarts>>

CalEnable ==
  /\ cal_pc = "enable" /\ cal_pc' = "save"
  /\ pwm2' = TRUE
  /\ UNCHANGED <<pin, gpbr, calibrate, on_time, off_time, torn, cardVars, isrVars, args, restarts>>

\* calibrate stop.
CalStop ==
  /\ cal_pc = "idle"
  /\ calibrate' = FALSE
  /\ cal_pc' = "disable"
  /\ UNCHANGED <<pin, gpbr, on_time, off_time, pwm2, torn, cardVars, isrVars, args, restarts>>

CalDisable ==
  /\ cal_pc = "disable" /\ cal_pc' = "save"
  /\ pwm2' = FALSE
  /\ UNCHANGED <<pin, gpbr, calibrate, on_time, off_time, torn, cardVars, isrVars, args, restarts>>

\* The numbers that the leading digits of n stand for, and none of them.
Leads(n) == {0} \cup {n \div p : p \in Powers}

\* What may be read of configuration c when the file was written over but its
\* length is still that of an older, shorter one: the lines calibrate,
\* cal_on_time and cal_off_time come in this order, and all behind the end,
\* which may be anywhere in them, is missing.
Shortened(c) ==
  {NoConfig}
    \cup {[calibrate |-> c.calibrate, on |-> n, off |-> 0] : n \in Leads(c.on)}
    \cup {[calibrate |-> c.calibrate, on |-> c.on, off |-> n] : n \in Leads(c.off)}

\* fs_write_config at the end of both, and of every config set; it does
\* nothing when the file cannot be opened, and its f_close, which writes the
\* sector and then the directory entry, may fail or be cut off between them.
SaveConfig(written) ==
  LET c == [calibrate |-> calibrate, on |-> on_time, off |-> off_time] IN
  /\ cal_pc \in {"save", "idle"} /\ cal_pc' = "idle"
  /\ CASE written = "all"  -> saved' = c /\ saved_torn' = torn
       [] written = "part" -> saved' \in Shortened(c) /\ saved_torn' = TRUE
       [] written = "none" -> UNCHANGED cardVars
  /\ UNCHANGED <<pin, gpbr, calVars, torn, isrVars, args, restarts>>

-----------------------------------------------------------------------------
(* The interrupt handler and restarts *)

PhaseTime == IF cal_state = "ON" THEN on_time ELSE off_time

\* One more tick of the phase.
CountTick ==
  /\ cal_tick' = cal_tick + 1 /\ since' = since + 1
  /\ UNCHANGED <<cal_state, pin>>

\* Mutant of EndPhase: the tick count is not reset.
EndPhaseKeepingTick ==
  /\ cal_state' = IF cal_state = "ON" THEN "OFF" ELSE "ON"
  /\ pin' = (cal_state # "ON")
  /\ UNCHANGED cal_tick /\ since' = 0

\* Mutant of EndPhase: both branches drive the pin low.
EndPhaseLow ==
  /\ cal_state' = IF cal_state = "ON" THEN "OFF" ELSE "ON"
  /\ pin' = FALSE
  /\ cal_tick' = 0 /\ since' = 0

\* The end of a phase: the state flips and the pin is driven to match it.
EndPhase ==
  /\ cal_state' = IF cal_state = "ON" THEN "OFF" ELSE "ON"
  /\ pin' = (cal_state # "ON")
  /\ cal_tick' = 0 /\ since' = 0

\* PWM_Handler on channel 2, every millisecond.
CalTick ==
  /\ pwm2
  /\ IF ~calibrate THEN UNCHANGED <<isrVars, pin>>
     ELSE IF cal_tick + 1 >= PhaseTime THEN EndPhase
     ELSE CountTick
  /\ UNCHANGED <<gpbr, calVars, torn, cardVars, cmdVars, restarts>>

\* A software reset, at any moment: the backup register and the saved
\* configuration survive.  The firmware looks at none of what it reads, and
\* goes on with an empty configuration when the file cannot be read.
Restart ==
  /\ restarts < MaxRestarts /\ restarts' = restarts + 1
  /\ \/ BootWith(saved) /\ torn' = saved_torn
     \/ BootWith(NoConfig) /\ torn' = FALSE
  /\ UNCHANGED <<gpbr, cardVars>>

RelayCommand ==
  \/ \E on \in BOOLEAN : RelaySet(on) \/ WifiRelay(on)
  \/ RelayToggle
  \/ SafetyOff

CalCommand ==
  \/ \E on, off \in CalTimes : CalStart(on, off)
  \/ CalSetOn \/ CalSetOff \/ CalEnable
  \/ CalStop \/ CalDisable
  \/ \E written \in {"all", "part", "none"} : SaveConfig(written)

RelayNext == RelayCommand \/ CalCommand \/ CalTick \/ Restart

\* The timer does not stop by itself.
RelaySpec == RelayInit /\ [][RelayNext]_relayVars /\ WF_relayVars(CalTick)

-----------------------------------------------------------------------------
(* Properties *)

\* Type correctness of the pin, the configuration and the handler's counters.
RelayTypeOK ==
  /\ pin \in BOOLEAN /\ gpbr \in BOOLEAN
  /\ calibrate \in BOOLEAN /\ on_time \in Nat /\ off_time \in Nat
  /\ saved \in Config /\ pwm2 \in BOOLEAN
  /\ cal_state \in {"ON", "OFF"} /\ cal_tick \in Nat /\ since \in Nat
  /\ cal_pc \in {"idle", "on_time", "off_time", "enable", "disable", "save"}
  /\ args \in Nat \X Nat /\ restarts \in Nat
  /\ torn \in BOOLEAN /\ saved_torn \in BOOLEAN

\* The handler runs a phase with a time the command would have refused only
\* when it was read, by this restart or an earlier one, from a save that was cut
\* short: not while the command is half done, and not because a restart came
\* before, after or instead of the save.
CalTimesValid == pwm2 /\ calibrate /\ ~torn => TimesValid(on_time, off_time)

\* What is saved whole can be run after a restart, whenever it comes.
SavedIsValid == saved.calibrate /\ ~saved_torn => TimesValid(saved.on, saved.off)

\* The handler does not make the relay chatter: between two times it switches
\* the pin it leaves it alone for at least MIN_CAL_TIME ms of calibration,
\* whatever commands stop, start or change the calibration in between, unless
\* its times were read from a save that was cut short.
NoChatter ==
  [][CalTick /\ cal_state' # cal_state => torn \/ since + 1 >= MIN_CAL_TIME]_relayVars

\* A plug in calibration switches its load on again and again.
LoadRunsAgain == pwm2 /\ calibrate ~> pin \/ ~calibrate
=============================================================================
