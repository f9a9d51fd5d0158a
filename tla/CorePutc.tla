------------------------------- MODULE CorePutc -------------------------------
(***************************************************************************)
(* Output on the USB terminal: core_putc (firmware/src/monitor.c), through *)
(* which every printf of the firmware goes.  The main loop prints, and so  *)
(* do interrupt handlers that preempt it ("isr" below).  core_putc keeps   *)
(* handlers out of the USB driver with the flag locked, waits for the host *)
(* to take what was sent, and gives up and turns the terminal off when     *)
(* that lasts more than one tick of the 8-bit counter sys_tick.            *)
(*                                                                         *)
(* Two places go to the driver without core_putc, with no look at the flag *)
(* and no limit to their wait: core_read_usb echoes what is typed, in the  *)
(* USB interrupt, and mon_data sends the data file, in the main loop.      *)
(***************************************************************************)
EXTENDS Integers

CONSTANT TICKS             \* values of the tick counter (256: it is a uint8_t)

ASSUME TicksAssumption == TICKS \in Nat /\ TICKS >= 3

Context == {"main", "isr"}
Inside  == {"spin", "test", "write", "giveup", "unlock"}   \* with the lock

VARIABLES
  sys_tick,                \* the 8-bit tick counter
  ready,                   \* udi_cdc_is_tx_ready(): there is room to send
  b_usb_enabled, echo,     \* whether the terminal is on
  direct,                  \* a context is in the driver without core_putc
  locked,                  \* static variable of core_putc
  putc_pc,                 \* next statement of core_putc in each context
  prev_tick,               \* its local variable
  polled,                  \* whether the loop went round since the last tick
  waited                   \* history: ticks since prev_tick was read, up to 2

tickVars == <<sys_tick, polled, waited>>
usbVars  == <<b_usb_enabled, echo>>
putcVars == <<ready, direct, locked, putc_pc, prev_tick, tickVars, usbVars>>

PutcInit ==
  /\ sys_tick = 0 /\ ready = TRUE /\ locked = FALSE
  /\ b_usb_enabled = FALSE /\ echo = FALSE
  /\ direct = [x \in Context |-> FALSE]
  /\ putc_pc = [x \in Context |-> "idle"]
  /\ prev_tick = [x \in Context |-> 0]
  /\ waited = [x \in Context |-> 0] /\ polled = FALSE

\* A handler runs to its end before the main loop goes on.
PutcStep(x, from, to) ==
  /\ putc_pc[x] = from /\ (x = "main" => putc_pc["isr"] = "idle")
  /\ ~direct[x] /\ ~direct["isr"]
  /\ putc_pc' = [putc_pc EXCEPT ![x] = to]

-----------------------------------------------------------------------------
(* core_putc, statement by statement *)

\* Mutant of Enter: the flag is not looked at.
EnterAnyway(x) ==
  /\ PutcStep(x, "idle", "grab")
  /\ UNCHANGED <<ready, direct, locked, prev_tick, tickVars, usbVars>>

\* A call that finds the flag set returns at once and the character is lost.
Enter(x) ==
  /\ PutcStep(x, "idle", "grab")
  /\ ~locked
  /\ UNCHANGED <<ready, direct, locked, prev_tick, tickVars, usbVars>>

\* The tick counter is read ...
Grab(x) ==
  /\ PutcStep(x, "grab", "check")
  /\ prev_tick' = [prev_tick EXCEPT ![x] = sys_tick]
  /\ waited' = [waited EXCEPT ![x] = 0]
  /\ UNCHANGED <<ready, direct, locked, sys_tick, polled, usbVars>>

\* ... and nothing more happens if the terminal is off.
CheckEnabled(x) ==
  /\ PutcStep(x, "check", IF b_usb_enabled /\ echo THEN "lock" ELSE "idle")
  /\ UNCHANGED <<ready, direct, locked, prev_tick, tickVars, usbVars>>

Lock(x) ==
  /\ PutcStep(x, "lock", "spin")
  /\ locked' = TRUE
  /\ UNCHANGED <<ready, direct, prev_tick, tickVars, usbVars>>

\* while (!udi_cdc_is_tx_ready())
Poll(x) ==
  /\ PutcStep(x, "spin", IF ready THEN "write" ELSE "test")
  /\ UNCHANGED <<ready, direct, locked, prev_tick, tickVars, usbVars>>

\* Mutant of TimedOut: the wait is not longer than one tick.
OneTick(x) == sys_tick > prev_tick[x]

\* Mutant of TimedOut: the wait is one tick longer.
ThreeTicks(x) == sys_tick > prev_tick[x] + 2

\* The sum is taken in an int: it does not wrap, but sys_tick does.
TimedOut(x) == sys_tick > prev_tick[x] + 1

TestTick(x) ==
  /\ PutcStep(x, "test", IF TimedOut(x) THEN "giveup" ELSE "spin")
  /\ polled' = TRUE
  /\ UNCHANGED <<ready, direct, locked, prev_tick, sys_tick, waited, usbVars>>

\* udi_cdc_write_buf takes the character, after a wait of its own if an echo
\* has taken the room in between; there may be no room for the next.
Write(x) ==
  /\ PutcStep(x, "write", "idle")
  /\ ready /\ ready' \in BOOLEAN
  /\ locked' = FALSE
  /\ UNCHANGED <<direct, prev_tick, tickVars, usbVars>>

\* core_usb_enable(0, false)
GiveUp(x) ==
  /\ PutcStep(x, "giveup", "unlock")
  /\ b_usb_enabled' = FALSE
  /\ UNCHANGED <<ready, direct, locked, prev_tick, tickVars, echo>>

Unlock(x) ==
  /\ PutcStep(x, "unlock", "idle")
  /\ locked' = FALSE
  /\ UNCHANGED <<ready, direct, prev_tick, tickVars, usbVars>>

Go(x) ==
  \/ Grab(x) \/ CheckEnabled(x) \/ Lock(x) \/ Poll(x) \/ TestTick(x)
  \/ Write(x) \/ GiveUp(x) \/ Unlock(x)

-----------------------------------------------------------------------------
(* The driver without core_putc *)

DirectBegin(x) ==
  /\ putc_pc[x] = "idle" /\ ~direct[x]
  /\ direct' = [direct EXCEPT ![x] = TRUE]
  /\ UNCHANGED <<ready, locked, putc_pc, prev_tick, tickVars, usbVars>>

\* core_read_usb returns the typed character, but not while a command runs.
EchoKey == echo /\ ~direct["main"] /\ DirectBegin("isr")

\* mon_data, in the main loop, is not in core_putc while it sends.
SendData == putc_pc["isr"] = "idle" /\ ~direct["isr"] /\ DirectBegin("main")

\* Both wait until there is room, for as long as it takes.
DirectEnd(x) ==
  /\ direct[x] /\ ready /\ (x = "main" => putc_pc["isr"] = "idle")
  /\ direct' = [direct EXCEPT ![x] = FALSE]
  /\ ready' \in BOOLEAN
  /\ UNCHANGED <<locked, putc_pc, prev_tick, tickVars, usbVars>>

-----------------------------------------------------------------------------
(* The surroundings *)

\* The host opens the terminal, which turns echo on, or closes it.
UsbEnable(on) ==
  /\ putc_pc["isr"] = "idle" /\ ~direct["isr"]
  /\ b_usb_enabled' = on
  /\ echo' = (echo \/ on)
  /\ UNCHANGED <<ready, direct, locked, putc_pc, prev_tick, tickVars>>

\* The command echo, and config get, which turns echo on for its answer.
SetEcho(on) ==
  /\ \A x \in Context : putc_pc[x] = "idle" /\ ~direct[x]
  /\ echo' = on
  /\ UNCHANGED <<ready, direct, locked, putc_pc, prev_tick, tickVars, b_usb_enabled>>

\* The host takes what was sent, if it ever does.
HostReads ==
  /\ ~ready /\ ready' = TRUE
  /\ UNCHANGED <<direct, locked, putc_pc, prev_tick, tickVars, usbVars>>

NextTick == IF sys_tick = TICKS - 1 THEN 0 ELSE sys_tick + 1

\* A tick every two seconds: the loop goes round many times in between.
Tick ==
  /\ (\E x \in Context : putc_pc[x] \in {"spin", "test"}) => polled
  /\ sys_tick' = NextTick
  /\ polled' = FALSE
  /\ waited' = [x \in Context |-> IF waited[x] < 2 THEN waited[x] + 1 ELSE 2]
  /\ UNCHANGED <<ready, direct, locked, putc_pc, prev_tick, usbVars>>

PutcNext ==
  \/ \E x \in Context : Enter(x) \/ Go(x) \/ DirectEnd(x)
  \/ EchoKey \/ SendData
  \/ \E on \in BOOLEAN : UsbEnable(on) \/ SetEcho(on)
  \/ HostReads
  \/ Tick

\* Whoever has entered goes on, and time passes; the host need not read.
PutcSpec ==
  /\ PutcInit /\ [][PutcNext]_putcVars
  /\ \A x \in Context : WF_putcVars(Go(x))
  /\ WF_putcVars(Tick)

-----------------------------------------------------------------------------
(* Properties *)

\* Type correctness.
PutcTypeOK ==
  /\ sys_tick \in 0 .. TICKS - 1
  /\ ready \in BOOLEAN /\ b_usb_enabled \in BOOLEAN /\ echo \in BOOLEAN
  /\ locked \in BOOLEAN /\ direct \in [Context -> BOOLEAN]
  /\ putc_pc \in [Context -> Inside \cup {"idle", "grab", "check", "lock"}]
  /\ prev_tick \in [Context -> 0 .. TICKS - 1]
  /\ polled \in BOOLEAN /\ waited \in [Context -> 0 .. 2]

\* In the USB driver, or waiting for it: past the lock of core_putc, or there
\* without core_putc.
InDriver(x) == putc_pc[x] \in Inside \/ direct[x]

\* "prevent re-entrant": both contexts are in the USB driver at once only by
\* one of the two entries that leave core_putc out.  Two calls of core_putc
\* never are, though the flag is tested and set in different statements.
OneWriter ==
  (\A x \in Context : InDriver(x)) => \E x \in Context : direct[x]

\* The flag is set exactly while a call of core_putc is past the lock, however
\* calls nest: it is never left behind, which would silence the terminal for
\* good.  It says nothing of the entries without core_putc.
LockMatches == locked <=> \E x \in Context : putc_pc[x] \in Inside

\* "only wait 2 systicks and then give up": never after fewer, wherever the
\* counter wraps.
GiveUpNotEarly == \A x \in Context : putc_pc[x] = "giveup" => waited[x] >= 2

\* With a host that does not read, a call that began before the last two
\* values of the counter still ends, unless the echo of a typed character
\* comes into it: that one waits without a limit, or takes the room the call
\* had seen.
SpinEndsBeforeWrap ==
  \A x \in Context :
     putc_pc[x] = "spin" /\ prev_tick[x] + 2 < TICKS
        ~> putc_pc[x] = "idle" \/ direct["isr"]
=============================================================================
