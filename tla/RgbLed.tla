-------------------------------- MODULE RgbLed --------------------------------
(***************************************************************************)
(* The status LED (firmware/src/rgb_led.c, the LED part of PWM_Handler and *)
(* the callers of rgb_led_set in monitor.c).  rgb_led_set stores a colour  *)
(* field by field, writes it to the LED bit by bit, stops the blink timer  *)
(* and starts it again if the LED is to blink.  The main loop calls it for *)
(* commands, and core_usb_enable calls it from the USB interrupt, which    *)
(* preempts the main loop; the timer's handler preempts both.  A colour    *)
(* has two fields here, red and green, each on or off.                     *)
(***************************************************************************)
EXTENDS Integers

CONSTANTS
  Colours,                 \* the colours the callers ask for
  MaxCalls,                \* bound: calls of rgb_led_set in the main loop
  MaxUsbCalls              \* bound: calls of rgb_led_set in the USB interrupt

ASSUME RgbLedAssumption ==
  /\ Colours \subseteq [{"red", "green"} -> {0, 1}]
  /\ MaxCalls \in Nat /\ MaxUsbCalls \in Nat

Dark    == [c \in {"red", "green"} |-> 0]
Garbled == [c \in {"red", "green"} |-> 2]   \* the bits of two writes mixed
Caller == {"main", "usb"}
Bound   == [main |-> MaxCalls, usb |-> MaxUsbCalls]

VARIABLES
  led_pc,                  \* next statement of rgb_led_set in each context
  arg,                     \* its arguments: [colour, blink]
  calls,                   \* calls made in each context
  led_color,               \* the stored colour
  timer,                   \* whether the blink timer and its interrupt run
  led_on,                  \* static variable of PWM_Handler
  shown,                   \* what the LED shows
  cut,                     \* contexts whose write was preempted by another write
  last,                    \* history: the context whose call returned last
  alone                    \* history: nothing has preempted the last call

ledVars == <<led_pc, arg, calls, led_color, timer, led_on, shown, cut, last, alone>>

LedInit ==
  /\ led_pc = [x \in Caller |-> "idle"]
  /\ arg = [x \in Caller |-> [colour |-> Dark, blink |-> FALSE]]
  /\ calls = [x \in Caller |-> 0]
  /\ led_color = Dark /\ shown = Dark
  /\ timer = FALSE /\ led_on = FALSE
  /\ cut = {} /\ last = "main" /\ alone = TRUE

Idle == \A x \in Caller : led_pc[x] = "idle"

\* The USB interrupt keeps the main loop from running.
Runs(x) == x = "usb" \/ led_pc["usb"] = "idle"

LedStep(x, from, to) ==
  /\ Runs(x) /\ led_pc[x] = from /\ led_pc' = [led_pc EXCEPT ![x] = to]
  /\ last' = IF to = "idle" THEN x ELSE last

\* The contexts that are sending bits: who writes now preempts them.
Writing == {x \in Caller : led_pc[x] = "written"}

-----------------------------------------------------------------------------
(* rgb_led_set *)

\* The main loop asks for any colour and blink, the USB interrupt for a steady one.
Call(x, colour, blink) ==
  /\ LedStep(x, "idle", "red")
  /\ calls[x] < Bound[x] /\ calls' = [calls EXCEPT ![x] = @ + 1]
  /\ blink => x = "main"
  /\ arg' = [arg EXCEPT ![x] = [colour |-> colour, blink |-> blink]]
  /\ alone' = Idle
  /\ UNCHANGED <<led_color, timer, led_on, shown, cut>>

StoreRed(x) ==
  /\ LedStep(x, "red", "green")
  /\ led_color' = [led_color EXCEPT !["red"] = arg[x].colour["red"]]
  /\ UNCHANGED <<arg, calls, timer, led_on, shown, cut, alone>>

StoreGreen(x) ==
  /\ LedStep(x, "green", "write")
  /\ led_color' = [led_color EXCEPT !["green"] = arg[x].colour["green"]]
  /\ UNCHANGED <<arg, calls, timer, led_on, shown, cut, alone>>

\* rgb_led_write starts to send the bits ...
StartWrite(x) ==
  /\ LedStep(x, "write", "written")
  /\ cut' = cut \cup Writing
  /\ UNCHANGED <<arg, calls, led_color, timer, led_on, shown, alone>>

\* Mutant of EndWrite: the stored colour of the last call is sent.
EndWriteOld(x) ==
  /\ LedStep(x, "written", "stop")
  /\ shown' = IF x \in cut THEN Garbled ELSE shown
  /\ cut' = cut \ {x}
  /\ UNCHANGED <<arg, calls, led_color, timer, led_on, alone>>

\* ... and has sent them all.
EndWrite(x) ==
  /\ LedStep(x, "written", "stop")
  /\ shown' = IF x \in cut THEN Garbled ELSE arg[x].colour
  /\ cut' = cut \ {x}
  /\ UNCHANGED <<arg, calls, led_color, timer, led_on, alone>>

\* Mutant of StopTimer: the timer is left alone.
StopNothing(x) ==
  /\ LedStep(x, "stop", IF arg[x].blink THEN "start" ELSE "idle")
  /\ UNCHANGED <<arg, calls, led_color, timer, led_on, shown, cut, alone>>

\* The timer and its interrupt are disabled.
StopTimer(x) ==
  /\ LedStep(x, "stop", IF arg[x].blink THEN "start" ELSE "idle")
  /\ timer' = FALSE
  /\ UNCHANGED <<arg, calls, led_color, led_on, shown, cut, alone>>

\* With a blink rate the timer is set up and enabled again.
StartTimer(x) ==
  /\ LedStep(x, "start", "idle")
  /\ timer' = TRUE
  /\ UNCHANGED <<arg, calls, led_color, led_on, shown, cut, alone>>

rgb_led_set(x) ==
  \/ StoreRed(x) \/ StoreGreen(x) \/ StartWrite(x) \/ EndWrite(x)
  \/ StopTimer(x) \/ StartTimer(x)

-----------------------------------------------------------------------------
(* PWM_Handler on channel 1 *)

\* Mutant of Blink: led_on is not flipped when the LED is lit.
BlinkStuck ==
  /\ timer
  /\ shown' = led_color
  /\ led_on' = TRUE
  /\ cut' = cut \cup Writing
  /\ alone' = (alone /\ Idle)
  /\ UNCHANGED <<led_pc, arg, calls, led_color, timer, last>>

\* The LED goes dark if it was lit last time, else it shows the stored colour.
Blink ==
  /\ timer
  /\ shown' = IF led_on THEN Dark ELSE led_color
  /\ led_on' = ~led_on
  /\ cut' = cut \cup Writing
  /\ alone' = (alone /\ Idle)
  /\ UNCHANGED <<led_pc, arg, calls, led_color, timer, last>>

LedNext ==
  \/ \E x \in Caller, colour \in Colours, blink \in BOOLEAN : Call(x, colour, blink)
  \/ \E x \in Caller : rgb_led_set(x)
  \/ Blink

\* A call runs to its end, and the timer does not stop by itself.
LedSpec ==
  /\ LedInit /\ [][LedNext]_ledVars
  /\ WF_ledVars(\E x \in Caller : rgb_led_set(x))
  /\ WF_ledVars(Blink)

-----------------------------------------------------------------------------
(* Properties *)

\* A call that neither the timer's handler nor the USB interrupt preempted
\* leaves its colour stored and, if it is to be steady, shown, even if the LED
\* was blinking when it began.
UndisturbedCallWins ==
  Idle /\ alone =>
     /\ led_color = arg[last].colour
     /\ ~arg[last].blink => shown = arg[last].colour

\* Once every call has returned and the last one asked for a steady colour,
\* nothing changes the LED until the next call, whichever calls preempted one
\* another: no blink timer outlives it.
SteadyStays == [][Idle /\ ~arg[last].blink => shown' = shown]_ledVars

\* A blinking LED is lit in the stored colour and goes dark, again and again.
KeepsBlinking ==
  <>[](timer /\ Idle) => []<>(shown = led_color) /\ []<>(shown = Dark)
=============================================================================
