---------------------------------- MODULE Heap ----------------------------------
(***************************************************************************)
(* The three pools of memory blocks (firmware/inc/conf_membag.h) and every *)
(* function run by monitor() that takes blocks from them.  For one that    *)
(* finds no block left, core_panic is the end.                             *)
(*                                                                         *)
(* A function is the set of its paths: the order in which it takes blocks, *)
(* gives them back and calls others.  take(p) is core_malloc of a size of  *)
(* pool p, keep(p) one for good unless it is done, give(k) core_free of    *)
(* the k-th block the call has taken, and loop(f) calls f until it goes    *)
(* on.  Which path is taken depends on what the module answers and the     *)
(* callees return; every choice is allowed.  The main loop and the two     *)
(* UART handlers share one stack.  An allocation is one step.              *)
(***************************************************************************)
EXTENDS Integers, Sequences, FiniteSets

CONSTANTS
  N_MD_BUF, N_LG_BUF, N_XL_BUF,   \* blocks in each pool
  Reserve                         \* blocks whose loss may end in core_panic

ASSUME HeapAssumption ==
  /\ N_MD_BUF \in Nat /\ N_LG_BUF \in Nat /\ N_XL_BUF \in Nat
  /\ Reserve \in Nat

VARIABLES
  stack,                   \* calls in progress, the innermost first
  free,                    \* free blocks in each pool
  kept,                    \* pools of the buffers that wifi_init keeps for good
  panicked,                \* whether core_panic has been called
  lost                     \* history: blocks lost by the functions in Leaking

vars == <<stack, free, kept, panicked, lost>>

Pools == {"MD", "LG", "XL"}
N == [MD |-> N_MD_BUF, LG |-> N_LG_BUF, XL |-> N_XL_BUF]

take(p) == <<"take", p>>
give(k) == <<"give", k>>
keep(p) == <<"keep", p>>
call(f) == <<"call", f>>
loop(f) == <<"loop", f>>

-----------------------------------------------------------------------------
(* The functions *)

\* Two buffers for one line of the log.
fs_log == {<<take("MD"), take("MD"), give(1), give(2)>>}

\* A failed transmission is logged, with what the module said or without.
wifi_send_data ==
  {<<take("MD"), give(1)>>,
   <<take("MD"), call("fs_log"), give(1)>>,
   <<take("MD"), call("fs_log"), call("fs_log"), give(1)>>}

\* In pieces of 1000 bytes; the first failure ends it.
wifi_send_raw == {<<take("MD"), call("wifi_send_data"), loop("wifi_send_data"), give(1)>>}

\* Mutant of wifi_transmit: one of the early returns forgets a buffer.
wifi_transmit_forgets ==
  {<<take("MD"), take("MD"), give(1)>>,
   <<take("MD"), take("MD"), call("wifi_send_raw"), give(1), give(2)>>}

\* No connection, or a connection and one transmission.
wifi_transmit ==
  {<<take("MD"), take("MD"), give(1), give(2)>>,
   <<take("MD"), take("MD"), call("wifi_send_raw"), give(1), give(2)>>}

wifi_send_ip == {<<take("LG"), take("LG"), call("wifi_transmit"), give(1), give(2)>>}

core_get_nilm_ip_addr == {<<take("MD"), call("wifi_transmit"), give(1)>>}

core_get_nilm_ip_addr_cb ==
  {<<take("MD"), give(1)>>,
   <<take("MD"), call("wifi_send_ip"), give(1)>>}

\* Standalone; the commands or the join fail; the address is sent or asked for.
\* When the module resets itself while the address is sent, both buffers stay.
wifi_init ==
  {<<keep("LG"), keep("MD"), keep("XL")>>,
   <<keep("LG"), keep("MD"), keep("XL"), take("MD"), take("MD"), give(1), give(2)>>,
   <<keep("LG"), keep("MD"), keep("XL"), take("MD"), take("MD"),
     call("fs_log"), give(1), give(2)>>,
   <<keep("LG"), keep("MD"), keep("XL"), take("MD"), take("MD"), call("wifi_send_ip")>>,
   <<keep("LG"), keep("MD"), keep("XL"), take("MD"), take("MD"),
     call("wifi_send_ip"), call("fs_log"), give(2), give(1)>>,
   <<keep("LG"), keep("MD"), keep("XL"), take("MD"), take("MD"),
     call("core_get_nilm_ip_addr"), call("fs_log"), give(2), give(1)>>}

\* Too large; corrupt, as a message or as a request; the answer on channel 4; a
\* request that is answered; set_rtc; send_data with the module resetting itself.
core_process_wifi_data ==
  {<<call("fs_log")>>,
   <<take("XL"), call("fs_log"), give(1)>>,
   <<take("XL"), give(1)>>,
   <<take("XL"), call("core_get_nilm_ip_addr_cb"), give(1)>>,
   <<take("XL"), call("wifi_send_raw"), give(1)>>,
   <<take("XL"), take("MD"), call("fs_log"), give(2), call("wifi_send_raw"), give(1)>>,
   <<take("XL"), call("wifi_send_raw"), call("wifi_init"), loop("wifi_init"), give(1)>>}

\* Sample logged, or the watchdog.
core_log_power_data == {<<>>, <<call("fs_log"), call("wifi_init")>>}

\* config set keeps its buffer on every return.
mon_config == {<<>>, <<take("MD")>>}

mon_rtc == {<<>>, <<take("MD"), give(1)>>}

mon_wifi == {<<>>, <<call("wifi_init")>>}

\* log read, found or not; log erase.
mon_log == {<<>>, <<take("MD"), give(1)>>}

\* data read, with a corrupt buffer.
mon_data == {<<>>, <<call("fs_log")>>}

\* ls.
fs_info == {<<take("MD"), give(1)>>}

\* A byte that ends no message may be looked at for a link or unlink.
UART0_Handler == {<<>>, <<take("MD"), give(1)>>}

\* A bad checksum is logged.
UART1_Handler == {<<>>, <<call("fs_log")>>}

Body(f) ==
  CASE f = "fs_log" -> fs_log
    [] f = "wifi_send_data" -> wifi_send_data
    [] f = "wifi_send_raw" -> wifi_send_raw
    [] f = "wifi_transmit" -> wifi_transmit
    [] f = "wifi_send_ip" -> wifi_send_ip
    [] f = "core_get_nilm_ip_addr" -> core_get_nilm_ip_addr
    [] f = "core_get_nilm_ip_addr_cb" -> core_get_nilm_ip_addr_cb
    [] f = "wifi_init" -> wifi_init
    [] f = "core_process_wifi_data" -> core_process_wifi_data
    [] f = "core_log_power_data" -> core_log_power_data
    [] f = "mon_config" -> mon_config
    [] f = "mon_rtc" -> mon_rtc
    [] f = "mon_wifi" -> mon_wifi
    [] f = "mon_log" -> mon_log
    [] f = "mon_data" -> mon_data
    [] f = "fs_info" -> fs_info
    [] f = "UART0_Handler" -> UART0_Handler
    [] f = "UART1_Handler" -> UART1_Handler

-----------------------------------------------------------------------------
(* The machine *)

\* monitor() has taken the command buffer.
Init ==
  /\ stack = <<>> /\ free = [N EXCEPT !["MD"] = @ - 1]
  /\ kept = {} /\ panicked = FALSE /\ lost = 0

Enter(f, below) ==
  \E path \in Body(f) : stack' = <<[fn |-> f, rest |-> path, held |-> <<>>]>> \o below

Top == stack[1]

\* The next operation of the innermost call is op.
At(op) == ~panicked /\ stack # <<>> /\ Top.rest # <<>> /\ Head(Top.rest)[1] = op

Arg == Head(Top.rest)[2]

\* The calls in progress when the innermost one has done its operation and
\* holds the blocks in held.
After(held) == <<[Top EXCEPT !.rest = Tail(@), !.held = held]>> \o Tail(stack)

Larger == [MD |-> <<"MD", "LG", "XL">>, LG |-> <<"LG", "XL">>, XL |-> <<"XL">>]

\* membag_alloc finds a block in the first pool that fits and is not empty.
Block(p, q) ==
  LET fit == {i \in DOMAIN Larger[p] : free[Larger[p][i]] > 0}
  IN \E i \in fit : q = Larger[p][i] /\ \A j \in fit : i <= j

Take ==
  /\ At("take")
  /\ \E q \in Pools :
       /\ Block(Arg, q)
       /\ free' = [free EXCEPT ![q] = @ - 1]
       /\ stack' = After(Append(Top.held, q))
  /\ UNCHANGED <<kept, panicked, lost>>

\* core_malloc calls core_panic, which spins for good, when there is no block;
\* whether the allocator serves a larger one instead is left open.
Panic ==
  /\ At("take") \/ (At("keep") /\ Arg \notin kept)
  /\ free[Arg] = 0
  /\ panicked' = TRUE
  /\ UNCHANGED <<stack, free, kept, lost>>

Keep ==
  /\ At("keep")
  /\ IF Arg \in kept THEN UNCHANGED <<free, kept>>
     ELSE \E q \in Pools :
            /\ Block(Arg, q)
            /\ free' = [free EXCEPT ![q] = @ - 1]
            /\ kept' = kept \cup {Arg}
  /\ stack' = After(Top.held)
  /\ UNCHANGED <<panicked, lost>>

Give ==
  /\ At("give")
  /\ free' = [free EXCEPT ![Top.held[Arg]] = @ + 1]
  /\ stack' = After([Top.held EXCEPT ![Arg] = "given"])
  /\ UNCHANGED <<kept, panicked, lost>>

Call ==
  /\ At("call") /\ Enter(Arg, After(Top.held))
  /\ UNCHANGED <<free, kept, panicked, lost>>

Loop ==
  /\ At("loop")
  /\ Enter(Arg, stack) \/ stack' = After(Top.held)
  /\ UNCHANGED <<free, kept, panicked, lost>>

\* The two functions with a return that forgets blocks.
Leaking == {"mon_config", "wifi_init"}

\* What a call still holds when it returns is lost.
Return ==
  /\ ~panicked /\ stack # <<>> /\ Top.rest = <<>>
  /\ stack' = Tail(stack)
  /\ lost' = IF Top.fn \in Leaking
             THEN lost + Cardinality({k \in DOMAIN Top.held : Top.held[k] # "given"})
             ELSE lost
  /\ UNCHANGED <<free, kept, panicked>>

Commands == {"mon_config", "mon_rtc", "mon_wifi", "mon_log", "mon_data", "fs_info"}

\* The main loop logs a sample, processes a message and runs a command.
MainLoop ==
  /\ ~panicked /\ stack = <<>>
  /\ \E f \in Commands \cup {"core_log_power_data", "core_process_wifi_data"} :
       /\ f = "core_process_wifi_data" => kept = Pools
       /\ Enter(f, <<>>)
  /\ UNCHANGED <<free, kept, panicked, lost>>

Active(f) == \E i \in DOMAIN stack : stack[i].fn = f

\* The WiFi interrupt has priority 2, the meter's 4.
Interrupt ==
  /\ ~panicked
  /\ \/ /\ kept = Pools /\ ~Active("UART0_Handler")
        /\ Enter("UART0_Handler", stack)
     \/ /\ ~Active("UART0_Handler") /\ ~Active("UART1_Handler")
        /\ Enter("UART1_Handler", stack)
  /\ UNCHANGED <<free, kept, panicked, lost>>

Next == Take \/ Panic \/ Keep \/ Give \/ Call \/ Loop \/ Return \/ MainLoop \/ Interrupt

Spec == Init /\ [][Next]_vars

-----------------------------------------------------------------------------
(* Properties *)

\* The pools are large enough for the deepest calls with both handlers on top of
\* them, and every function but config set (monitor.c:306) and wifi_init, when
\* the module resets itself at the end (wifi.c:153), gives back what it took,
\* whatever fails in it: core_panic is not reached before these two have lost
\* Reserve blocks, however long the plug runs.
PoolsSuffice == panicked => lost >= Reserve
=============================================================================
