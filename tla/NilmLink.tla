-------------------------------- MODULE NilmLink --------------------------------
(***************************************************************************)
(* How the plug joins the network, asks its manager for the address of its *)
(* NILM and tells the NILM its own (wifi_init, wifi_transmit, wifi_send_ip *)
(* in firmware/src/wifi.c; core_get_nilm_ip_addr, its callback, and        *)
(* channel 4 in core_process_wifi_data in monitor.c).                      *)
(*                                                                         *)
(* A command to the module is one step with one of its outcomes; what the  *)
(* bytes do meanwhile is the module Wifi.  Channel 4 carries what the plug *)
(* asks and tells, one request on one connection; a host's answer comes    *)
(* back on it and reaches the main loop in wifi_rx_buf, or is lost while   *)
(* the main loop has the line or the buffer is full.  The module may reset *)
(* itself and a host may close the connection at any time.                 *)
(***************************************************************************)
CONSTANTS
  Addrs,                   \* addresses the NILM may have
  Mgr,                     \* the manager, as a host
  None,                    \* no host, no address
  Former                   \* the plug before its last restart

ASSUME NilmAssumption ==
  /\ Mgr \notin Addrs /\ None \notin Addrs /\ Former \notin Addrs
  /\ Mgr # None /\ Mgr # Former /\ None # Former

Hosts == Addrs \cup {Mgr}

VARIABLES
  nilm,                    \* wemo_config.nilm_ip_addr, in memory and saved
  tx_callback,             \* whether tx_callback is set
  rx,                      \* wifi_rx_buf and its flag: a message, or none
  joined,                  \* the module: whether it is in the network
  sock,                    \* the module: host channel 4 is connected to
  due,                     \* host the unanswered request on channel 4 was meant for, or Former
  pc,                      \* main loop: next statement
  caller,                  \* who called wifi_init
  dest, why, result        \* wifi_transmit: its host, caller and result

chipVars == <<joined, sock, due>>
callVars == <<caller, dest, why, result>>
vars     == <<nilm, tx_callback, rx, chipVars, pc, callVars>>

\* From whom a message is, and the address in it.
Message(from, addr) == [from |-> from, addr |-> addr]
NoMessage == Message("nobody", None)

Init ==
  /\ nilm \in Addrs \cup {None}
  /\ tx_callback = FALSE /\ rx = NoMessage
  /\ joined = FALSE /\ sock = None /\ due = None
  /\ pc = "reset" /\ caller = "boot"
  /\ dest = None /\ why = "ask" /\ result = "success"

-----------------------------------------------------------------------------
(* The module and the hosts *)

\* Places where the bytes that come go to wifi_rx_buf.
LineWithCore == {"tick", "data", "cmd", "sent", "log", "fresh"}

Forget == joined' = FALSE /\ sock' = None /\ due' = None

\* The connected host answers the request: the manager with an address or an
\* error.  Without the line, or with a message on hand, the answer is lost.
Answer ==
  /\ due # None /\ due' = None
  /\ \/ UNCHANGED rx
     \/ /\ pc \in LineWithCore /\ rx = NoMessage
        /\ LET from == IF due = Former THEN "former" ELSE IF sock = Mgr THEN "manager" ELSE "nilm"
           IN  \E a \in IF sock = Mgr THEN Addrs \cup {None} ELSE {None} :
                  rx' = Message(from, a)
  /\ UNCHANGED <<nilm, tx_callback, joined, sock, pc, callVars>>

\* A client's command comes in on another channel.
ClientCommand ==
  /\ joined /\ pc \in LineWithCore /\ rx = NoMessage
  /\ rx' = Message("client", None)
  /\ UNCHANGED <<nilm, tx_callback, chipVars, pc, callVars>>

HostCloses ==
  /\ sock # None /\ sock' = None /\ due' = None
  /\ UNCHANGED <<nilm, tx_callback, rx, joined, pc, callVars>>

ModuleReset ==
  /\ Forget
  /\ UNCHANGED <<nilm, tx_callback, rx, pc, callVars>>

-----------------------------------------------------------------------------
(* wifi_transmit *)

Transmit(host, from) ==
  /\ pc' = "connect"
  /\ dest' = host /\ why' = from
  /\ UNCHANGED <<caller, result>>

Return(r) ==
  /\ pc' = "sent" /\ result' = r
  /\ UNCHANGED <<caller, dest, why>>

\* AT+CIPSTART: with channel 4 open the module refuses, and the code goes on
\* to Reopen; otherwise it connects, refuses, or does not answer in time.
Connect ==
  /\ pc = "connect"
  /\ \/ /\ sock # None /\ pc' = "reopen"
        /\ UNCHANGED <<sock, callVars>>
     \/ /\ sock = None /\ joined /\ sock' = dest
        /\ \/ pc' = "send" /\ UNCHANGED callVars
           \/ Return("error")
     \/ Return("bad_dest_ip") /\ UNCHANGED sock
     \/ Return("error") /\ UNCHANGED sock
  /\ UNCHANGED <<nilm, tx_callback, rx, joined, due>>

\* Mutant of Reopen: a channel that is open already is used as it is.
ReopenNothing ==
  /\ pc = "reopen" /\ pc' = "send"
  /\ UNCHANGED <<nilm, tx_callback, rx, chipVars, callVars>>


\* AT+CIPCLOSE and AT+CIPSTART again, each of which may fail.
Reopen ==
  /\ pc = "reopen"
  /\ \/ /\ joined /\ sock' = dest /\ due' = None
        /\ pc' = "send" /\ UNCHANGED callVars
     \/ /\ \/ sock' \in {None, dest} /\ due' = None
           \/ UNCHANGED <<sock, due>>
        /\ Return("error")
  /\ UNCHANGED <<nilm, tx_callback, rx, joined>>

\* Mutant of Wiped: the buffer is left alone.
NotWiped == rx

\* wifi_send_data clears the buffer, and leaves the flag.
Wiped == IF rx = NoMessage THEN rx ELSE Message("wiped", None)

\* wifi_send_txt: the host gets the data and the plug may hear of it or not,
\* or it gets nothing, or the module is found to have reset itself.
SendSucceeds ==
  /\ pc = "send" /\ sock # None
  /\ due' = dest /\ rx' = Wiped
  /\ Return("success")
  /\ UNCHANGED <<nilm, tx_callback, joined, sock>>

SendFails ==
  /\ pc = "send" /\ rx' = Wiped
  /\ \/ Return("error") /\ UNCHANGED chipVars
     \/ Return("error") /\ sock # None /\ due' = dest /\ UNCHANGED <<joined, sock>>
     \/ Return("reset") /\ Forget
  /\ UNCHANGED <<nilm, tx_callback>>

-----------------------------------------------------------------------------
(* wifi_init *)

\* wifi_init returns 0 or an error; send_data calls it until it returns 0.
InitReturns(ok) ==
  \/ caller = "boot"    /\ pc' = "fresh"
  \/ caller = "command" /\ pc' = IF ok THEN "clear" ELSE "again"
  \/ caller = "console" /\ pc' = "tick"
  \/ caller = "safety"  /\ pc' = "data"

\* while(wifi_init()!=0), in send_data.
Again ==
  /\ pc = "again" /\ pc' = "reset"
  /\ UNCHANGED <<nilm, tx_callback, rx, chipVars, callVars>>

\* AT+RST.
ResetOk == pc = "reset" /\ pc' = "mode" /\ Forget
ResetFails ==
  /\ pc = "reset" /\ InitReturns(FALSE)
  /\ Forget \/ UNCHANGED chipVars

\* AT+CWMODE: without an answer wifi_init gives up and returns 0.
Mode ==
  /\ pc = "mode"
  /\ pc' = "join" \/ InitReturns(TRUE)
  /\ UNCHANGED chipVars

\* AT+CWJAP.
JoinOk == pc = "join" /\ pc' = "ip" /\ joined' = TRUE /\ UNCHANGED <<sock, due>>
JoinFails ==
  /\ pc = "join" /\ InitReturns(FALSE)
  /\ joined' \in BOOLEAN /\ UNCHANGED <<sock, due>>

\* AT+CIFSR; the commands that follow it, which start the server, are not checked.
AddressOk    == pc = "ip" /\ pc' = "greet" /\ UNCHANGED chipVars
AddressFails == pc = "ip" /\ InitReturns(FALSE) /\ UNCHANGED chipVars

SetUp == ResetFails \/ Mode \/ JoinFails \/ AddressFails \/ ResetOk \/ JoinOk \/ AddressOk

\* wifi_send_ip to the NILM whose address is known, or core_get_nilm_ip_addr.
Greet ==
  /\ pc = "greet"
  /\ IF nilm # None THEN Transmit(nilm, "init") ELSE Transmit(Mgr, "ask")
  /\ UNCHANGED <<nilm, tx_callback, rx, chipVars>>

\* Behind wifi_transmit: core_get_nilm_ip_addr sets the callback whatever the
\* result; wifi_init fails only if the module has reset itself.
Transmitted ==
  /\ pc = "sent"
  /\ \/ why = "ask" /\ tx_callback' = TRUE /\ pc' = "log"
     \/ why = "init" /\ UNCHANGED tx_callback
        /\ IF result = "reset" THEN InitReturns(FALSE) ELSE pc' = "log"
     \/ why = "callback" /\ pc' = "clear" /\ tx_callback' = FALSE
  /\ UNCHANGED <<nilm, rx, chipVars, callVars>>

\* "Joined [...] with IP [...]" goes to the log.
Logged ==
  /\ pc = "log" /\ InitReturns(TRUE)
  /\ UNCHANGED <<nilm, tx_callback, rx, chipVars, callVars>>

\* At start-up monitor() clears the buffer and the flag behind wifi_init.
Fresh ==
  /\ pc = "fresh" /\ pc' = "tick"
  /\ rx' = NoMessage
  /\ UNCHANGED <<nilm, tx_callback, chipVars, callVars>>

-----------------------------------------------------------------------------
(* The main loop *)

CallInit(who) == pc' = "reset" /\ caller' = who /\ UNCHANGED <<dest, why, result>>

\* The tick, where a lost NILM may restart the WiFi.
Tick ==
  /\ pc = "tick"
  /\ \/ pc' = "data" /\ UNCHANGED callVars
     \/ CallInit("safety")
  /\ UNCHANGED <<nilm, tx_callback, rx, chipVars>>

\* core_get_nilm_ip_addr_cb: an address is saved and the plug's own sent to
\* it; anything else is "bad address from manager".
CallbackFor ==
  IF rx.addr # None
    THEN Transmit(rx.addr, "callback") /\ nilm' = rx.addr /\ UNCHANGED tx_callback
    ELSE /\ pc' = "clear" /\ tx_callback' = FALSE
         /\ UNCHANGED <<nilm, callVars>>

\* core_process_wifi_data on channel 4 closes the channel, which may fail, and
\* calls the callback if there is one.
ProcessAnswer ==
  /\ pc = "data" /\ rx.from \in {"manager", "nilm", "former"}
  /\ \/ sock' = None /\ due' = None
     \/ UNCHANGED <<sock, due>>
  /\ IF tx_callback THEN CallbackFor
     ELSE pc' = "clear" /\ UNCHANGED <<nilm, tx_callback, callVars>>
  /\ UNCHANGED <<rx, joined>>

\* A client's command; send_data may find that the module has reset itself.
\* What has been wiped is corrupt.
ProcessOther ==
  /\ pc = "data"
  /\ \/ rx.from \in {"nobody", "wiped", "client"} /\ pc' = "clear" /\ UNCHANGED callVars
     \/ rx.from = "client" /\ CallInit("command")
  /\ UNCHANGED <<nilm, tx_callback, rx, chipVars>>

\* The message has been processed: the flag is reset.
Clear ==
  /\ pc = "clear" /\ pc' = "cmd"
  /\ rx' = NoMessage
  /\ UNCHANGED <<nilm, tx_callback, chipVars, callVars>>

\* A command on the console: wifi on, config set nilm_ip, or another one.
Command ==
  /\ pc = "cmd"
  /\ \/ CallInit("console") /\ UNCHANGED nilm
     \/ pc' = "tick" /\ nilm' \in Addrs \cup {None} /\ UNCHANGED callVars
  /\ UNCHANGED <<tx_callback, rx, chipVars>>

\* A restart of the plug, not of the module: it keeps its connection.
Restart ==
  /\ pc' = "reset" /\ caller' = "boot"
  /\ tx_callback' = FALSE /\ rx' = NoMessage
  /\ due' = IF due = None THEN None ELSE Former
  /\ UNCHANGED <<nilm, joined, sock, dest, why, result>>

SetUpStep == SetUp /\ UNCHANGED <<nilm, tx_callback, rx, callVars>>

wifi_transmit == Connect \/ Reopen \/ SendSucceeds \/ SendFails

Main == \/ SetUpStep \/ Again \/ Greet \/ wifi_transmit \/ Transmitted \/ Logged \/ Fresh
        \/ Tick \/ ProcessAnswer \/ ProcessOther \/ Clear \/ Command

Environment == Answer \/ ClientCommand \/ HostCloses \/ ModuleReset

Next == Main \/ Environment \/ Restart

\* The main loop goes on.  Nothing is asked of the module, the network or a host:
\* no command need ever succeed.
Fairness == WF_vars(Main)

Spec == Init /\ [][Next]_vars /\ Fairness
-----------------------------------------------------------------------------
(* Properties *)

\* Type correctness of the configuration, the buffer, the module and the calls.
TypeOK ==
  /\ nilm \in Addrs \cup {None} /\ tx_callback \in BOOLEAN
  /\ rx \in [from : {"nobody", "manager", "nilm", "former", "client", "wiped"},
             addr : Addrs \cup {None}]
  /\ joined \in BOOLEAN /\ sock \in Hosts \cup {None} /\ due \in Hosts \cup {None, Former}
  /\ pc \in {"tick", "data", "clear", "cmd", "fresh", "again", "reset", "mode", "join", "ip",
             "greet", "connect", "reopen", "send", "sent", "log"}
  /\ caller \in {"boot", "console", "command", "safety"}
  /\ dest \in Hosts \cup {None} /\ why \in {"ask", "init", "callback"}
  /\ result \in {"success", "error", "bad_dest_ip", "reset"}

\* What a host gets on channel 4 was meant for it: neither a connection that
\* stayed open ("sometimes the port stays open", wifi.c:206) nor one that was
\* made late brings the manager's request to the NILM, or the plug's address to
\* the NILM it had before.
RightHost == due \in Hosts => sock = due

\* The manager's answer finds the callback it is for, and no answer of the
\* NILM uses up the callback before it, although tx_callback is set without a
\* look at whether the request was sent and is run on whatever comes next.
AnswerFindsCallback ==
  pc \in {"tick", "data", "cmd"} =>
    /\ rx.from = "manager" => tx_callback
    /\ tx_callback /\ due = Mgr => rx.from \notin {"nilm", "former"}

=============================================================================
