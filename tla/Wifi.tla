---------------------------------- MODULE Wifi ----------------------------------
(***************************************************************************)
(* The link to the WiFi module (firmware/src/wifi.c and the main loop's    *)
(* use of it).  The module sends answers to commands, SEND OK after data,  *)
(* and data from the net over one UART; UART0_Handler puts each byte in    *)
(* one of three places according to rx_wait and data_tx_status, which the  *)
(* main loop, the handler itself and the timer's handler write.            *)
(*                                                                         *)
(* A token stands for the bytes that mean something together: the echo of  *)
(* a command, its answer, the end of an answer, SEND OK, the head of a     *)
(* message with its first byte, and each further byte.  The module does    *)
(* one request after the other and may be slow without limit.              *)
(***************************************************************************)
EXTENDS Integers, Sequences

CONSTANTS
  Texts,                   \* commands that are sent
  Lengths,                 \* lengths of the messages from the net
  RESP_BUF_SIZE, WIFI_RX_BUF_SIZE,   \* the two buffers, in tokens
  TIMEOUT,                 \* turns of the waiting loops
  MaxCalls,                \* bound: calls of wifi_send_cmd and wifi_send_data
  MaxNews                  \* bound: messages, links and resets

ASSUME WifiAssumption ==
  /\ Lengths \subseteq Nat \ {0}
  /\ RESP_BUF_SIZE \in Nat \ {0} /\ WIFI_RX_BUF_SIZE \in Nat \ {0}
  /\ TIMEOUT \in Nat \ {0} /\ MaxCalls \in Nat /\ MaxNews \in Nat

VARIABLES
  todo, out,               \* the module: its requests, the tokens on the line
  news,                    \* messages, links and resets so far
  rx_wait, rx_complete, data_tx_status, resp_buf,
  wifi_rx_buf, wifi_rx_buf_idx,      \* all that the buffer holds, and where it goes on
  wifi_rx_buf_full, rx_in_prog, rx_bytes_recvd, rx_bytes_expected,
  timer,                   \* whether TC0 runs
  pc, back,                \* main loop: next statement, where the call was made
  timeout,                 \* turns left
  req,                     \* the request of the current call
  answer,                  \* what wifi_send_cmd has copied for its caller
  ended,                   \* where the call has written the zero that ends resp_buf
  calls,                   \* calls so far
  repeated,                \* history: the command is one that is still unanswered
  delivered,               \* history: sends the module has made
  claimed,                 \* history: sends reported as TX_SUCCESS
  doubtful,                \* history: sends begun with an older one unanswered
  given,                   \* history: the message as it was handed to the core
  cut                      \* history: a reception in progress has lost the line or a byte

chipVars == <<todo, out, news, delivered>>
waitVars == <<rx_wait, rx_complete, data_tx_status, resp_buf>>
rxVars   == <<wifi_rx_buf, wifi_rx_buf_idx, wifi_rx_buf_full, rx_in_prog, rx_bytes_recvd,
              rx_bytes_expected>>
callVars == <<back, timeout, req, answer, ended, calls, repeated>>
histVars == <<claimed, doubtful, given, cut>>
vars     == <<chipVars, waitVars, rxVars, timer, pc, callVars, histVars>>

\* What a token is about: <<"cmd", text>>, <<"send", number of the call>>, or
\* <<"net", number, length, place>> for data from the net.
Tok(kind, of) == [kind |-> kind, of |-> of]

Init ==
  /\ todo = <<>> /\ out = <<>> /\ news = 0
  /\ rx_wait = FALSE /\ rx_complete = FALSE
  /\ data_tx_status = "TX_IDLE" /\ resp_buf = <<>>
  /\ wifi_rx_buf = <<>> /\ wifi_rx_buf_idx = 0 /\ wifi_rx_buf_full = FALSE
  /\ rx_in_prog = FALSE /\ rx_bytes_recvd = 0 /\ rx_bytes_expected = 0
  /\ timer = FALSE
  /\ pc = "idle" /\ back = "idle" /\ timeout = 0
  /\ req = <<"none", 0>> /\ answer = <<>> /\ ended = 0 /\ calls = 0 /\ repeated = FALSE
  /\ delivered = {} /\ claimed = {} /\ doubtful = {} /\ given = <<>> /\ cut = FALSE

-----------------------------------------------------------------------------
(* The module *)

\* It begins with the next request and echoes it.
Echo ==
  /\ todo # <<>> /\ ~Head(todo).echoed
  /\ todo' = [todo EXCEPT ![1].echoed = TRUE]
  /\ out' = Append(out, Tok("echo", Head(todo).of))
  /\ UNCHANGED <<news, delivered, waitVars, rxVars, timer, pc, callVars, histVars>>

\* It ends a command with the expected words or with others, a transmission
\* with SEND OK or an error, or says nothing.
Answer ==
  /\ todo # <<>> /\ Head(todo).echoed
  /\ todo' = Tail(todo)
  /\ LET r == Head(todo) IN
     \/ /\ ~r.data
        /\ \/ out' = out \o <<Tok("body", r.of), Tok("done", r.of)>>
           \/ out' = Append(out, Tok("body", r.of))
        /\ UNCHANGED delivered
     \/ /\ r.data
        /\ \/ out' = Append(out, Tok("sent", r.of)) /\ delivered' = delivered \cup {r.of}
           \/ out' = Append(out, Tok("fail", r.of)) /\ UNCHANGED delivered
     \/ UNCHANGED <<out, delivered>>
  /\ UNCHANGED <<news, waitVars, rxVars, timer, pc, callVars, histVars>>

\* A message from the net, a connection made or closed, or a reset that
\* forgets the requests.
News ==
  /\ news < MaxNews /\ news' = news + 1
  /\ \/ /\ \E n \in Lengths :
             out' = out \o [i \in 1 .. n |->
                              Tok(IF i = 1 THEN "head" ELSE "more", <<"net", news', n, i>>)]
        /\ UNCHANGED todo
     \/ out' = Append(out, Tok("link", <<"net", 0>>)) /\ UNCHANGED todo
     \/ out' = Append(out, Tok("ready", <<"net", 0>>)) /\ todo' = <<>>
  /\ UNCHANGED <<delivered, waitVars, rxVars, timer, pc, callVars, histVars>>

-----------------------------------------------------------------------------
(* The interrupt handlers *)

\* TC0_Handler: a second has passed.
TC0_Handler ==
  /\ timer /\ rx_wait
  /\ rx_wait' = FALSE
  /\ UNCHANGED <<chipVars, rx_complete, data_tx_status, resp_buf, rxVars, timer, pc,
                 callVars, histVars>>

\* Mutant of ForCommand: the length of the response is not tested.
ForCommandUnbounded(tok) ==
  /\ rx_wait /\ data_tx_status # "TX_PENDING"
  /\ resp_buf' = Append(resp_buf, tok)
  /\ IF tok.kind = "done" THEN rx_complete' = TRUE /\ rx_wait' = FALSE
                          ELSE UNCHANGED <<rx_complete, rx_wait>>
  /\ UNCHANGED <<data_tx_status, rxVars, cut>>

\* What may be the text that the caller waits for, such as OK in SEND OK.
Ending == {"done", "sent", "link", "ready"}

\* Surely it is, at the first end of an answer to this command.
Expected(tok) ==
  tok = Tok("done", req) /\ \A i \in DOMAIN resp_buf : resp_buf[i].kind \notin Ending

\* Part of the answer to a command; the text the caller waits for ends the wait.
ForCommand(tok) ==
  /\ rx_wait /\ data_tx_status # "TX_PENDING"
  /\ IF Len(resp_buf) >= RESP_BUF_SIZE THEN UNCHANGED <<resp_buf, rx_complete, rx_wait>>
     ELSE /\ resp_buf' = Append(resp_buf, tok)
          /\ \/ tok.kind \in Ending /\ rx_complete' = TRUE /\ rx_wait' = FALSE
             \/ ~Expected(tok) /\ UNCHANGED <<rx_complete, rx_wait>>
  /\ UNCHANGED <<data_tx_status, rxVars, cut>>

\* Mutant of ForTransmission: an error counts as success.
ForTransmissionAny(tok) ==
  /\ rx_wait /\ data_tx_status = "TX_PENDING"
  /\ resp_buf' = <<tok>>
  /\ data_tx_status' = IF tok.kind \in {"sent", "fail"} THEN "TX_SUCCESS" ELSE data_tx_status
  /\ UNCHANGED <<rx_wait, rx_complete, rxVars, cut>>

\* While data is transmitted only the last nine bytes are kept.
ForTransmission(tok) ==
  /\ rx_wait /\ data_tx_status = "TX_PENDING"
  /\ resp_buf' = <<tok>>
  /\ data_tx_status' = IF tok.kind = "sent" THEN "TX_SUCCESS" ELSE data_tx_status
  /\ UNCHANGED <<rx_wait, rx_complete, rxVars, cut>>

\* The buffer when tok is written where the last one ended; what lies behind
\* stays as it was.
Buffered(tok) ==
  [i \in 1 .. (IF wifi_rx_buf_idx < Len(wifi_rx_buf) THEN Len(wifi_rx_buf)
               ELSE wifi_rx_buf_idx + 1) |->
     IF i = wifi_rx_buf_idx + 1 THEN tok ELSE wifi_rx_buf[i]]

\* Mutant of Count: the last byte is not waited for.
CountEarly(tok) ==
  /\ rx_in_prog
  /\ wifi_rx_buf' = Buffered(tok)
  /\ rx_bytes_recvd' = rx_bytes_recvd + 1
  /\ wifi_rx_buf_full' = (rx_bytes_recvd' >= rx_bytes_expected - 1)
  /\ rx_in_prog' = ~wifi_rx_buf_full'
  /\ wifi_rx_buf_idx' = IF wifi_rx_buf_full' THEN 0 ELSE wifi_rx_buf_idx + 1
  /\ cut' = (cut /\ rx_in_prog')
  /\ UNCHANGED rx_bytes_expected

\* The byte belongs to the message in progress, and may be its last one.
Count(tok) ==
  /\ rx_in_prog
  /\ wifi_rx_buf' = Buffered(tok)
  /\ rx_bytes_recvd' = rx_bytes_recvd + 1
  /\ wifi_rx_buf_full' = (rx_bytes_recvd' = rx_bytes_expected)
  /\ rx_in_prog' = ~wifi_rx_buf_full'
  /\ wifi_rx_buf_idx' = IF wifi_rx_buf_full' THEN 0 ELSE wifi_rx_buf_idx + 1
  /\ cut' = (cut /\ rx_in_prog')
  /\ UNCHANGED rx_bytes_expected

\* The buffer begins with the head of a message.
Begin(tok) ==
  /\ ~rx_in_prog /\ Buffered(tok)[1].kind = "head"
  /\ wifi_rx_buf' = Buffered(tok)
  /\ rx_in_prog' = TRUE /\ rx_bytes_recvd' = 1
  /\ rx_bytes_expected' = Buffered(tok)[1].of[3]
  /\ wifi_rx_buf_idx' = wifi_rx_buf_idx + 1
  /\ UNCHANGED <<wifi_rx_buf_full, cut>>

\* Else a link or unlink is taken out of the buffer, and the end of a line may
\* make it longer than 20 characters, after which it starts again.
Flushed(tok) ==
  /\ wifi_rx_buf_idx > 0 /\ wifi_rx_buf_idx + 1 >= Len(wifi_rx_buf)
  /\ tok.kind \notin {"head", "more"}

Search(tok) ==
  /\ ~rx_in_prog /\ Buffered(tok)[1].kind # "head"
  /\ \/ /\ Buffered(tok)[1].kind = "link"
        /\ wifi_rx_buf' = <<>> /\ wifi_rx_buf_idx' = 0
     \/ /\ Buffered(tok)[1].kind # "link"
        /\ wifi_rx_buf' = Buffered(tok)
        /\ \/ wifi_rx_buf_idx' = wifi_rx_buf_idx + 1
           \/ Flushed(tok) /\ wifi_rx_buf_idx' = 0
  /\ UNCHANGED <<wifi_rx_buf_full, rx_in_prog, rx_bytes_recvd, rx_bytes_expected, cut>>

\* A full buffer starts again, and this byte is lost.
TooMuch ==
  /\ wifi_rx_buf_idx' = 0 /\ cut' = (cut \/ rx_in_prog)
  /\ UNCHANGED <<wifi_rx_buf, wifi_rx_buf_full, rx_in_prog, rx_bytes_recvd, rx_bytes_expected>>

Store(tok) ==
  IF wifi_rx_buf_idx >= WIFI_RX_BUF_SIZE THEN TooMuch
  ELSE Count(tok) \/ Begin(tok) \/ Search(tok)

\* Mutant of ForCore: the flag is not looked at.
ForCoreAnyway(tok) == ~rx_wait /\ Store(tok) /\ UNCHANGED waitVars

\* Data nobody asked for.  It is dropped while the main loop has a message to
\* process.
ForCore(tok) ==
  /\ ~rx_wait
  /\ IF wifi_rx_buf_full THEN UNCHANGED <<rxVars, cut>> ELSE Store(tok)
  /\ UNCHANGED waitVars

Handed == ~wifi_rx_buf_full /\ wifi_rx_buf_full'

UART0_Handler ==
  /\ out # <<>> /\ out' = Tail(out)
  /\ ForCommand(Head(out)) \/ ForTransmission(Head(out)) \/ ForCore(Head(out))
  /\ given' = IF Handed THEN wifi_rx_buf' ELSE given
  /\ UNCHANGED <<todo, news, delivered, timer, pc, callVars, claimed, doubtful>>

-----------------------------------------------------------------------------
(* wifi_send_cmd *)

Call ==
  /\ pc \in {"idle", "process"} /\ back' = pc
  /\ calls < MaxCalls /\ calls' = calls + 1
  /\ timeout' = TIMEOUT /\ answer' = <<>> /\ ended' = 0

Goto(from, to) == pc = from /\ pc' = to

\* The line is taken from the core.
TakeLine == rx_wait' = TRUE /\ cut' = (cut \/ rx_in_prog)

CmdBegin(text) ==
  /\ Call /\ pc' = "cmd_reset"
  /\ req' = <<"cmd", text>> /\ resp_buf' = <<>>
  /\ repeated' = \/ \E i \in DOMAIN todo : todo[i].of = req'
                 \/ \E i \in DOMAIN out : out[i] = Tok("echo", req')
  /\ TakeLine
  /\ UNCHANGED <<chipVars, rx_complete, data_tx_status, rxVars, timer, claimed, doubtful, given>>

CmdReset ==
  /\ Goto("cmd_reset", "cmd_write")
  /\ rx_complete' = FALSE
  /\ UNCHANGED <<chipVars, rx_wait, data_tx_status, resp_buf, rxVars, timer, callVars, histVars>>

Request(data) == [of |-> req, data |-> data, echoed |-> FALSE]

CmdWrite ==
  /\ Goto("cmd_write", "cmd_arm")
  /\ todo' = Append(todo, Request(FALSE))
  /\ UNCHANGED <<out, news, delivered, waitVars, rxVars, timer, callVars, histVars>>

\* The timer is started for a second and the flag set again.
CmdArm ==
  /\ Goto("cmd_arm", "cmd_wait")
  /\ timer' = TRUE /\ TakeLine
  /\ UNCHANGED <<chipVars, rx_complete, data_tx_status, resp_buf, rxVars, callVars,
                 claimed, doubtful, given>>

\* Mutant of CmdWake: the time-out is not counted.
CmdWakeForever ==
  /\ pc = "cmd_wait" /\ ~rx_wait
  /\ timer' = FALSE
  /\ pc' = IF rx_complete THEN "cmd_return" ELSE "cmd_arm"
  /\ UNCHANGED <<chipVars, waitVars, rxVars, callVars, histVars>>

CmdWake ==
  /\ pc = "cmd_wait" /\ ~rx_wait
  /\ timer' = FALSE
  /\ timeout' = IF rx_complete THEN timeout ELSE timeout - 1
  /\ pc' = IF rx_complete \/ timeout' = 0 THEN "cmd_return" ELSE "cmd_arm"
  /\ UNCHANGED <<chipVars, waitVars, rxVars, back, req, answer, ended, calls, repeated, histVars>>

\* Mutant of Answered: the echo is not looked at.
AnsweredAnyhow == Len(resp_buf) > 1

\* The response begins with the echo of the command, and more follows.
Answered == Len(resp_buf) > 1 /\ resp_buf[1] = Tok("echo", req)

\* The response is ended by a zero behind its last byte, which in a full buffer
\* is behind the buffer, and copied for the caller.
CmdReturn ==
  /\ Goto("cmd_return", back)
  /\ ended' = Len(resp_buf)
  /\ answer' = IF Answered THEN Tail(resp_buf) ELSE <<>>
  /\ UNCHANGED <<chipVars, waitVars, rxVars, timer, back, timeout, req, calls, repeated, histVars>>

-----------------------------------------------------------------------------
(* wifi_send_data *)

\* Requests to send are numbered by the call that makes them.
SendBegin ==
  /\ Call /\ pc' = "send_take"
  /\ req' = <<"send", calls'>> /\ repeated' = FALSE
  /\ data_tx_status' = "TX_PENDING"
  /\ doubtful' = IF \/ \E i \in DOMAIN todo : todo[i].data
                    \/ \E i \in DOMAIN out : out[i].kind = "sent"
                 THEN doubtful \cup {req'} ELSE doubtful
  /\ UNCHANGED <<chipVars, rx_wait, rx_complete, resp_buf, rxVars, timer, claimed, given, cut>>

SendTake ==
  /\ Goto("send_take", "send_clear")
  /\ TakeLine
  /\ UNCHANGED <<chipVars, rx_complete, data_tx_status, resp_buf, rxVars, timer, callVars,
                 claimed, doubtful, given>>

\* Both buffers are cleared, the one for the core whoever uses it.
SendClear ==
  /\ Goto("send_clear", "send_write")
  /\ resp_buf' = <<>> /\ wifi_rx_buf' = <<>> /\ wifi_rx_buf_idx' = 0
  /\ cut' = (cut \/ rx_in_prog)
  /\ UNCHANGED <<chipVars, rx_wait, rx_complete, data_tx_status, wifi_rx_buf_full, rx_in_prog,
                 rx_bytes_recvd, rx_bytes_expected, timer, callVars, claimed, doubtful, given>>

SendWrite ==
  /\ Goto("send_write", "send_arm")
  /\ todo' = Append(todo, Request(TRUE))
  /\ UNCHANGED <<out, news, delivered, waitVars, rxVars, timer, callVars, histVars>>

SendArm ==
  /\ Goto("send_arm", "send_wait")
  /\ timer' = TRUE /\ TakeLine
  /\ UNCHANGED <<chipVars, rx_complete, data_tx_status, resp_buf, rxVars, callVars,
                 claimed, doubtful, given>>

SendWake ==
  /\ Goto("send_wait", "send_check")
  /\ ~rx_wait \/ data_tx_status = "TX_SUCCESS"
  /\ timer' = FALSE
  /\ UNCHANGED <<chipVars, waitVars, rxVars, callVars, histVars>>

\* Success, or another turn, or a failure told by what came last.
SendCheck ==
  /\ pc = "send_check"
  /\ IF data_tx_status = "TX_SUCCESS"
       THEN pc' = "send_release" /\ data_tx_status' = "TX_IDLE" /\ UNCHANGED timeout
       ELSE /\ timeout' = timeout - 1
            /\ pc' = IF timeout' = 0 THEN back ELSE "send_arm"
            /\ data_tx_status' = IF timeout' > 0 THEN data_tx_status
                                 ELSE IF resp_buf = <<>> THEN "TX_TIMEOUT"
                                 ELSE IF resp_buf[1].kind = "ready" THEN "TX_ERR_MODULE_RESET"
                                 ELSE "TX_ERROR"
  /\ UNCHANGED <<chipVars, rx_wait, rx_complete, resp_buf, rxVars, timer, back, req, answer,
                 ended, calls, repeated, histVars>>

\* Mutant of SendRelease: the line is not given back.
SendReleaseNothing ==
  /\ Goto("send_release", back)
  /\ claimed' = claimed \cup {req}
  /\ UNCHANGED <<chipVars, waitVars, rxVars, timer, callVars, doubtful, given, cut>>

\* The line is given back and TX_SUCCESS returned.
SendRelease ==
  /\ Goto("send_release", back)
  /\ rx_wait' = FALSE
  /\ claimed' = claimed \cup {req}
  /\ UNCHANGED <<chipVars, rx_complete, data_tx_status, resp_buf, rxVars, timer, callVars,
                 doubtful, given, cut>>

-----------------------------------------------------------------------------
(* The main loop *)

Readable == Len(wifi_rx_buf) > 0 /\ wifi_rx_buf[1].kind = "head"

\* What core_process_wifi_data cannot read it leaves in the buffer.
Ignore ==
  /\ pc = "idle" /\ wifi_rx_buf_full /\ ~Readable
  /\ wifi_rx_buf_full' = FALSE
  /\ UNCHANGED <<chipVars, waitVars, wifi_rx_buf, wifi_rx_buf_idx, rx_in_prog, rx_bytes_recvd,
                 rx_bytes_expected, timer, pc, callVars, histVars>>

\* What it can read makes it send and give commands ...
Process ==
  /\ Goto("idle", "process") /\ wifi_rx_buf_full /\ Readable
  /\ UNCHANGED <<chipVars, waitVars, rxVars, timer, callVars, histVars>>

\* ... and then it clears the buffer, and the main loop the flag.
Release ==
  /\ Goto("process", "idle")
  /\ wifi_rx_buf' = <<>> /\ wifi_rx_buf_full' = FALSE
  /\ UNCHANGED <<chipVars, waitVars, wifi_rx_buf_idx, rx_in_prog, rx_bytes_recvd,
                 rx_bytes_expected, timer, callVars, histVars>>

wifi_send_cmd  == CmdReset \/ CmdWrite \/ CmdArm \/ CmdWake \/ CmdReturn
wifi_send_data == \/ SendTake \/ SendClear \/ SendWrite \/ SendArm
                  \/ SendWake \/ SendCheck \/ SendRelease
Main   == wifi_send_cmd \/ wifi_send_data \/ Process \/ Ignore \/ Release
Module == Echo \/ Answer \/ News

Next ==
  \/ Module
  \/ UART0_Handler \/ TC0_Handler
  \/ \E text \in Texts : CmdBegin(text)
  \/ SendBegin
  \/ Main

\* The timer runs, handlers and the main loop go on; the module need not
\* answer, and the main loop need not make calls.
Spec ==
  /\ Init /\ [][Next]_vars
  /\ WF_vars(UART0_Handler) /\ WF_vars(TC0_Handler) /\ WF_vars(Main)

-----------------------------------------------------------------------------
(* Properties *)

Statuses == {"TX_IDLE", "TX_PENDING", "TX_SUCCESS", "TX_ERROR", "TX_TIMEOUT",
             "TX_ERR_MODULE_RESET"}

\* Type correctness.  Of the bytes that come neither buffer takes more than it
\* has room for; but the zero that ends a response goes one place behind
\* resp_buf, whose places are 0 .. RESP_BUF_SIZE - 1, when the buffer is full.
TypeOK ==
  /\ rx_wait \in BOOLEAN /\ rx_complete \in BOOLEAN /\ data_tx_status \in Statuses
  /\ Len(resp_buf) =< RESP_BUF_SIZE /\ Len(wifi_rx_buf) =< WIFI_RX_BUF_SIZE
  /\ ended \in 0 .. RESP_BUF_SIZE
  /\ wifi_rx_buf_full \in BOOLEAN /\ rx_in_prog \in BOOLEAN
  /\ rx_bytes_recvd \in Nat /\ rx_bytes_expected \in Nat
  /\ timer \in BOOLEAN /\ timeout \in 0 .. TIMEOUT
  /\ wifi_rx_buf_idx \in 0 .. WIFI_RX_BUF_SIZE
  /\ \A s \in claimed \cup delivered \cup doubtful : s[1] = "send" /\ s[2] \in 1 .. calls

\* Outside the two calls, whatever they ran into, the line belongs to the core
\* and the timer is off: data from the net is not taken for an answer.
LineGivenBack ==
  pc \in {"idle", "process"} =>
    ~rx_wait /\ data_tx_status # "TX_PENDING" /\ ~timer

\* The answer a caller gets is one to the command it gave, however late the
\* answers to earlier ones arrive.  The exception is a command given again
\* while it is unanswered: its first echo lets the answers that follow it pass,
\* whatever commands have been given in between.
OwnAnswer ==
  \A i \in DOMAIN answer :
    answer[i].kind \in {"body", "done"} => answer[i].of = req \/ repeated

\* TX_SUCCESS means that the module has sent this very data, unless an earlier
\* transmission was still unanswered when the call began.
SuccessMeansSent == claimed \subseteq delivered \cup doubtful

\* What the core is given begins with one whole message, its bytes in order,
\* unless the reception lost the line or a byte.
WholeUnlessCut ==
  [][Handed /\ ~cut =>
       LET first == wifi_rx_buf'[1].of IN
       \A i \in 1 .. first[3] : /\ i \in DOMAIN wifi_rx_buf'
                                /\ wifi_rx_buf'[i].of = <<"net", first[2], first[3], i>>]_vars

\* A message the core has been given is never altered.  It is cleared by its
\* own processing, at the end or in a transmission it makes; or it is lost to a
\* transmission made outside the processing of messages, as by wifi_init for the
\* console or after a failed one.  Lost is the exception: that not every message
\* is processed.  What core_process_wifi_data begins to read is what it was given.
Processed == Release \/ (back = "process" /\ SendClear)
Lost      == back = "idle" /\ SendClear

MessageHeld ==
  [][/\ wifi_rx_buf_full /\ wifi_rx_buf' # wifi_rx_buf =>
          wifi_rx_buf' = <<>> /\ (Processed \/ Lost)
     /\ Process => wifi_rx_buf = given]_vars

\* Every call ends, whatever the module does.
CallsEnd == pc # "idle" ~> pc = "idle"

\* "we must be out of sync, look for \r\n sequence and flush the buffer": a whole
\* message that the core is given is not followed by what came before the flush.
NothingBehind == [][Handed /\ ~cut => Len(wifi_rx_buf') = wifi_rx_buf'[1].of[3]]_vars
=============================================================================
