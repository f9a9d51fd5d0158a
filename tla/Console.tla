-------------------------------- MODULE Console --------------------------------
(***************************************************************************)
(* The command line on the USB terminal (firmware/src/monitor.c).  The USB *)
(* interrupt collects characters in cmd_buf (core_read_usb) and sets       *)
(* cmd_buf_full at the end of a line; the main loop runs the line in place *)
(* and clears the buffer and then the flag.  While the flag is set the     *)
(* interrupt must leave the buffer alone.  The host sends one character at *)
(* a time.  A host that is paced waits for a command to be done before it  *)
(* sends the next and reads what is printed; any other sends when it likes *)
(* and may stop reading.  software/plug.py is paced by its sleeps, but for *)
(* erase_data, which sends two lines at once.                              *)
(***************************************************************************)
EXTENDS Sequences, Integers

CONSTANTS
  Printable,               \* the characters of a command
  CMD_BUF_SIZE,            \* bytes of cmd_buf, with the final zero
  MaxSent                  \* bound: characters the host sends

ASSUME ConsoleAssumption ==
  /\ CMD_BUF_SIZE \in Nat \ {0} /\ MaxSent \in Nat
  /\ Printable \cap {"BS", "DEL", "NL"} = {}

Chars == Printable \cup {"BS", "DEL", "NL"}

VARIABLES
  rx,                      \* characters received and not read
  notified,                \* whether the USB interrupt runs core_read_usb
  cmd_buf,                 \* the first cmd_buf_idx characters of the buffer
  cmd_buf_full,            \* the flag
  pc,                      \* where the main loop is in its last statement
  paced,                   \* whether the host waits for a command to be done
  sent,                    \* characters sent so far
  line,                    \* the line the host has typed since the last NL
  due                      \* the lines it has ended and that have not been run

vars == <<rx, notified, cmd_buf, cmd_buf_full, pc, paced, sent, line, due>>

Init ==
  /\ rx = <<>> /\ notified = FALSE
  /\ cmd_buf = <<>> /\ cmd_buf_full = FALSE
  /\ pc = "idle" /\ paced \in BOOLEAN
  /\ sent = 0 /\ line = <<>> /\ due = <<>>

-----------------------------------------------------------------------------
(* The host *)

\* Nothing the host has sent is still to be done.
Quiet == due = <<>> /\ rx = <<>> /\ ~notified /\ ~cmd_buf_full /\ pc = "idle"

\* What the operator means by a character: a delete with nothing to delete
\* has no effect as BS and is a character like any other as DEL, and what does
\* not fit is dropped.
Typed(c) ==
  CASE c \in {"BS", "DEL"} /\ line # <<>> -> SubSeq(line, 1, Len(line) - 1)
    [] c = "BS" /\ line = <<>>            -> line
    [] c = "NL"                           -> <<>>
    [] OTHER -> IF Len(line) < CMD_BUF_SIZE - 1 THEN Append(line, c) ELSE line

\* A character arrives and the driver calls core_read_usb.
Send(c) ==
  /\ sent < MaxSent /\ sent' = sent + 1
  /\ paced /\ line = <<>> => Quiet
  /\ rx' = Append(rx, c) /\ notified' = TRUE
  /\ line' = Typed(c)
  /\ due' = IF c = "NL" THEN Append(due, line) ELSE due
  /\ UNCHANGED <<cmd_buf, cmd_buf_full, pc, paced>>

-----------------------------------------------------------------------------
(* The USB interrupt: it runs to its end before the main loop goes on *)

Shorter == SubSeq(cmd_buf, 1, Len(cmd_buf) - 1)

\* The buffer after a character: delete, append while there is room, or ignore.
Edited(c) ==
  IF c \in {"BS", "DEL"} /\ cmd_buf # <<>> THEN Shorter
  ELSE IF c \in Printable \cup {"DEL"} /\ Len(cmd_buf) < CMD_BUF_SIZE - 1 THEN Append(cmd_buf, c)
  ELSE cmd_buf

\* Mutant of ReadChar: the flag is not looked at.
ReadCharAnyway(c) ==
  /\ cmd_buf' = Edited(c)
  /\ cmd_buf_full' = (cmd_buf_full \/ c = "NL")
  /\ UNCHANGED notified

\* Mutant of ReadChar: a full buffer is looked at before the end of the line.
ReadCharFullFirst(c) ==
  \/ /\ cmd_buf_full
     /\ notified' = FALSE
     /\ UNCHANGED <<cmd_buf, cmd_buf_full>>
  \/ /\ ~cmd_buf_full
     /\ cmd_buf' = Edited(c)
     /\ cmd_buf_full' = (c = "NL" /\ Len(cmd_buf) < CMD_BUF_SIZE - 1)
     /\ UNCHANGED notified

\* The new line after the end of a line is printed from the handler itself.  If
\* nobody reads it core_putc gives the terminal up: core_usb_enable clears the
\* line, and then the flag is set, so that an empty line is run.
EchoGivenUp(c) ==
  /\ ~paced /\ ~cmd_buf_full /\ c = "NL"
  /\ cmd_buf' = <<>> /\ cmd_buf_full' = TRUE
  /\ UNCHANGED notified

\* A character read while the flag is set is thrown away and the handler
\* returns; else it is edited into the buffer.
ReadChar(c) ==
  \/ /\ cmd_buf_full
     /\ notified' = FALSE
     /\ UNCHANGED <<cmd_buf, cmd_buf_full>>
  \/ /\ ~cmd_buf_full
     /\ cmd_buf' = Edited(c)
     /\ cmd_buf_full' = (c = "NL")
     /\ UNCHANGED notified

\* One turn of the loop of core_read_usb, or its end.
core_read_usb ==
  /\ notified
  /\ \/ rx # <<>> /\ (ReadChar(Head(rx)) \/ EchoGivenUp(Head(rx))) /\ rx' = Tail(rx)
     \/ rx = <<>> /\ notified' = FALSE /\ UNCHANGED <<rx, cmd_buf, cmd_buf_full>>
  /\ UNCHANGED <<pc, paced, sent, line, due>>

\* The host closes and opens the terminal, or core_putc gives it up as the main
\* loop prints, and core_usb_enable clears the buffer; a paced host reads and
\* closes the terminal when all is done.
core_usb_enable ==
  /\ ~notified /\ (paced => Quiet)
  /\ cmd_buf' = <<>>
  /\ line' = <<>>
  /\ UNCHANGED <<rx, notified, cmd_buf_full, pc, paced, sent, due>>

-----------------------------------------------------------------------------
(* The main loop *)

Main(from, to) == ~notified /\ pc = from /\ pc' = to

\* runcmd finds a command in the buffer and calls it ...
StartCommand ==
  /\ Main("idle", "running") /\ cmd_buf_full
  /\ due' = IF due = <<>> THEN due ELSE Tail(due)
  /\ UNCHANGED <<rx, notified, cmd_buf, cmd_buf_full, paced, sent, line>>

\* ... which uses the words of the buffer until it returns.
EndCommand ==
  /\ Main("running", "clear")
  /\ UNCHANGED <<rx, notified, cmd_buf, cmd_buf_full, paced, sent, line, due>>

\* Mutant of ClearBuffer: cmd_buf_idx is not reset.
ClearNothing ==
  /\ Main("clear", "release")
  /\ UNCHANGED <<rx, notified, cmd_buf, cmd_buf_full, paced, sent, line, due>>

ClearBuffer ==
  /\ Main("clear", "release")
  /\ cmd_buf' = <<>>
  /\ UNCHANGED <<rx, notified, cmd_buf_full, paced, sent, line, due>>

\* After the prompt.
Release ==
  /\ Main("release", "idle")
  /\ cmd_buf_full' = FALSE
  /\ UNCHANGED <<rx, notified, cmd_buf, paced, sent, line, due>>

RunCommand == StartCommand \/ EndCommand \/ ClearBuffer \/ Release

Next ==
  \/ \E c \in Chars : Send(c)
  \/ core_read_usb
  \/ core_usb_enable
  \/ RunCommand

Spec == Init /\ [][Next]_vars /\ WF_vars(core_read_usb) /\ WF_vars(RunCommand)

-----------------------------------------------------------------------------
(* Properties *)

\* With a paced host every line that is run is the line the host has ended, as
\* it meant it, and lines are run in the order they were sent, none twice and
\* none left out.  With any other a line may be lost, or run as an empty one
\* when the terminal is given up at its end.
RanAsSent ==
  [][paced /\ StartCommand => due # <<>> /\ cmd_buf = Head(due)]_vars

\* While a command uses the words of the buffer, only core_usb_enable changes
\* them: no character does, however fast the host sends.
WordsStay == [][pc = "running" /\ cmd_buf' # cmd_buf => core_usb_enable]_vars

\* A line that a paced host has ended is run.
LinesAreRun == paced /\ due # <<>> ~> due = <<>>
=============================================================================
