--------------------------------- MODULE Meter ---------------------------------
(***************************************************************************)
(* The power meter link (firmware/src/wemo.c, and the part of monitor()    *)
(* that uses it).  The meter chip sends frames of FRAME bytes without end; *)
(* UART1_Handler collects them and process_sample parses them into         *)
(* wemo_sample; the main loop copies the sample field by field into the    *)
(* power packet and then calls wemo_read_power, which clears the valid     *)
(* flag and enables the receive interrupt again.                           *)
(*                                                                         *)
(* The interrupt handler preempts the main loop between any two of its     *)
(* statements, and the main loop never preempts the handler: a call of the *)
(* handler is one step, the main loop takes one step per statement that    *)
(* touches wemo_sample, the interrupt enable bit, the clock or the card.   *)
(* The three-byte values of a frame are represented by one byte each.      *)
(*                                                                         *)
(* On a bad checksum the handler writes to the log file, and so enters the *)
(* file system, the clock's bus and the memory pools, whatever the main    *)
(* loop is doing with them.                                                *)
(***************************************************************************)
EXTENDS Integers

CONSTANTS
  FRAME,                   \* bytes of a frame (30)
  BASE,                    \* values of a byte (256)
  SYNC, LENGTH,            \* the first two bytes of a frame (0xAE, 0x1E)
  Readings,                \* the values of the frames the chip sends
  MaxNoise                 \* bound: bytes changed or lost on the line

ASSUME MeterAssumption ==
  /\ FRAME \in Nat /\ FRAME > 3
  /\ BASE \in Nat \ {0}
  /\ SYNC \in 0 .. BASE - 1 /\ LENGTH \in 0 .. BASE - 1
  /\ Readings \subseteq [2 .. FRAME - 2 -> 0 .. BASE - 1] /\ Readings # {}
  /\ MaxNoise \in Nat

Byte   == 0 .. BASE - 1
Place  == 0 .. FRAME - 1             \* places of a frame and of buf
Field  == 2 .. FRAME - 2             \* the places of the values

VARIABLES
  place, reading,          \* the chip: place of the next byte, values it sends
  rhr, rxrdy,              \* UART: the holding register, and whether it is unread
  irq,                     \* whether the RXRDY interrupt is enabled
  buf, buf_idx,            \* UART1_Handler: bytes of the frame so far
  valid, sample,           \* wemo_sample: the valid flag and the values
  pc, field,               \* main loop: next statement, next field to copy
  copied,                  \* main loop: the values copied so far
  accepted,                \* history: the values of the frame last accepted
  logged,                  \* history: whether those values were logged
  raced,                   \* history: they came inside wemo_read_power
  noise                    \* bytes changed or lost so far

chipVars == <<place, reading, noise>>
isrVars  == <<buf, buf_idx, sample, accepted>>
mainVars == <<pc, field, copied>>
vars     == <<chipVars, rhr, rxrdy, irq, isrVars, valid, mainVars, logged, raced>>

Nothing == [f \in Field |-> 0]

\* The plug starts to listen in the middle of any frame.
Init ==
  /\ place \in Place /\ reading \in Readings /\ noise = 0
  /\ rhr = 0 /\ rxrdy = FALSE
  /\ irq = FALSE
  /\ buf = [i \in Place |-> 0] /\ buf_idx = 0
  /\ valid = FALSE /\ sample = Nothing
  /\ pc = "wait" /\ field = 2 /\ copied = Nothing
  /\ accepted = Nothing /\ logged = TRUE /\ raced = FALSE

-----------------------------------------------------------------------------
(* The chip and the UART *)

\* (~checksum)+1 over all bytes of b but the last, in byte arithmetic.
Checksum(b) ==
  LET sum[i \in 0 .. FRAME - 2] == b[i] + (IF i = 0 THEN 0 ELSE sum[i - 1])
  IN  (-sum[FRAME - 2]) % BASE

\* The frame that carries the values v.
FrameOf(v) ==
  LET body == [i \in Place |-> CASE i = 0 -> SYNC [] i = 1 -> LENGTH
                                 [] i \in Field -> v[i] [] OTHER -> 0]
  IN  [body EXCEPT ![FRAME - 1] = Checksum(body)]

NextPlace ==
  /\ place' = (place + 1) % FRAME
  /\ IF place = FRAME - 1 THEN reading' \in Readings ELSE UNCHANGED reading

\* A byte arrives in the holding register, over one that was not read.
Receive(b) ==
  /\ rhr' = b /\ rxrdy' = TRUE
  /\ NextPlace
  /\ UNCHANGED <<irq, isrVars, valid, mainVars, logged, raced>>

\* With the interrupt enabled the last byte was read before this one.
SendByte ==
  /\ ~(irq /\ rxrdy)
  /\ Receive(FrameOf(reading)[place])
  /\ UNCHANGED noise

\* The byte is changed on the line, or an overrun loses it or the last one.
NoisyByte ==
  /\ noise < MaxNoise /\ noise' = noise + 1
  /\ \/ \E b \in Byte : Receive(b)
     \/ NextPlace /\ UNCHANGED <<rhr, rxrdy, irq, isrVars, valid, mainVars, logged, raced>>

-----------------------------------------------------------------------------
(* The interrupt handler *)

\* process_sample accepts b: its header and its checksum are right.
Accepts(b) == b[0] = SYNC /\ b[1] = LENGTH /\ b[FRAME - 1] = Checksum(b)

\* Mutant of ProcessSample: the interrupt stays enabled.
ProcessListening ==
  /\ buf_idx' = 0
  /\ IF Accepts(buf)
       THEN /\ sample' = [f \in Field |-> buf[f]]
            /\ valid' = TRUE
            /\ accepted' = sample' /\ logged' = FALSE
       ELSE UNCHANGED <<sample, valid, accepted, logged>>
  /\ UNCHANGED <<buf, irq>>

\* Mutant of ProcessSample: the index is reset only on success.
ProcessKeepingIndex ==
  /\ IF Accepts(buf)
       THEN /\ sample' = [f \in Field |-> buf[f]]
            /\ valid' = TRUE /\ irq' = FALSE /\ buf_idx' = 0
            /\ accepted' = sample' /\ logged' = FALSE
       ELSE UNCHANGED <<buf_idx, sample, valid, irq, accepted, logged>>
  /\ UNCHANGED buf

\* process_sample on the full buffer; success disables the interrupt.
ProcessSample ==
  /\ buf_idx' = 0
  /\ IF Accepts(buf)
       THEN /\ sample' = [f \in Field |-> buf[f]]
            /\ valid' = TRUE /\ irq' = FALSE
            /\ accepted' = sample' /\ logged' = FALSE
       ELSE UNCHANGED <<sample, valid, irq, accepted, logged>>
  /\ UNCHANGED buf

Store(tmp) ==
  /\ buf' = [buf EXCEPT ![buf_idx] = tmp] /\ buf_idx' = buf_idx + 1
  /\ UNCHANGED <<sample, valid, irq, accepted, logged>>

Skip == buf_idx' = 0 /\ UNCHANGED <<buf, sample, valid, irq, accepted, logged>>

\* The switch of UART1_Handler on the byte tmp.  The byte that finds the
\* buffer full is only the occasion to process it.
HandleByte(tmp) ==
  IF buf_idx = FRAME THEN ProcessSample
  ELSE IF \/ buf_idx = 0 /\ tmp # SYNC
          \/ buf_idx = 1 /\ tmp # LENGTH THEN Skip
  ELSE Store(tmp)

UART1_Handler ==
  /\ irq /\ rxrdy
  /\ rxrdy' = FALSE
  /\ HandleByte(rhr)
  /\ raced' = (raced \/ (pc = "enable" /\ valid'))
  /\ UNCHANGED <<chipVars, rhr, mainVars>>

-----------------------------------------------------------------------------
(* The main loop *)

\* Mutant of CheckSample: the valid flag is not looked at.
CheckNothing ==
  /\ pc = "wait" /\ pc' = "stamp" /\ field' = 2
  /\ UNCHANGED <<chipVars, rhr, rxrdy, irq, isrVars, valid, copied, logged, raced>>

\* sys_tick has changed, and the valid flag is read.  With collect_data off
\* the sample is passed over.
CheckSample ==
  /\ pc = "wait"
  /\ \/ valid /\ pc' = "stamp" /\ field' = 2
     \/ pc' = "clear" /\ UNCHANGED field
  /\ UNCHANGED <<chipVars, rhr, rxrdy, irq, isrVars, valid, copied, logged, raced>>

\* core_log_power_data reads the clock for the first sample of a packet ...
StampPacket ==
  /\ pc = "stamp" /\ pc' = "log"
  /\ UNCHANGED <<chipVars, rhr, rxrdy, irq, isrVars, valid, field, copied, logged, raced>>

\* ... copies one field after the other ...
CopyField ==
  /\ pc = "log"
  /\ copied' = [copied EXCEPT ![field] = sample[field]]
  /\ IF field = FRAME - 2
       THEN pc' = "save" /\ logged' = TRUE /\ UNCHANGED field
       ELSE field' = field + 1 /\ UNCHANGED <<pc, logged>>
  /\ UNCHANGED <<chipVars, rhr, rxrdy, irq, isrVars, valid, raced>>

\* ... and writes to the card what the last sample of a packet calls for.
SavePacket ==
  /\ pc = "save" /\ pc' = "clear"
  /\ UNCHANGED <<chipVars, rhr, rxrdy, irq, isrVars, valid, field, copied, logged, raced>>

\* Mutant of ClearValid: the valid flag is left alone.
ClearNothing ==
  /\ pc = "clear" /\ pc' = "enable"
  /\ raced' = FALSE
  /\ UNCHANGED <<chipVars, rhr, rxrdy, irq, isrVars, valid, field, copied, logged>>

\* wemo_read_power: the valid flag first, the interrupt after it.
ClearValid ==
  /\ pc = "clear" /\ pc' = "enable"
  /\ valid' = FALSE /\ raced' = FALSE
  /\ UNCHANGED <<chipVars, rhr, rxrdy, irq, isrVars, field, copied, logged>>

EnableInterrupt ==
  /\ pc = "enable" /\ pc' = "wait"
  /\ irq' = TRUE
  /\ UNCHANGED <<chipVars, rhr, rxrdy, isrVars, valid, field, copied, logged, raced>>

Main == \/ CheckSample \/ StampPacket \/ CopyField \/ SavePacket
        \/ ClearValid \/ EnableInterrupt
Chip == SendByte \/ NoisyByte

Next == Chip \/ UART1_Handler \/ Main

\* The chip does not stop, an interrupt is served before the next byte, and
\* the main loop keeps coming back to the tick.
Fairness == WF_vars(SendByte) /\ WF_vars(UART1_Handler) /\ WF_vars(Main)

Spec == Init /\ [][Next]_vars /\ Fairness
-----------------------------------------------------------------------------
(* Properties *)

\* A buffer that is being filled starts with the header of a frame, wherever
\* in the stream of bytes the handler was switched on and whatever it has
\* rejected: the header check of process_sample never fails.
HeaderBuffered ==
  /\ buf_idx > 0 => buf[0] = SYNC
  /\ buf_idx > 1 => buf[1] = LENGTH

\* No sample is logged twice: when the main loop starts to log, the sample in
\* wemo_sample has not been logged yet.
LoggedOnce == [][pc = "wait" /\ pc' = "stamp" => ~logged]_vars

\* wemo.c, in the handler: "success, stop listening to the UART": while a
\* valid sample waits for the main loop the handler is switched off, unless it
\* was accepted between the two statements of wemo_read_power.
ValidMeansSilent == valid /\ ~raced => ~irq

\* What the main loop logs is one sample, not fields of two that arrived one
\* after the other, unless the first of them was accepted there.
TornOnlyByRace ==
  [][pc = "log" /\ pc' = "save" /\ ~raced => copied' = accepted]_vars

\* While core_log_power_data uses the clock and the card for a packet, the
\* handler is not at the end of a frame, where it may log: FatFs, which is not
\* re-entrant, is not entered twice there, again unless wemo_read_power was raced.
PacketAloneOnCard ==
  [][buf_idx = FRAME /\ buf_idx' # FRAME /\ pc \in {"stamp", "log", "save"} => raced]_vars

\* A frame with no byte like the sync byte behind its header.
Clean(v) == \A i \in Place \ {0} : FrameOf(v)[i] # SYNC

\* Whatever part of a frame the handler is switched on in, and whatever noise
\* there was, a valid sample comes again and again, provided that clean frames
\* do.  They must: if every checksum is like the sync byte, the handler takes it
\* for one, rejects the true one behind it as a length, and never gets in step.
SamplesKeepComing == []<>Clean(reading) => []<>valid
=============================================================================
