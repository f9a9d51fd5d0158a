------------------------------ MODULE MeterProofs ------------------------------
(***************************************************************************)
(* Proofs about the power meter link, for frames of any length, any        *)
(* readings and any amount of noise.  The checksum is never expanded: no   *)
(* proof depends on which frames process_sample accepts.                   *)
(***************************************************************************)
EXTENDS Meter, TLAPS

\* The part of the types the proofs need: what is a function on the places of
\* a frame or on the fields, and where the two indices point.
Shape ==
  /\ buf = [i \in Place |-> buf[i]] /\ buf_idx \in 0 .. FRAME
  /\ sample = [f \in Field |-> sample[f]]
  /\ copied = [f \in Field |-> copied[f]]
  /\ accepted = [f \in Field |-> accepted[f]]
  /\ field \in Field
  /\ pc \in {"wait", "stamp", "log", "save", "clear", "enable"}

\* An EXCEPT on a function keeps its domain.
LEMMA ExceptKeepsShape ==
  ASSUME NEW S, NEW g, g = [x \in S |-> g[x]], NEW a, NEW v
  PROVE  [g EXCEPT ![a] = v] = [x \in S |-> [g EXCEPT ![a] = v][x]]
  OBVIOUS

(***************************************************************************)
(* The frame buffer.                                                       *)
(***************************************************************************)

BufferInv == Shape /\ HeaderBuffered

LEMMA BufferInit == Init => BufferInv
  BY MeterAssumption DEF Init, BufferInv, Shape, HeaderBuffered, Nothing, Field

LEMMA HandlerBuffer ==
  ASSUME BufferInv, NEW tmp, HandleByte(tmp)
  PROVE  /\ buf' = [i \in Place |-> buf'[i]] /\ buf_idx' \in 0 .. FRAME
         /\ sample' = [f \in Field |-> sample'[f]]
         /\ accepted' = [f \in Field |-> accepted'[f]]
         /\ HeaderBuffered'
  <1> USE DEF BufferInv, Shape
  <1>1. CASE ProcessSample
    <2>1. buf' = buf /\ buf_idx' = 0
      BY <1>1 DEF ProcessSample
    <2>2. /\ sample' = [f \in Field |-> sample'[f]]
          /\ accepted' = [f \in Field |-> accepted'[f]]
      BY <1>1 DEF ProcessSample
    <2> QED
      BY <2>1, <2>2, MeterAssumption DEF HeaderBuffered
  <1>2. CASE Skip
    BY <1>2, MeterAssumption DEF Skip, HeaderBuffered
  <1>3. CASE /\ Store(tmp) /\ buf_idx # FRAME
             /\ buf_idx = 0 => tmp = SYNC
             /\ buf_idx = 1 => tmp = LENGTH
    <2>1. buf' = [buf EXCEPT ![buf_idx] = tmp] /\ buf_idx' = buf_idx + 1
      BY <1>3 DEF Store
    <2>2. buf_idx' \in 0 .. FRAME
      BY <1>3, <2>1, MeterAssumption
    <2>3. HeaderBuffered'
      <3>1. DOMAIN buf = Place /\ 0 \in Place /\ 1 \in Place
        BY MeterAssumption DEF Place
      <3>2. CASE buf_idx = 0
        BY <1>3, <2>1, <3>1, <3>2 DEF HeaderBuffered
      <3>3. CASE buf_idx = 1
        BY <1>3, <2>1, <3>1, <3>3 DEF HeaderBuffered
      <3>4. CASE buf_idx > 1
        <4>1. buf'[0] = buf[0] /\ buf'[1] = buf[1]
          BY <2>1, <3>1, <3>4
        <4> QED
          BY <2>1, <3>4, <4>1 DEF HeaderBuffered
      <3> QED
        BY <3>2, <3>3, <3>4
    <2>4. buf' = [i \in Place |-> buf'[i]]
      BY <2>1, ExceptKeepsShape
    <2> QED
      BY <1>3, <2>2, <2>3, <2>4 DEF Store
  <1> QED
    BY <1>1, <1>2, <1>3 DEF HandleByte

LEMMA BufferStep == BufferInv /\ [Next]_vars => BufferInv'
  <1> SUFFICES ASSUME BufferInv, [Next]_vars PROVE BufferInv'
    OBVIOUS
  <1> USE DEF BufferInv
  <1>1. CASE Chip
    BY <1>1 DEF Chip, SendByte, NoisyByte, Receive, NextPlace, isrVars, mainVars,
                Shape, HeaderBuffered
  <1>2. CASE UART1_Handler
    BY <1>2, HandlerBuffer DEF UART1_Handler, mainVars, Shape
  <1>3. CASE CheckSample
    BY <1>3, MeterAssumption
    DEF CheckSample, isrVars, Shape, HeaderBuffered, Field
  <1>4. CASE CopyField
    <2>1. copied' = [copied EXCEPT ![field] = sample[field]]
      BY <1>4 DEF CopyField
    <2>2. copied' = [f \in Field |-> copied'[f]]
      BY <2>1, ExceptKeepsShape DEF Shape
    <2>3. field' \in Field /\ pc' \in {"log", "save"}
      BY <1>4, MeterAssumption DEF CopyField, Shape, Field
    <2> QED
      BY <1>4, <2>2, <2>3 DEF CopyField, isrVars, Shape, HeaderBuffered
  <1>5. CASE ClearValid
    BY <1>5 DEF ClearValid, isrVars, Shape, HeaderBuffered
  <1>6. CASE EnableInterrupt
    BY <1>6 DEF EnableInterrupt, isrVars, Shape, HeaderBuffered
  <1>7. CASE StampPacket \/ SavePacket
    BY <1>7 DEF StampPacket, SavePacket, isrVars, Shape, HeaderBuffered
  <1>8. CASE UNCHANGED vars
    BY <1>8 DEF vars, isrVars, mainVars, Shape, HeaderBuffered
  <1> QED
    BY <1>1, <1>2, <1>3, <1>4, <1>5, <1>6, <1>7, <1>8 DEF Next, Main

\* A buffer being filled holds a frame's header, so the header check of
\* process_sample never fails.
THEOREM Header == Spec => []HeaderBuffered
  <1>1. Spec => []BufferInv
    BY BufferInit, BufferStep, PTL DEF Spec
  <1> QED
    BY <1>1, PTL DEF BufferInv

(***************************************************************************)
(* No sample is logged twice.                                              *)
(***************************************************************************)

\* Between the end of one logging and the next clearing of the valid flag the
\* main loop does not look at the flag.
OnceInv == pc \in {"wait", "enable"} /\ valid => ~logged

LEMMA OnceStep == OnceInv /\ [Next]_vars => OnceInv'
  <1> SUFFICES ASSUME OnceInv, [Next]_vars PROVE OnceInv'
    OBVIOUS
  <1>1. CASE Chip
    BY <1>1 DEF Chip, SendByte, NoisyByte, Receive, mainVars, OnceInv
  <1>2. CASE UART1_Handler
    BY <1>2 DEF UART1_Handler, HandleByte, ProcessSample, Skip, Store, mainVars, OnceInv
  <1>3. CASE Main
    BY <1>3 DEF Main, CheckSample, StampPacket, CopyField, SavePacket, ClearValid,
                EnableInterrupt, OnceInv
  <1>4. CASE UNCHANGED vars
    BY <1>4 DEF vars, mainVars, OnceInv
  <1> QED
    BY <1>1, <1>2, <1>3, <1>4 DEF Next

\* When the main loop starts to log a sample, that sample was not logged yet.
THEOREM Once == Spec => LoggedOnce
  <1>1. Init => OnceInv
    BY DEF Init, OnceInv
  <1>2. OnceInv /\ [Next]_vars => [pc = "wait" /\ pc' = "stamp" => ~logged]_vars
    BY DEF Next, Chip, SendByte, NoisyByte, Receive, UART1_Handler, Main,
           CheckSample, StampPacket, CopyField, SavePacket, ClearValid, EnableInterrupt, mainVars, OnceInv
  <1> QED
    BY <1>1, <1>2, OnceStep, PTL DEF Spec, LoggedOnce

(***************************************************************************)
(* The handshake between the handler and the main loop, and what is left   *)
(* of it after a frame was accepted inside wemo_read_power.                *)
(***************************************************************************)

Logging == {"stamp", "log", "save"}

Handshake ==
  /\ valid => sample = accepted
  /\ valid /\ ~raced => ~irq
  /\ pc \in Logging /\ ~raced => valid
  /\ pc = "stamp" => field = 2
  /\ pc = "log" /\ ~raced => \A f \in Field : f < field => copied[f] = sample[f]
  /\ pc = "enable" /\ valid => raced

LEMMA HandshakeStep == Shape /\ Handshake /\ [Next]_vars => Handshake'
  <1> SUFFICES ASSUME Shape, Handshake, [Next]_vars PROVE Handshake'
    OBVIOUS
  <1> USE DEF Logging
  <1>1. CASE Chip
    BY <1>1 DEF Chip, SendByte, NoisyByte, Receive, isrVars, mainVars, Handshake
  <1>2. CASE UART1_Handler
    <2>1. /\ UNCHANGED mainVars /\ irq
          /\ raced' = (raced \/ (pc = "enable" /\ valid'))
      BY <1>2 DEF UART1_Handler
    <2>2. ~raced' => ~raced /\ ~valid /\ pc \notin Logging
      BY <2>1 DEF Handshake
    <2>3. \/ valid' /\ ~irq' /\ sample' = accepted'
          \/ UNCHANGED <<valid, irq, sample, accepted>>
      BY <1>2 DEF UART1_Handler, HandleByte, ProcessSample, Skip, Store
    <2>4. (pc' = "enable" /\ valid' => raced') /\ (pc' = "stamp" => field' = 2)
      BY <2>1 DEF mainVars, Handshake
    <2>5. (valid' => sample' = accepted') /\ (valid' /\ ~raced' => ~irq')
      BY <2>2, <2>3 DEF Handshake
    <2>6. ~(pc' \in Logging /\ ~raced')
      BY <2>1, <2>2 DEF mainVars
    <2> QED
      BY <2>4, <2>5, <2>6 DEF Handshake
  <1>3. CASE CheckSample
    BY <1>3 DEF CheckSample, isrVars, Handshake
  <1>4. CASE StampPacket
    <2>1. field = 2 /\ \A f \in Field : ~(f < 2)
      BY <1>4, MeterAssumption DEF StampPacket, Handshake, Field
    <2> QED
      BY <1>4, <2>1 DEF StampPacket, isrVars, Handshake
  <1>5. CASE CopyField
    <2>1. /\ valid' = valid /\ irq' = irq /\ sample' = sample /\ accepted' = accepted
          /\ raced' = raced
          /\ pc = "log" /\ pc' \in {"log", "save"}
          /\ copied' = [copied EXCEPT ![field] = sample[field]]
          /\ pc' = "log" => field' = field + 1
      BY <1>5 DEF CopyField, isrVars
    <2>2. ASSUME pc' = "log", ~raced, NEW f \in Field, f < field'
          PROVE  copied'[f] = sample[f]
      <3>1. f = field \/ f < field
        BY <2>1, <2>2, MeterAssumption DEF Shape, Field
      <3>2. f \in DOMAIN copied
        BY DEF Shape
      <3> QED
        BY <2>1, <2>2, <3>1, <3>2 DEF Handshake
    <2> QED
      BY <2>1, <2>2 DEF Handshake
  <1>6. CASE SavePacket
    BY <1>6 DEF SavePacket, isrVars, Handshake
  <1>7. CASE ClearValid
    BY <1>7 DEF ClearValid, isrVars, Handshake
  <1>8. CASE EnableInterrupt
    BY <1>8 DEF EnableInterrupt, isrVars, Handshake
  <1>9. CASE UNCHANGED vars
    BY <1>9 DEF vars, isrVars, mainVars, Handshake
  <1> QED
    BY <1>1, <1>2, <1>3, <1>4, <1>5, <1>6, <1>7, <1>8, <1>9 DEF Next, Main

LEMMA HandshakeAlways == Spec => [](Shape /\ Handshake)
  <1>1. Init => Handshake
    BY DEF Init, Handshake, Logging
  <1>2. Shape /\ Handshake /\ [Next]_vars => Handshake'
    BY HandshakeStep
  <1>3. Spec => []BufferInv
    BY BufferInit, BufferStep, PTL DEF Spec
  <1> QED
    BY <1>1, <1>2, <1>3, PTL DEF Spec, BufferInv

\* While a valid sample waits the handler is switched off, unless the sample
\* came inside wemo_read_power.
THEOREM Silent == Spec => []ValidMeansSilent
  <1>1. Handshake => ValidMeansSilent
    BY DEF Handshake, ValidMeansSilent
  <1>2. Spec => [](Shape /\ Handshake)
    BY HandshakeAlways
  <1> QED
    BY <1>1, <1>2, PTL

\* What the main loop logs is one sample, unless it came inside wemo_read_power.
THEOREM NotTorn == Spec => TornOnlyByRace
  <1> DEFINE Whole == pc = "log" /\ pc' = "save" /\ ~raced => copied' = accepted
  <1>1. Shape /\ Shape' /\ Handshake /\ [Next]_vars => [Whole]_vars
    <2> SUFFICES ASSUME Shape, Shape', Handshake, Next, pc = "log", pc' = "save", ~raced
                 PROVE  copied' = accepted
      OBVIOUS
    <2>1. CopyField
      BY DEF Next, Chip, SendByte, NoisyByte, Receive, UART1_Handler, Main,
             CheckSample, StampPacket, SavePacket, ClearValid, EnableInterrupt, mainVars
    <2>2. /\ field = FRAME - 2
          /\ copied' = [copied EXCEPT ![field] = sample[field]]
      BY <2>1 DEF CopyField
    <2>3. ASSUME NEW f \in Field PROVE copied'[f] = sample[f]
      <3>1. f = field \/ f < field
        BY <2>2, MeterAssumption DEF Field
      <3>2. f \in DOMAIN copied
        BY DEF Shape
      <3> QED
        BY <2>2, <3>1, <3>2 DEF Handshake
    <2>4. copied' = [f \in Field |-> copied'[f]] /\ sample = [f \in Field |-> sample[f]]
      BY DEF Shape
    <2> QED
      BY <2>3, <2>4 DEF Handshake, Logging
  <1>2. Spec => [](Shape /\ Handshake)
    BY HandshakeAlways
  <1> QED
    BY <1>1, <1>2, PTL DEF Spec, TornOnlyByRace

\* While core_log_power_data works on a packet the handler is not at the end of a
\* frame, where it may enter the file system, unless wemo_read_power was raced.
THEOREM AloneOnCard == Spec => PacketAloneOnCard
  <1> DEFINE Alone == buf_idx = FRAME /\ buf_idx' # FRAME /\ pc \in Logging => raced
  <1>1. Handshake /\ [Next]_vars => [Alone]_vars
    <2> SUFFICES ASSUME Handshake, Next, buf_idx' # buf_idx, pc \in Logging
                 PROVE  raced
      BY DEF Logging
    <2>1. UART1_Handler
      BY DEF Next, Chip, SendByte, NoisyByte, Receive, Main, CheckSample, StampPacket,
             CopyField, SavePacket, ClearValid, EnableInterrupt, isrVars
    <2> QED
      BY <2>1 DEF UART1_Handler, Handshake
  <1>2. Spec => [](Shape /\ Handshake)
    BY HandshakeAlways
  <1> QED
    BY <1>1, <1>2, PTL DEF Spec, PacketAloneOnCard, Logging
=============================================================================
