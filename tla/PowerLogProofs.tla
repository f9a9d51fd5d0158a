---------------------------- MODULE PowerLogProofs ----------------------------
(***************************************************************************)
(* Proofs about the power log, for packets of any size and any number of   *)
(* tolerated drops.                                                        *)
(***************************************************************************)
EXTENDS PowerLog, SequenceTheorems, TLAPS

(***************************************************************************)
(* Lemmas about the operators of the model.                                *)
(***************************************************************************)

\* Storing a sample in the current packet keeps it a packet.
LEMMA StoredType ==
  ASSUME TypeOK, NEW s \in Nat
  PROVE  /\ Stored(s) \in Packet
         /\ [Stored(s) EXCEPT !.status = READY] \in Packet
         /\ [[Stored(s) EXCEPT !.status = READY] EXCEPT !.status = EMPTY] \in Packet
         /\ Copy([Stored(s) EXCEPT !.status = READY]) \in PacketCopy
  <1>1. pkts[cur] \in Packet
    BY DEF TypeOK
  <1>2. [pkts[cur].data EXCEPT ![wemo_sample_idx] = s] \in [Index -> Nat]
    BY <1>1 DEF Packet, TypeOK
  <1>3. Stored(s) \in Packet
    BY <1>1, <1>2 DEF Stored, Packet, Status, FILLING
  <1> QED
    BY <1>3 DEF Packet, Status, READY, EMPTY, Copy, PacketCopy

\* What reaches the data file of packet copy c.
LEMMA FirstPartsType ==
  ASSUME NEW c \in PacketCopy, NEW n \in 0 .. PARTS
  PROVE  /\ FirstParts(c, n) \in Seq(Part)
         /\ Len(FirstParts(c, n)) = n
         /\ \A j \in 1 .. n : FirstParts(c, n)[j] = [packet |-> c, part |-> j]
  <1>1. n \in Nat /\ 1 .. n \subseteq 1 .. PARTS
    BY PowerLogAssumption
  <1>2. \A j \in 1 .. n : [packet |-> c, part |-> j] \in Part
    BY <1>1 DEF Part
  <1> QED
    BY <1>1, <1>2 DEF FirstParts

\* The data file after it: the old file, then the parts of c.
LEMMA AppendedFile ==
  ASSUME TypeOK, NEW c \in PacketCopy, NEW n \in 0 .. PARTS, AppendToFile(c, n)
  PROVE  /\ disk' \in Seq(Part) /\ Len(disk') = Len(disk) + n
         /\ Len(disk) \in Nat /\ n \in Nat
         /\ \A k \in 1 .. Len(disk) : disk'[k] = disk[k]
         /\ \A j \in 1 .. n : disk'[Len(disk) + j] = [packet |-> c, part |-> j]
         /\ aligned' \in 0 .. Len(disk')
  <1> DEFINE q == FirstParts(c, n)
  <1>1. /\ disk \in Seq(Part) /\ Len(disk) \in Nat /\ n \in Nat
        /\ aligned \in 0 .. Len(disk)
    BY PowerLogAssumption DEF TypeOK
  <1>2. /\ q \in Seq(Part) /\ Len(q) = n
        /\ \A j \in 1 .. n : q[j] = [packet |-> c, part |-> j]
    BY FirstPartsType
  <1>3. disk' = disk \o q
    BY DEF AppendToFile
  <1> HIDE DEF q
  <1>4. /\ disk' \in Seq(Part) /\ Len(disk') = Len(disk) + n
        /\ \A k \in 1 .. Len(disk) : disk'[k] = disk[k]
        /\ \A j \in 1 .. n : disk'[Len(disk) + j] = q[j]
    <2>1. /\ disk' \in Seq(Part) /\ Len(disk') = Len(disk) + n
          /\ \A i \in 1 .. Len(disk) + n :
               disk'[i] = IF i =< Len(disk) THEN disk[i] ELSE q[i - Len(disk)]
      BY <1>1, <1>2, <1>3, ConcatProperties
    <2>2. \A j \in 1 .. n : /\ Len(disk) + j \in 1 .. Len(disk) + n
                           /\ ~(Len(disk) + j =< Len(disk))
                           /\ (Len(disk) + j) - Len(disk) = j
      BY <1>1
    <2>3. \A k \in 1 .. Len(disk) : k \in 1 .. Len(disk) + n /\ k =< Len(disk)
      BY <1>1
    <2> QED
      BY <2>1, <2>2, <2>3
  <1>5. aligned' \in 0 .. Len(disk')
    BY <1>1, <1>4, PowerLogAssumption DEF AppendToFile
  <1> QED
    BY <1>1, <1>2, <1>4, <1>5

\* A cleared packet is a packet.
LEMMA ClearedType == ClearedPacket \in Packet
  BY PowerLogAssumption DEF ClearedPacket, Packet, Status, EMPTY, Index

(***************************************************************************)
(* Type correctness.                                                       *)
(***************************************************************************)

LEMMA LogPowerDataType ==
  ASSUME TypeOK, NEW s \in Nat, NEW n \in 0 .. PARTS,
         core_log_power_data(s, n)
  PROVE  /\ pkts' \in [{0, 1} -> Packet]
         /\ cur' \in {0, 1} /\ tx' \in {0, 1}
         /\ wemo_sample_idx' \in Index /\ dropped_pkt_count' \in Nat
         /\ disk' \in Seq(Part) /\ aligned' \in 0 .. Len(disk') /\ relay' \in BOOLEAN
         /\ lost_in_row' \in Nat /\ quiet' \in Nat
  <1>0. 0 \in Index
    BY PowerLogAssumption DEF Index
  <1>1. CASE Refused
    BY <1>1 DEF core_log_power_data, TypeOK, bufVars, fileVars, histVars
  <1>2. CASE ~Refused /\ pkts[cur].status = READY
    BY <1>0, <1>2 DEF core_log_power_data, RetrySwap, TypeOK, bufVars, fileVars, histVars
  <1>3. CASE /\ ~Refused /\ pkts[cur].status # READY
             /\ wemo_sample_idx + 1 = PKT_SIZE
    <2> DEFINE full == [Stored(s) EXCEPT !.status = READY]
    <2>1. CompletePacket(s, n)
      BY <1>3 DEF core_log_power_data
    <2>2. disk' \in Seq(Part) /\ aligned' \in 0 .. Len(disk')
      <3>1. Copy(full) \in PacketCopy
        BY StoredType
      <3>2. AppendToFile(Copy(full), n)
        BY <2>1 DEF CompletePacket
      <3> HIDE DEF full
      <3> QED
        BY <3>1, <3>2, AppendedFile
    <2>3. full \in Packet /\ [full EXCEPT !.status = EMPTY] \in Packet
      BY StoredType
    <2>4. /\ OfferPacket(full) \/ DropPacket(full)
          /\ wemo_sample_idx' = 0 /\ quiet' = quiet + 1
      BY <2>1 DEF CompletePacket
    <2> HIDE DEF full
    <2>5. CASE OfferPacket(full)
      BY <1>0, <2>2, <2>3, <2>4, <2>5 DEF OfferPacket, TypeOK
    <2>6. CASE DropPacket(full)
      <3>1. pkts' \in [{0, 1} -> Packet] /\ cur' \in {0, 1} /\ tx' \in {0, 1}
        BY <2>3, <2>6 DEF DropPacket, TypeOK
      <3>2. dropped_pkt_count' \in Nat /\ lost_in_row' \in Nat
        BY <2>6 DEF DropPacket, TypeOK
      <3>3. quiet' \in Nat
        BY <2>4 DEF TypeOK
      <3>4. relay' \in BOOLEAN
        BY <2>6 DEF DropPacket
      <3> QED
        BY <1>0, <2>2, <2>4, <3>1, <3>2, <3>3, <3>4
    <2> QED
      BY <2>4, <2>5, <2>6
  <1>4. CASE /\ ~Refused /\ pkts[cur].status # READY
             /\ wemo_sample_idx + 1 # PKT_SIZE
    <2>1. StoreSample(s)
      BY <1>4 DEF core_log_power_data
    <2>2. wemo_sample_idx + 1 \in Index
      BY <1>4, PowerLogAssumption DEF TypeOK, Index
    <2> QED
      BY <2>1, <2>2, StoredType DEF StoreSample, TypeOK, bufVars, fileVars, histVars
  <1> QED
    BY <1>1, <1>2, <1>3, <1>4

LEMMA TypeInit == Init => TypeOK
  BY ClearedType, PowerLogAssumption DEF Init, TypeOK, Index

LEMMA TypeStep == TypeOK /\ [Next]_vars => TypeOK'
  <1> SUFFICES ASSUME TypeOK, [Next]_vars PROVE TypeOK'
    OBVIOUS
  <1>1. ASSUME NEW n \in 0 .. PARTS, LoggingTick(n) PROVE TypeOK'
    <2>1. now + 1 \in Nat
      BY DEF TypeOK
    <2> QED
      BY <1>1, <2>1, LogPowerDataType DEF LoggingTick, modeVars, TypeOK
  <1>2. CASE IdleTick
    BY <1>2 DEF IdleTick, TypeOK, modeVars, bufVars, fileVars, histVars
  <1>3. ASSUME NEW b \in BOOLEAN, mon_collect_data(b) PROVE TypeOK'
    BY <1>3 DEF mon_collect_data, TypeOK, bufVars, fileVars, histVars
  <1>4. ASSUME NEW on \in BOOLEAN, SetRelay(on) PROVE TypeOK'
    BY <1>4 DEF SetRelay, TypeOK, modeVars, bufVars, fileVars
  <1>5. ASSUME NEW result \in SendResults, NEW got \in BOOLEAN,
               SendPacket(result, got)
        PROVE TypeOK'
    <2>1. Copy(pkts[tx]) \in PacketCopy
      BY DEF TypeOK, Packet, Copy, PacketCopy
    <2>2. delivered' \in Seq(PacketCopy)
      BY <1>5, <2>1 DEF SendPacket, TypeOK
    <2>3. pkts' \in [{0, 1} -> Packet]
      BY <1>5, ClearedType DEF SendPacket, TypeOK
    <2> QED
      BY <1>5, <2>2, <2>3 DEF SendPacket, TypeOK, modeVars, fileVars
  <1>6. CASE OtherCommand
    BY <1>6 DEF OtherCommand, TypeOK, modeVars, bufVars, fileVars
  <1>7. CASE EraseData
    BY <1>7 DEF EraseData, TypeOK, modeVars, bufVars, histVars
  <1>8. CASE Restart
    <2>1. 0 \in Index
      BY PowerLogAssumption DEF Index
    <2>2. pkts' \in [{0, 1} -> Packet]
      BY <1>8, ClearedType DEF Restart
    <2>3. collect' \in BOOLEAN /\ calibrate' \in BOOLEAN /\ relay' \in BOOLEAN
      BY <1>8 DEF Restart
    <2>4. /\ now' \in Nat /\ delivered' \in Seq(PacketCopy)
          /\ disk' \in Seq(Part) /\ aligned' \in 0 .. Len(disk')
      BY <1>8 DEF Restart, TypeOK, fileVars
    <2>5. /\ cur' \in {0, 1} /\ tx' \in {0, 1} /\ restarts' \in Nat
          /\ wemo_sample_idx' \in Index /\ dropped_pkt_count' \in Nat
          /\ lost_in_row' \in Nat /\ quiet' \in Nat
      BY <1>8, <2>1 DEF Restart, TypeOK
    <2> QED
      BY <2>2, <2>3, <2>4, <2>5 DEF TypeOK
  <1>10. ASSUME NEW start \in BOOLEAN, mon_calibrate(start) PROVE TypeOK'
    BY <1>10 DEF mon_calibrate, TypeOK, bufVars, fileVars
  <1>11. ASSUME NEW on \in BOOLEAN, PWM_Handler(on) PROVE TypeOK'
    BY <1>11 DEF PWM_Handler, TypeOK, modeVars, bufVars, fileVars, histVars
  <1>9. CASE UNCHANGED vars
    BY <1>9 DEF vars, TypeOK, modeVars, bufVars, fileVars, histVars
  <1> QED
    BY <1>1, <1>2, <1>3, <1>4, <1>5, <1>6, <1>7, <1>8, <1>9, <1>10, <1>11 DEF Next

\* The variables of the power log keep their types, the index its range.
THEOREM TypeCorrect == Spec => []TypeOK
  BY TypeInit, TypeStep, PTL DEF Spec

(***************************************************************************)
(* The ping-pong buffer and the watchdog.  Neither PingPong nor            *)
(* UnattendedLoadGoesOff needs the contents of the packets: the inductive  *)
(* invariant joins PingPong with the bounds of WatchdogArmed.              *)
(***************************************************************************)

IInv == TypeOK /\ PingPong /\ WatchdogArmed

\* With PingPong, a logged sample either joins the packet or completes it.
LEMMA LogIsStoreOrComplete ==
  ASSUME TypeOK, PingPong, NEW s \in Nat, NEW n \in 0 .. PARTS,
         core_log_power_data(s, n)
  PROVE  \/ StoreSample(s) /\ wemo_sample_idx + 1 # PKT_SIZE
         \/ CompletePacket(s, n) /\ wemo_sample_idx + 1 = PKT_SIZE
  BY DEF core_log_power_data, PingPong, Refused, EMPTY, FILLING, READY, TX_IN_PROG

LEMMA StoredStatus ==
  ASSUME TypeOK, NEW s \in Nat
  PROVE  /\ Stored(s).status = FILLING
         /\ [Stored(s) EXCEPT !.status = READY].status = READY
  BY StoredType DEF Stored, Packet

LEMMA InvInit == Init => IInv
  <1> SUFFICES ASSUME Init PROVE PingPong /\ WatchdogArmed
    BY TypeInit DEF IInv
  <1> QED
    BY PowerLogAssumption
    DEF Init, PingPong, WatchdogArmed, ClearedPacket, EMPTY, FILLING, READY

LEMMA LogPowerDataInv ==
  ASSUME IInv, TypeOK', calibrate' = calibrate, NEW s \in Nat, NEW n \in 0 .. PARTS,
         core_log_power_data(s, n)
  PROVE  PingPong' /\ WatchdogArmed'
  <1> USE DEF IInv
  <1>1. CASE StoreSample(s) /\ wemo_sample_idx + 1 # PKT_SIZE
    <2>1. Stored(s).status = FILLING /\ Stored(s) \in Packet
      BY StoredStatus, StoredType
    <2>2. /\ pkts' = [pkts EXCEPT ![cur] = Stored(s)]
          /\ wemo_sample_idx' = wemo_sample_idx + 1 /\ cur' = cur /\ tx' = tx
          /\ dropped_pkt_count' = dropped_pkt_count /\ relay' = relay
          /\ lost_in_row' = lost_in_row /\ quiet' = quiet
      BY <1>1 DEF StoreSample, histVars
    <2>3. PingPong'
      BY <2>1, <2>2 DEF PingPong, TypeOK, Index, EMPTY, FILLING, READY
    <2>4. pkts'[tx'] = pkts[tx]
      BY <2>2 DEF PingPong, TypeOK
    <2> QED
      BY <2>2, <2>3, <2>4 DEF WatchdogArmed
  <1>2. CASE CompletePacket(s, n)
    <2> DEFINE full == [Stored(s) EXCEPT !.status = READY]
    <2>1. full.status = READY /\ full \in Packet
      BY StoredStatus, StoredType
    <2>2. /\ IF pkts[tx].status = EMPTY THEN OfferPacket(full) ELSE DropPacket(full)
          /\ wemo_sample_idx' = 0 /\ quiet' = quiet + 1
      BY <1>2 DEF CompletePacket
    <2> HIDE DEF full
    <2>3. CASE pkts[tx].status = EMPTY
      BY <2>1, <2>2, <2>3, PowerLogAssumption
      DEF OfferPacket, PingPong, WatchdogArmed, TypeOK, EMPTY, READY
    <2>4. CASE pkts[tx].status # EMPTY
      <3>1. DropPacket(full) /\ pkts[tx].status = READY
        BY <2>2, <2>4 DEF PingPong
      <3>2. pkts'[tx'] = pkts[tx] /\ pkts'[cur'].status = EMPTY /\ cur' # tx'
        BY <2>1, <3>1 DEF DropPacket, PingPong, TypeOK, Packet
      <3>3. PingPong'
        BY <2>2, <3>1, <3>2 DEF PingPong
      <3>4. WatchdogArmed'
        <4>1. /\ pkts'[tx'].status # EMPTY
              /\ lost_in_row' = lost_in_row + 1 /\ quiet' = quiet + 1
          BY <2>2, <3>1, <3>2 DEF DropPacket, EMPTY, READY
        <4>2. CASE WatchdogDue
          <5>1. ~relay' /\ dropped_pkt_count' = 0
            BY <3>1, <4>2 DEF DropPacket
          <5> QED
            BY <4>1, <5>1, PowerLogAssumption DEF WatchdogArmed, TypeOK
        <4>3. CASE ~WatchdogDue
          <5>1. (relay' => relay) /\ dropped_pkt_count' = dropped_pkt_count + 1
            BY <3>1, <4>3 DEF DropPacket
          <5> QED
            BY <4>1, <4>3, <5>1, PowerLogAssumption
            DEF WatchdogDue, WatchdogArmed, TypeOK
        <4> QED
          BY <4>2, <4>3
      <3> QED
        BY <3>3, <3>4
    <2> QED
      BY <2>3, <2>4
  <1> QED
    BY <1>1, <1>2, LogIsStoreOrComplete

LEMMA InvStep == IInv /\ [Next]_vars => IInv'
  <1> SUFFICES ASSUME IInv, [Next]_vars PROVE PingPong' /\ WatchdogArmed'
    BY TypeStep DEF IInv
  <1>0. TypeOK'
    BY TypeStep DEF IInv
  <1> USE DEF IInv
  <1>1. ASSUME NEW n \in 0 .. PARTS, LoggingTick(n)
        PROVE PingPong' /\ WatchdogArmed'
    <2>1. now + 1 \in Nat /\ core_log_power_data(now + 1, n) /\ calibrate' = calibrate
      BY <1>1 DEF LoggingTick, TypeOK, modeVars
    <2> QED
      BY <1>0, <2>1, LogPowerDataInv
  <1>2. CASE IdleTick
    BY <1>2 DEF IdleTick, PingPong, WatchdogArmed, modeVars, bufVars, histVars
  <1>3. ASSUME NEW b \in BOOLEAN, mon_collect_data(b)
        PROVE PingPong' /\ WatchdogArmed'
    BY <1>3 DEF mon_collect_data, PingPong, WatchdogArmed, modeVars, bufVars, histVars
  <1>4. ASSUME NEW on \in BOOLEAN, SetRelay(on)
        PROVE PingPong' /\ WatchdogArmed'
    BY <1>4 DEF SetRelay, PingPong, WatchdogArmed, modeVars, bufVars, TypeOK
  <1>5. ASSUME NEW result \in SendResults, NEW got \in BOOLEAN,
               SendPacket(result, got)
        PROVE PingPong' /\ WatchdogArmed'
    <2>1. pkts' = pkts \/ pkts' = [pkts EXCEPT ![tx] = ClearedPacket]
      BY <1>5 DEF SendPacket
    <2>2. /\ pkts'[cur] = pkts[cur]
          /\ pkts'[tx].status \in {EMPTY, READY}
      BY <2>1 DEF PingPong, TypeOK, ClearedPacket
    <2>3. /\ cur' = cur /\ tx' = tx /\ quiet' = 0
          /\ wemo_sample_idx' = wemo_sample_idx
          /\ dropped_pkt_count' = dropped_pkt_count
          /\ lost_in_row' = lost_in_row
      BY <1>5 DEF SendPacket
    <2> QED
      BY <2>2, <2>3 DEF PingPong, WatchdogArmed, TypeOK
  <1>6. CASE OtherCommand
    BY <1>6 DEF OtherCommand, PingPong, WatchdogArmed, modeVars, bufVars, TypeOK
  <1>7. CASE EraseData
    BY <1>7 DEF EraseData, PingPong, WatchdogArmed, modeVars, bufVars, histVars
  <1>8. CASE Restart
    BY <1>8, PowerLogAssumption
    DEF Restart, PingPong, WatchdogArmed, ClearedPacket, EMPTY
  <1>10. ASSUME NEW start \in BOOLEAN, mon_calibrate(start)
         PROVE  PingPong' /\ WatchdogArmed'
    BY <1>10 DEF mon_calibrate, PingPong, WatchdogArmed, bufVars, TypeOK
  <1>11. ASSUME NEW on \in BOOLEAN, PWM_Handler(on)
         PROVE  PingPong' /\ WatchdogArmed'
    BY <1>11 DEF PWM_Handler, PingPong, WatchdogArmed, modeVars, bufVars, histVars
  <1>9. CASE UNCHANGED vars
    BY <1>9 DEF vars, PingPong, WatchdogArmed, modeVars, bufVars, histVars
  <1> QED
    BY <1>1, <1>2, <1>3, <1>4, <1>5, <1>6, <1>7, <1>8, <1>9, <1>10, <1>11 DEF Next

\* IInv holds in every reachable state.
THEOREM Invariant == Spec => []IInv
  BY InvInit, InvStep, PTL DEF Spec

\* The error cases of core_log_power_data are never taken.
THEOREM PingPongAlways == Spec => []PingPong
  BY Invariant, PTL DEF IInv

\* Unless a calibration runs, a load nobody commands goes off within
\* MAX_DROPPED_PACKETS + 3 packets.
THEOREM UnattendedLoad == Spec => []UnattendedLoadGoesOff
  <1>1. IInv => UnattendedLoadGoesOff
    BY PowerLogAssumption
    DEF IInv, TypeOK, WatchdogArmed, UnattendedLoadGoesOff
  <1> QED
    BY <1>1, Invariant, PTL

(***************************************************************************)
(* What a step may not do.                                                 *)
(***************************************************************************)

\* Only a request of the client or a restart disturbs the packet on offer.
THEOREM OfferStays == Spec => OfferKept
  <1> DEFINE Kept == pkts[tx].status = READY /\ pkts'[tx'] # pkts[tx] =>
                       Restart \/ \E result \in SendResults, got \in BOOLEAN :
                                    SendPacket(result, got)
  <1>1. IInv /\ [Next]_vars => [Kept]_vars
    <2> SUFFICES ASSUME IInv, Next, pkts[tx].status = READY,
                        pkts'[tx'] # pkts[tx], ~Restart,
                        ~\E result \in SendResults, got \in BOOLEAN :
                            SendPacket(result, got)
                 PROVE  FALSE
      OBVIOUS
    <2>1. ASSUME NEW n \in 0 .. PARTS, LoggingTick(n) PROVE FALSE
      <3>1. now + 1 \in Nat /\ core_log_power_data(now + 1, n)
        BY <2>1 DEF LoggingTick, TypeOK, IInv
      <3>2. CASE StoreSample(now + 1)
        BY <3>2 DEF StoreSample, IInv, PingPong, TypeOK
      <3>3. CASE CompletePacket(now + 1, n)
        <4> DEFINE full == [Stored(now + 1) EXCEPT !.status = READY]
        <4>1. DropPacket(full)
          BY <3>3 DEF CompletePacket, EMPTY, READY
        <4> HIDE DEF full
        <4> QED
          BY <4>1 DEF DropPacket, IInv, PingPong, TypeOK
      <3> QED
        BY <3>1, <3>2, <3>3, LogIsStoreOrComplete DEF IInv
    <2>2. CASE IdleTick
      BY <2>2 DEF IdleTick, bufVars
    <2>3. ASSUME NEW b \in BOOLEAN, mon_collect_data(b) PROVE FALSE
      BY <2>3 DEF mon_collect_data, bufVars
    <2>4. ASSUME NEW on \in BOOLEAN, SetRelay(on) PROVE FALSE
      BY <2>4 DEF SetRelay, bufVars
    <2>5. CASE OtherCommand \/ EraseData
      BY <2>5 DEF OtherCommand, EraseData, bufVars
    <2>6. ASSUME NEW b \in BOOLEAN, mon_calibrate(b) \/ PWM_Handler(b) PROVE FALSE
      BY <2>6 DEF mon_calibrate, PWM_Handler, bufVars
    <2> QED
      BY <2>1, <2>2, <2>3, <2>4, <2>5, <2>6 DEF Next
  <1> QED
    BY <1>1, Invariant, PTL DEF Spec, OfferKept

\* Outside a calibration the firmware switches the load off by itself only after
\* more than MAX_DROPPED_PACKETS + 1 drops in a row, with a packet still on offer.
THEOREM LoadOff == Spec => LoadOffOnlyWhenLost
  <1> DEFINE Justified ==
        relay /\ ~relay' =>
          \/ SetRelay(FALSE) \/ Restart \/ PWM_Handler(FALSE)
          \/ lost_in_row' > MAX_DROPPED_PACKETS + 1 /\ pkts'[tx'].status = READY
  <1>1. IInv /\ [Next]_vars => [Justified]_vars
    <2> SUFFICES ASSUME IInv, Next, relay, ~relay', ~SetRelay(FALSE), ~Restart,
                        ~PWM_Handler(FALSE)
                 PROVE  /\ lost_in_row' > MAX_DROPPED_PACKETS + 1
                        /\ pkts'[tx'].status = READY
      OBVIOUS
    <2>1. ASSUME NEW n \in 0 .. PARTS, LoggingTick(n)
          PROVE  /\ lost_in_row' > MAX_DROPPED_PACKETS + 1
                 /\ pkts'[tx'].status = READY
      <3>1. now + 1 \in Nat /\ core_log_power_data(now + 1, n)
        BY <2>1 DEF LoggingTick, TypeOK, IInv
      <3>2. CASE StoreSample(now + 1)
        BY <3>2 DEF StoreSample
      <3>3. CASE CompletePacket(now + 1, n)
        <4> DEFINE full == [Stored(now + 1) EXCEPT !.status = READY]
        <4>1. DropPacket(full) /\ pkts[tx].status = READY
          BY <3>3 DEF CompletePacket, OfferPacket, IInv, PingPong
        <4> HIDE DEF full
        <4>2. WatchdogDue /\ lost_in_row' = lost_in_row + 1
          BY <4>1 DEF DropPacket
        <4>3. lost_in_row' > MAX_DROPPED_PACKETS + 1
          BY <4>2, PowerLogAssumption DEF WatchdogDue, WatchdogArmed, IInv, TypeOK
        <4>4. pkts'[tx'].status = READY
          BY <4>1 DEF DropPacket, IInv, PingPong, TypeOK
        <4> QED
          BY <4>3, <4>4
      <3> QED
        BY <3>1, <3>2, <3>3, LogIsStoreOrComplete DEF IInv
    <2>2. ~IdleTick /\ ~OtherCommand /\ ~EraseData
      BY DEF IdleTick, OtherCommand, EraseData
    <2>3. \A b \in BOOLEAN : ~mon_collect_data(b)
      BY DEF mon_collect_data
    <2>4. \A on \in BOOLEAN : ~SetRelay(on)
      BY DEF SetRelay
    <2>5. \A result \in SendResults, got \in BOOLEAN : ~SendPacket(result, got)
      BY DEF SendPacket
    <2>6. \A b \in BOOLEAN : ~mon_calibrate(b) /\ ~PWM_Handler(b)
      BY DEF mon_calibrate, PWM_Handler
    <2> QED
      BY <2>1, <2>2, <2>3, <2>4, <2>5, <2>6 DEF Next
  <1> QED
    BY <1>1, Invariant, PTL DEF Spec, LoadOffOnlyWhenLost

(***************************************************************************)
(* The power log implements the mailbox.                                   *)
(***************************************************************************)

\* The samples 0 .. n - 1 of packet data d, followed by s in place n.
LEMMA AppendSample ==
  ASSUME NEW n \in Index, NEW d \in [Index -> Nat], NEW s \in Nat
  PROVE  /\ Len([i \in 1 .. n |-> d[i - 1]]) = n
         /\ Append([i \in 1 .. n |-> d[i - 1]], s)
              = [i \in 1 .. n + 1 |-> [d EXCEPT ![n] = s][i - 1]]
  <1> DEFINE q == [i \in 1 .. n |-> d[i - 1]]
             r == [i \in 1 .. n + 1 |-> [d EXCEPT ![n] = s][i - 1]]
  <1>0. n \in Nat /\ Index = 0 .. PKT_SIZE - 1
    BY PowerLogAssumption DEF Index
  <1>1. q \in Seq(Nat) /\ Len(q) = n
    <2>1. \A i \in 1 .. n : i - 1 \in Index
      BY <1>0, PowerLogAssumption
    <2>2. \A i \in 1 .. n : d[i - 1] \in Nat
      BY <2>1
    <2> QED
      BY <1>0, <2>2
  <1>2. r \in Seq(Nat) /\ Len(r) = n + 1
    <2>1. [d EXCEPT ![n] = s] \in [Index -> Nat]
      OBVIOUS
    <2>2. \A i \in 1 .. n + 1 : i - 1 \in Index
      BY <1>0, PowerLogAssumption
    <2>3. \A i \in 1 .. n + 1 : [d EXCEPT ![n] = s][i - 1] \in Nat
      BY <2>1, <2>2
    <2> QED
      BY <1>0, <2>3
  <1>3. \A i \in 1 .. n + 1 : r[i] = IF i = n + 1 THEN s ELSE q[i]
    <2>1. r[n + 1] = s
      BY <1>0
    <2>2. \A i \in 1 .. n : i - 1 \in Index /\ i - 1 # n
      BY <1>0, PowerLogAssumption
    <2>3. \A i \in 1 .. n : r[i] = q[i]
      BY <1>0, <2>2
    <2>4. \A i \in 1 .. n + 1 : i # n + 1 => i \in 1 .. n
      BY <1>0
    <2> HIDE DEF q, r
    <2> QED
      BY <2>1, <2>3, <2>4
  <1> HIDE DEF q, r
  <1>4. /\ Append(q, s) \in Seq(Nat) /\ Len(Append(q, s)) = n + 1
        /\ \A i \in 1 .. n : Append(q, s)[i] = q[i]
        /\ Append(q, s)[n + 1] = s
    BY <1>0, <1>1, AppendProperties
  <1>5. \A i \in 1 .. n + 1 : Append(q, s)[i] = r[i]
    BY <1>0, <1>3, <1>4
  <1>6. Append(q, s) = r
    BY <1>0, <1>2, <1>4, <1>5
  <1> QED
    BY <1>1, <1>6 DEF q, r

LEMMA MailboxInitLemma == Init => Mailbox!MailboxInit
  <1> SUFFICES ASSUME Init PROVE Mailbox!MailboxInit
    OBVIOUS
  <1>1. Filling = << >>
    BY DEF Init, Filling
  <1>2. OnOffer = << >>
    BY DEF Init, OnOffer, ClearedPacket, EMPTY, READY
  <1> QED
    BY <1>1, <1>2 DEF Init, Mailbox!MailboxInit, Mailbox!NoPacket

\* With the packet array, the pointers and the index unchanged, so is the mailbox.
LEMMA SameMailbox ==
  ASSUME UNCHANGED <<pkts, cur, tx, wemo_sample_idx>>
  PROVE  Filling' = Filling /\ OnOffer' = OnOffer
  BY DEF Filling, OnOffer

LEMMA MailboxStore ==
  ASSUME IInv, now' = now + 1, StoreSample(now + 1),
         wemo_sample_idx + 1 # PKT_SIZE
  PROVE  Mailbox!Gather
  <1> USE DEF IInv
  <1>1. /\ now + 1 \in Nat /\ wemo_sample_idx \in Index
        /\ pkts[cur].data \in [Index -> Nat] /\ pkts[cur] \in Packet
    BY DEF TypeOK, Packet
  <1>2. /\ pkts'[cur'].data = [pkts[cur].data EXCEPT ![wemo_sample_idx] = now + 1]
        /\ wemo_sample_idx' = wemo_sample_idx + 1
    BY DEF StoreSample, Stored, TypeOK
  <1>3. Filling' = Append(Filling, now + 1) /\ Len(Filling) = wemo_sample_idx
    <2> DEFINE d == pkts[cur].data
               q == [i \in 1 .. wemo_sample_idx |-> d[i - 1]]
    <2>1. /\ Len(q) = wemo_sample_idx
          /\ Append(q, now + 1) = [i \in 1 .. wemo_sample_idx + 1 |->
                                     [d EXCEPT ![wemo_sample_idx] = now + 1][i - 1]]
      BY ONLY <1>1, AppendSample
    <2>2. Filling = q
      BY DEF Filling
    <2>3. Filling' = [i \in 1 .. wemo_sample_idx + 1 |->
                        [d EXCEPT ![wemo_sample_idx] = now + 1][i - 1]]
      BY <1>2 DEF Filling
    <2> QED
      BY <2>1, <2>2, <2>3
  <1>4. OnOffer' = OnOffer
    BY DEF StoreSample, OnOffer, PingPong, TypeOK
  <1>5. Len(Filling) + 1 < PKT_SIZE
    BY <1>1, <1>3, PowerLogAssumption DEF Index
  <1> QED
    BY <1>3, <1>4, <1>5 DEF Mailbox!Gather

LEMMA MailboxComplete ==
  ASSUME IInv, now' = now + 1, NEW n \in 0 .. PARTS,
         CompletePacket(now + 1, n), wemo_sample_idx + 1 = PKT_SIZE
  PROVE  Mailbox!Finish
  <1> USE DEF IInv
  <1> DEFINE full == [Stored(now + 1) EXCEPT !.status = READY]
  <1>1. /\ now + 1 \in Nat /\ wemo_sample_idx \in Index
        /\ pkts[cur].data \in [Index -> Nat] /\ pkts[cur] \in Packet
    BY DEF TypeOK, Packet
  <1>2. /\ full.data = [pkts[cur].data EXCEPT ![wemo_sample_idx] = now + 1]
        /\ full.status = READY
    BY <1>1, StoredStatus DEF Stored
  <1>3. /\ Append(Filling, now + 1) = [i \in 1 .. PKT_SIZE |-> full.data[i - 1]]
        /\ Len(Filling) = wemo_sample_idx
    <2> DEFINE d == pkts[cur].data
               q == [i \in 1 .. wemo_sample_idx |-> d[i - 1]]
    <2>1. /\ Len(q) = wemo_sample_idx
          /\ Append(q, now + 1) = [i \in 1 .. wemo_sample_idx + 1 |->
                                     [d EXCEPT ![wemo_sample_idx] = now + 1][i - 1]]
      BY ONLY <1>1, AppendSample
    <2>2. Filling = q
      BY DEF Filling
    <2>3. full.data = [d EXCEPT ![wemo_sample_idx] = now + 1]
      BY <1>2
    <2> HIDE DEF full
    <2> QED
      BY <2>1, <2>2, <2>3
  <1>4. /\ IF pkts[tx].status = EMPTY THEN OfferPacket(full) ELSE DropPacket(full)
        /\ wemo_sample_idx' = 0
    BY DEF CompletePacket
  <1>5. Filling' = << >>
    BY <1>4 DEF Filling
  <1>6. full \in Packet
    BY <1>1, StoredType
  <1> HIDE DEF full
  <1>7. CASE pkts[tx].status = EMPTY
    <2>1. OnOffer = << >>
      BY <1>7 DEF OnOffer, EMPTY, READY
    <2>2. pkts'[tx'] = full
      BY <1>4, <1>7 DEF OfferPacket, TypeOK
    <2>3. OnOffer' = Append(Filling, now + 1)
      BY <1>2, <1>3, <2>2 DEF OnOffer
    <2> QED
      BY <1>3, <1>5, <2>1, <2>3 DEF Mailbox!Finish, Mailbox!NoPacket
  <1>8. CASE pkts[tx].status # EMPTY
    <2>1. pkts[tx].status = READY
      BY <1>8 DEF PingPong
    <2>2. pkts'[tx'] = pkts[tx]
      BY <1>4, <1>8 DEF DropPacket, PingPong, TypeOK
    <2>3. OnOffer' = OnOffer
      BY <2>2 DEF OnOffer
    <2>4. OnOffer # << >>
      <3>1. OnOffer = [i \in 1 .. PKT_SIZE |-> pkts[tx].data[i - 1]]
        BY <2>1 DEF OnOffer
      <3>2. 1 \in DOMAIN OnOffer /\ 1 \notin DOMAIN << >>
        BY <3>1, PowerLogAssumption
      <3> QED
        BY <3>2
    <2> QED
      BY <1>3, <1>5, <2>3, <2>4 DEF Mailbox!Finish, Mailbox!NoPacket
  <1> QED
    BY <1>7, <1>8

LEMMA MailboxSend ==
  ASSUME IInv, NEW result \in SendResults, NEW got \in BOOLEAN,
         SendPacket(result, got)
  PROVE  Mailbox!Take \/ UNCHANGED Mailbox!mailboxVars
  <1> USE DEF IInv
  <1>1. CASE pkts' = pkts
    BY <1>1, SameMailbox DEF SendPacket, Mailbox!mailboxVars
  <1>2. CASE pkts' = [pkts EXCEPT ![tx] = ClearedPacket]
    <2>1. /\ cur' = cur /\ tx' = tx /\ wemo_sample_idx' = wemo_sample_idx
          /\ now' = now /\ pkts[tx].status = READY
      BY DEF SendPacket
    <2>2. pkts'[cur] = pkts[cur] /\ pkts'[tx].status = EMPTY
      BY <1>2 DEF PingPong, TypeOK, ClearedPacket
    <2>3. Filling' = Filling
      BY <2>1, <2>2 DEF Filling
    <2>4. OnOffer' = << >>
      BY <2>1, <2>2 DEF OnOffer, EMPTY, READY
    <2>5. OnOffer # << >>
      <3>1. OnOffer = [i \in 1 .. PKT_SIZE |-> pkts[tx].data[i - 1]]
        BY <2>1 DEF OnOffer
      <3>2. 1 \in DOMAIN OnOffer /\ 1 \notin DOMAIN << >>
        BY <3>1, PowerLogAssumption
      <3> QED
        BY <3>2
    <2> QED
      BY <2>1, <2>3, <2>4, <2>5 DEF Mailbox!Take, Mailbox!NoPacket
  <1> QED
    BY <1>1, <1>2 DEF SendPacket

LEMMA MailboxRestart ==
  ASSUME Restart
  PROVE  Mailbox!Forget
  <1>1. Filling' = << >>
    BY DEF Restart, Filling
  <1>2. OnOffer' = << >>
    BY DEF Restart, OnOffer, ClearedPacket, EMPTY, READY
  <1> QED
    BY <1>1, <1>2 DEF Restart, Mailbox!Forget, Mailbox!NoPacket

LEMMA MailboxStep ==
  IInv /\ [Next]_vars => [Mailbox!MailboxNext]_(Mailbox!mailboxVars)
  <1> SUFFICES ASSUME IInv, [Next]_vars
               PROVE  Mailbox!MailboxNext \/ UNCHANGED Mailbox!mailboxVars
    OBVIOUS
  <1>1. ASSUME NEW n \in 0 .. PARTS, LoggingTick(n)
        PROVE  Mailbox!MailboxNext
    <2>1. /\ now' = now + 1 /\ now + 1 \in Nat
          /\ core_log_power_data(now + 1, n)
      BY <1>1 DEF LoggingTick, IInv, TypeOK
    <2> QED
      BY <2>1, LogIsStoreOrComplete, MailboxStore, MailboxComplete
      DEF IInv, Mailbox!MailboxNext
  <1>2. CASE IdleTick
    <2>1. Mailbox!Pass
      BY <1>2, SameMailbox DEF IdleTick, bufVars, Mailbox!Pass
    <2> QED
      BY <2>1 DEF Mailbox!MailboxNext
  <1>3. ASSUME NEW b \in BOOLEAN, mon_collect_data(b)
        PROVE  UNCHANGED Mailbox!mailboxVars
    BY <1>3, SameMailbox DEF mon_collect_data, bufVars, Mailbox!mailboxVars
  <1>4. ASSUME NEW on \in BOOLEAN, SetRelay(on)
        PROVE  UNCHANGED Mailbox!mailboxVars
    BY <1>4, SameMailbox DEF SetRelay, bufVars, Mailbox!mailboxVars
  <1>9. ASSUME NEW b \in BOOLEAN, mon_calibrate(b) \/ PWM_Handler(b)
        PROVE  UNCHANGED Mailbox!mailboxVars
    BY <1>9, SameMailbox DEF mon_calibrate, PWM_Handler, bufVars, Mailbox!mailboxVars
  <1>5. ASSUME NEW result \in SendResults, NEW got \in BOOLEAN,
               SendPacket(result, got)
        PROVE  Mailbox!MailboxNext \/ UNCHANGED Mailbox!mailboxVars
    BY <1>5, MailboxSend DEF Mailbox!MailboxNext
  <1>6. CASE OtherCommand \/ EraseData
    BY <1>6, SameMailbox DEF OtherCommand, EraseData, bufVars, Mailbox!mailboxVars
  <1>7. CASE Restart
    BY <1>7, MailboxRestart DEF Mailbox!MailboxNext
  <1>8. CASE UNCHANGED vars
    BY <1>8, SameMailbox DEF vars, bufVars, Mailbox!mailboxVars
  <1> QED
    BY <1>1, <1>2, <1>3, <1>4, <1>5, <1>6, <1>7, <1>8, <1>9 DEF Next

\* The two packets and their pointers behave as the mailbox the client sees.
THEOREM Refinement == Spec => ImplementsMailbox
  BY MailboxInitLemma, MailboxStep, Invariant, PTL
  DEF Spec, ImplementsMailbox, Mailbox!MailboxSpec

(***************************************************************************)
(* What the packets hold.  The three invariants about samples are one      *)
(* argument: whatever has been kept or sent ends no later than now, and    *)
(* the packet being filled begins after all of it, so that it can follow.  *)
(***************************************************************************)

\* q ends before the packet being filled begins, if that has begun.
Older(q) == Last(q) =< now /\ (wemo_sample_idx > 0 => Last(q) < pkts[cur].stamp)

\* The packet being filled.
FillingFresh ==
  /\ Ordered(pkts[cur], wemo_sample_idx)
  /\ \A i \in 0 .. wemo_sample_idx - 1 : pkts[cur].data[i] =< now

\* The packet on offer.
OfferFresh ==
  pkts[tx].status = READY => Ordered(pkts[tx], PKT_SIZE) /\ Older(pkts[tx])

\* The data file.
DiskFresh ==
  /\ \A k \in DOMAIN disk :
       Ordered(disk[k].packet, PKT_SIZE) /\ Older(disk[k].packet)
  /\ DiskInOrder

\* The client: the packet on offer is the one received last or follows it.
ClientFresh ==
  /\ \A k \in DOMAIN delivered : Ordered(delivered[k], PKT_SIZE) /\ Older(delivered[k])
  /\ DeliveredInOrder
  /\ pkts[tx].status = READY /\ delivered # << >> =>
       \/ delivered[Len(delivered)] = Copy(pkts[tx])
       \/ Last(delivered[Len(delivered)]) < pkts[tx].stamp

Fresh == FillingFresh /\ OfferFresh /\ DiskFresh /\ ClientFresh

FInv == IInv /\ Fresh

LEMMA FreshInit == Init => Fresh
  <1> SUFFICES ASSUME Init PROVE Fresh
    OBVIOUS
  <1>1. Ordered(pkts[cur], wemo_sample_idx) /\ wemo_sample_idx = 0
    BY DEF Init, Ordered
  <1>2. pkts[tx].status # READY
    BY DEF Init, ClearedPacket, EMPTY, READY
  <1>3. disk = << >> /\ aligned = 0 /\ delivered = << >>
    BY DEF Init
  <1> QED
    BY <1>1, <1>2, <1>3
    DEF Fresh, FillingFresh, OfferFresh, DiskFresh, ClientFresh, DiskInOrder, DeliveredInOrder

\* A sample newer than all others, stored in its place, keeps the packet in order.
LEMMA StoredOrdered ==
  ASSUME TypeOK, PingPong, FillingFresh
  PROVE  /\ Ordered(Stored(now + 1), wemo_sample_idx + 1)
         /\ \A i \in 0 .. wemo_sample_idx : Stored(now + 1).data[i] =< now + 1
         /\ Stored(now + 1).data[wemo_sample_idx] = now + 1
         /\ Stored(now + 1).stamp = IF wemo_sample_idx = 0 THEN now + 1 ELSE pkts[cur].stamp
  <1> DEFINE n == wemo_sample_idx
             d == pkts[cur].data
             e == Stored(now + 1).data
  <1>1. /\ n \in Nat /\ n < PKT_SIZE /\ now \in Nat /\ PKT_SIZE \in Nat /\ Index = 0 .. PKT_SIZE - 1
        /\ d \in [Index -> Nat] /\ pkts[cur].stamp \in Nat
    BY PowerLogAssumption DEF TypeOK, Packet, Index
  <1>2. e = [d EXCEPT ![n] = now + 1]
    BY DEF Stored
  <1>3. e[n] = now + 1
    BY <1>1, <1>2
  <1>4. \A i \in 0 .. n - 1 : e[i] = d[i] /\ d[i] \in Nat
    BY <1>1, <1>2
  <1>5. Stored(now + 1).stamp = IF n = 0 THEN now + 1 ELSE pkts[cur].stamp
    BY DEF Stored, PingPong, EMPTY, FILLING
  <1>6. \A i \in 0 .. n - 1 : d[i] =< now
    BY DEF FillingFresh
  <1>7. /\ n > 0 => d[0] = pkts[cur].stamp /\ pkts[cur].stamp > 0
        /\ \A i \in 1 .. n - 1 : d[i - 1] < d[i]
    BY DEF FillingFresh, Ordered
  <1> DEFINE p == Stored(now + 1)
  <1>8. /\ p.data[0] = p.stamp /\ p.stamp > 0
    <2>1. CASE n = 0
      BY <1>1, <1>3, <1>5, <2>1
    <2>2. CASE n > 0
      BY <1>1, <1>4, <1>5, <1>7, <2>2
    <2> QED
      BY <1>1, <2>1, <2>2
  <1>9. \A i \in 1 .. n : e[i - 1] < e[i]
    <2> TAKE i \in 1 .. n
    <2>1. CASE i = n
      <3>1. n - 1 \in 0 .. n - 1
        BY <1>1, <2>1
      <3> HIDE DEF d, e
      <3> QED
        BY <1>1, <1>3, <1>4, <1>6, <2>1, <3>1
    <2>2. CASE i # n
      <3>1. i \in 1 .. n - 1 /\ i \in 0 .. n - 1 /\ i - 1 \in 0 .. n - 1
        BY <1>1, <2>2
      <3> HIDE DEF d, e
      <3> QED
        BY <1>4, <1>7, <3>1
    <2> QED
      BY <2>1, <2>2
  <1>10. Ordered(p, n + 1)
    BY <1>1, <1>8, <1>9 DEF Ordered
  <1>11. \A i \in 0 .. n : e[i] =< now + 1
    <2> HIDE DEF d, e
    <2> QED
      BY <1>1, <1>3, <1>4, <1>6
  <1> QED
    BY <1>3, <1>5, <1>10, <1>11

\* What every step does to the packet being filled: it begins at a time of its
\* own, or goes on.
BeginsLater ==
  /\ now =< now'
  /\ wemo_sample_idx' > 0 =>
       \/ wemo_sample_idx > 0 /\ pkts'[cur'].stamp = pkts[cur].stamp
       \/ pkts'[cur'].stamp > now

LEMMA LastType ==
  ASSUME NEW q \in Packet \cup PacketCopy
  PROVE  Last(q) \in Nat
  <1>1. PKT_SIZE - 1 \in Index /\ q.data \in [Index -> Nat]
    BY PowerLogAssumption DEF Index, Packet, PacketCopy
  <1> QED
    BY <1>1 DEF Last

\* So what is older than it stays older.
LEMMA OlderStays ==
  ASSUME TypeOK, TypeOK', BeginsLater, NEW q \in Packet \cup PacketCopy, Older(q)
  PROVE  Last(q) =< now' /\ (wemo_sample_idx' > 0 => Last(q) < pkts'[cur'].stamp)
  <1>1. /\ now \in Nat /\ now' \in Nat /\ wemo_sample_idx \in Nat /\ wemo_sample_idx' \in Nat
        /\ pkts[cur].stamp \in Nat /\ pkts'[cur'].stamp \in Nat
    <2>1. pkts[cur] \in Packet /\ pkts'[cur'] \in Packet
      BY DEF TypeOK
    <2> QED
      BY <2>1, PowerLogAssumption DEF TypeOK, Packet, Index
  <1> QED
    BY <1>1, LastType DEF Older, BeginsLater

LEMMA DiskStays ==
  ASSUME TypeOK, TypeOK', BeginsLater, DiskFresh,
         UNCHANGED fileVars \/ (disk' = << >> /\ aligned' = 0)
  PROVE  DiskFresh'
  <1>1. CASE UNCHANGED fileVars
    <2>0. \A k \in DOMAIN disk : disk[k] \in Part
      BY DEF TypeOK
    <2>1. \A k \in DOMAIN disk : disk[k].packet \in PacketCopy
      BY <2>0 DEF Part
    <2>2. \A k \in DOMAIN disk' : Older(disk[k].packet)'
      BY <1>1, <2>1, OlderStays DEF DiskFresh, Older, fileVars
    <2> QED
      BY <1>1, <2>2
      DEF DiskFresh, DiskInOrder, Follows, FollowsWhole, Ordered, Last, fileVars
  <1>2. CASE disk' = << >> /\ aligned' = 0
    BY <1>2 DEF DiskFresh, DiskInOrder
  <1> QED
    BY <1>1, <1>2

LEMMA OfferFreshStays ==
  ASSUME TypeOK, TypeOK', BeginsLater, OfferFresh,
         pkts'[tx'].status = READY => pkts'[tx'] = pkts[tx]
  PROVE  OfferFresh'
  <1> SUFFICES ASSUME pkts'[tx'].status = READY
               PROVE  Ordered(pkts[tx], PKT_SIZE)' /\ Older(pkts[tx])'
    BY DEF OfferFresh
  <1>1. pkts'[tx'] = pkts[tx] /\ pkts[tx].status = READY
    OBVIOUS
  <1>2. pkts[tx] \in Packet
    BY DEF TypeOK
  <1> QED
    BY <1>1, <1>2, OlderStays DEF OfferFresh, Older, Ordered, Last

LEMMA ClientStays ==
  ASSUME TypeOK, TypeOK', BeginsLater, ClientFresh, delivered' = delivered,
         pkts'[tx'].status = READY =>
            \/ pkts'[tx'] = pkts[tx]
            \/ wemo_sample_idx > 0 /\ pkts'[tx'].stamp = pkts[cur].stamp
            \/ pkts'[tx'].stamp > now
  PROVE  ClientFresh'
  <1>1. \A k \in DOMAIN delivered : delivered[k] \in PacketCopy
    BY DEF TypeOK
  <1>2. \A k \in DOMAIN delivered' : Older(delivered[k])'
    BY <1>1, OlderStays DEF ClientFresh, Older
  <1>3. /\ \A k \in DOMAIN delivered' : Ordered(delivered[k], PKT_SIZE)'
        /\ DeliveredInOrder'
    BY DEF ClientFresh, DeliveredInOrder, Ordered, Last
  <1>4. ASSUME pkts'[tx'].status = READY, delivered # << >>
        PROVE  \/ delivered[Len(delivered)] = Copy(pkts'[tx'])
               \/ Last(delivered[Len(delivered)]) < pkts'[tx'].stamp
    <2> DEFINE q == delivered[Len(delivered)]
    <2>1. Len(delivered) \in DOMAIN delivered
      BY <1>4 DEF TypeOK
    <2>2. Older(q) /\ q \in PacketCopy
      BY <1>1, <2>1 DEF ClientFresh
    <2>3. CASE pkts'[tx'] = pkts[tx]
      BY <1>4, <2>3 DEF ClientFresh
    <2>4. CASE wemo_sample_idx > 0 /\ pkts'[tx'].stamp = pkts[cur].stamp
      BY <2>2, <2>4 DEF Older
    <2>5. CASE pkts'[tx'].stamp > now
      <3>1. Last(q) \in Nat /\ now \in Nat /\ pkts'[tx'].stamp \in Nat /\ Last(q) =< now
        BY <2>2, LastType DEF Older, TypeOK, Packet
      <3> HIDE DEF q
      <3>2. Last(q) < pkts'[tx'].stamp
        BY <2>5, <3>1
      <3> QED
        BY <3>2 DEF q
    <2> QED
      BY <1>4, <2>3, <2>4, <2>5
  <1> QED
    BY <1>2, <1>3, <1>4 DEF ClientFresh

\* A sample that leaves room for more.
LEMMA FreshStore ==
  ASSUME IInv, TypeOK', Fresh, now' = now + 1, delivered' = delivered, StoreSample(now + 1)
  PROVE  Fresh'
  <1> DEFINE p == Stored(now + 1)
  <1> USE DEF IInv, Fresh
  <1>1. /\ now \in Nat /\ wemo_sample_idx \in Nat /\ wemo_sample_idx' = wemo_sample_idx + 1
        /\ cur' = cur /\ tx' = tx /\ cur # tx /\ UNCHANGED fileVars
    BY PowerLogAssumption DEF StoreSample, TypeOK, PingPong, Index
  <1>2. pkts'[cur'] = p /\ pkts'[tx'] = pkts[tx]
    BY DEF StoreSample, TypeOK, PingPong
  <1>3. /\ Ordered(p, wemo_sample_idx + 1)
        /\ \A i \in 0 .. wemo_sample_idx : p.data[i] =< now + 1
        /\ p.stamp = IF wemo_sample_idx = 0 THEN now + 1 ELSE pkts[cur].stamp
    BY StoredOrdered
  <1> HIDE DEF p
  <1>4. FillingFresh'
    BY <1>1, <1>2, <1>3 DEF FillingFresh, Ordered
  <1>5. BeginsLater
    BY <1>1, <1>2, <1>3 DEF BeginsLater
  <1>6. OfferFresh'
    BY <1>2, <1>5, OfferFreshStays
  <1>7. DiskFresh'
    BY <1>1, <1>5, DiskStays
  <1>8. ClientFresh'
    BY <1>2, <1>5, ClientStays
  <1> QED
    BY <1>4, <1>6, <1>7, <1>8

\* A place of a file of L + n parts, but the last, is one of the first L, but
\* the last of them, or that one, or one of the last n.
LEMMA PlaceSplit ==
  ASSUME NEW L \in Nat, NEW n \in Nat, NEW k \in 1 .. (L + n) - 1
  PROVE  \/ k \in 1 .. L - 1
         \/ k = L /\ L > 0 /\ n > 0
         \/ \E j \in 1 .. n - 1 : k = L + j
  <1>1. CASE k =< L
    BY <1>1
  <1>2. CASE k > L
    <2>1. k - L \in 1 .. n - 1 /\ k = L + (k - L)
      BY <1>2
    <2> QED
      BY <2>1
  <1> QED
    BY <1>1, <1>2

\* The file stays in order when parts of a packet newer than all others join it.
LEMMA AppendedFresh ==
  ASSUME TypeOK, DiskFresh, now' = now + 1, wemo_sample_idx' = 0,
         NEW c \in PacketCopy, NEW n \in 0 .. PARTS, AppendToFile(c, n),
         Ordered(c, PKT_SIZE), Last(c) = now + 1,
         c.stamp = IF wemo_sample_idx = 0 THEN now + 1 ELSE pkts[cur].stamp
  PROVE  DiskFresh'
  <1> DEFINE L == Len(disk)
  <1>1. /\ now \in Nat /\ wemo_sample_idx \in Nat /\ c.stamp \in Nat /\ L \in Nat
        /\ PARTS \in Nat /\ PARTS > 0 /\ n \in Nat /\ n =< PARTS
        /\ aligned \in Nat /\ aligned =< L /\ DOMAIN disk = 1 .. L
    BY PowerLogAssumption DEF TypeOK, Index, PacketCopy
  <1>2. /\ DOMAIN disk' = 1 .. L + n /\ Len(disk') = L + n
        /\ \A k \in 1 .. L : disk'[k] = disk[k]
        /\ \A j \in 1 .. n : disk'[L + j] = [packet |-> c, part |-> j]
    BY AppendedFile
  <1>3. \A k \in 1 .. L : /\ disk[k].packet \in PacketCopy /\ disk[k].part \in 1 .. PARTS
                          /\ Ordered(disk[k].packet, PKT_SIZE)
                          /\ Last(disk[k].packet) \in Nat
                          /\ Last(disk[k].packet) =< now
                          /\ Last(disk[k].packet) < c.stamp
    <2> SUFFICES ASSUME NEW k \in 1 .. L
                 PROVE  /\ disk[k].packet \in PacketCopy /\ disk[k].part \in 1 .. PARTS
                        /\ Ordered(disk[k].packet, PKT_SIZE)
                        /\ Last(disk[k].packet) \in Nat
                        /\ Last(disk[k].packet) =< now
                        /\ Last(disk[k].packet) < c.stamp
      OBVIOUS
    <2>1. disk[k] \in Part
      BY <1>1 DEF TypeOK
    <2>2. disk[k].packet \in PacketCopy /\ disk[k].part \in 1 .. PARTS
      BY <2>1 DEF Part
    <2>3. Last(disk[k].packet) \in Nat
      BY <2>2, LastType
    <2>4. Ordered(disk[k].packet, PKT_SIZE) /\ Older(disk[k].packet)
      BY <1>1 DEF DiskFresh
    <2> QED
      BY <1>1, <2>2, <2>3, <2>4 DEF Older
  <1>4. \A k \in 1 .. L + n : k \in 1 .. L \/ \E j \in 1 .. n : k = L + j
    <2> SUFFICES ASSUME NEW k \in 1 .. L + n, k \notin 1 .. L
                 PROVE  \E j \in 1 .. n : k = L + j
      OBVIOUS
    <2>1. k - L \in 1 .. n /\ k = L + (k - L)
      BY <1>1
    <2> QED
      BY <2>1
  <1>5. \A k \in 1 .. L + n : /\ Ordered(disk'[k].packet, PKT_SIZE)
                              /\ Last(disk'[k].packet) =< now + 1
    <2> SUFFICES ASSUME NEW k \in 1 .. L + n
                 PROVE  /\ Ordered(disk'[k].packet, PKT_SIZE)
                        /\ Last(disk'[k].packet) =< now + 1
      OBVIOUS
    <2>1. CASE k \in 1 .. L
      BY <1>1, <1>2, <1>3, <2>1
    <2>2. ASSUME NEW j \in 1 .. n, k = L + j
          PROVE  /\ Ordered(disk'[k].packet, PKT_SIZE)
                 /\ Last(disk'[k].packet) =< now + 1
      <3>1. disk'[k] = [packet |-> c, part |-> j]
        BY <1>2, <2>2
      <3>2. disk'[k].packet = c
        BY <3>1
      <3> QED
        BY <1>1, <3>2
    <2> QED
      BY <1>4, <2>1, <2>2
  <1>6. disk' # << >> => disk'[1].part = 1
    <2>1. CASE L = 0
      <3>1. CASE n = 0
        <4>1. Len(disk') = 0 /\ disk' \in Seq(Part)
          BY <1>2, <2>1, <3>1, AppendedFile
        <4> QED
          BY <4>1
      <3>2. CASE n > 0
        <4>1. 1 \in 1 .. n /\ L + 1 = 1
          BY <1>1, <2>1, <3>2
        <4>2. disk'[1] = [packet |-> c, part |-> 1]
          BY <1>2, <4>1
        <4> QED
          BY <4>2
      <3> QED
        BY <1>1, <3>1, <3>2
    <2>2. CASE L > 0
      BY <1>1, <1>2, <2>2 DEF DiskFresh, DiskInOrder
    <2> QED
      BY <1>1, <2>1, <2>2
  <1>7. ASSUME NEW k \in 1 .. L - 1
        PROVE  /\ disk'[k] = disk[k] /\ disk'[k + 1] = disk[k + 1]
               /\ Follows(disk[k], disk[k + 1])
    <2>1. k \in 1 .. L /\ k + 1 \in 1 .. L
      BY <1>1
    <2> QED
      BY <1>2, <2>1 DEF DiskFresh, DiskInOrder
  <1>8. ASSUME L > 0, n > 0
        PROVE  /\ disk'[L] = disk[L] /\ disk'[L + 1] = [packet |-> c, part |-> 1]
               /\ disk[L].part \in 1 .. PARTS
               /\ Follows(disk'[L], disk'[L + 1])
    <2>1. L \in 1 .. L /\ 1 \in 1 .. n
      BY <1>1, <1>8
    <2>2. disk'[L] = disk[L] /\ disk'[L + 1] = [packet |-> c, part |-> 1]
      BY <1>2, <2>1
    <2> QED
      BY <1>3, <2>1, <2>2 DEF Follows
  <1>9. ASSUME NEW j \in 1 .. n - 1
        PROVE  /\ disk'[L + j] = [packet |-> c, part |-> j]
               /\ disk'[(L + j) + 1] = [packet |-> c, part |-> j + 1]
               /\ j < PARTS
               /\ Follows(disk'[L + j], disk'[(L + j) + 1])
    <2>1. j \in 1 .. n /\ j + 1 \in 1 .. n /\ (L + j) + 1 = L + (j + 1) /\ j < PARTS
      BY <1>1
    <2>2. /\ disk'[L + j] = [packet |-> c, part |-> j]
          /\ disk'[(L + j) + 1] = [packet |-> c, part |-> j + 1]
      BY <1>2, <2>1
    <2> QED
      BY <2>1, <2>2 DEF Follows
  <1>10. \A k \in 1 .. (L + n) - 1 :
           \/ k \in 1 .. L - 1
           \/ k = L /\ L > 0 /\ n > 0
           \/ \E j \in 1 .. n - 1 : k = L + j
    BY <1>1, PlaceSplit
  <1>11. \A k \in 1 .. (L + n) - 1 : Follows(disk'[k], disk'[k + 1])
    <2> HIDE DEF L
    <2> QED
      BY <1>7, <1>8, <1>9, <1>10
  <1>12. CASE aligned = L /\ n = PARTS
    <2>1. aligned' = L + n
      BY <1>12 DEF AppendToFile
    <2>2. disk'[L + n].part = PARTS
      <3>1. n \in 1 .. n /\ disk'[L + n] = [packet |-> c, part |-> n]
        BY <1>1, <1>2, <1>12
      <3> QED
        BY <1>12, <3>1
    <2>3. \A k \in 1 .. (L + n) - 1 : FollowsWhole(disk'[k], disk'[k + 1])
      <3>1. ASSUME NEW k \in 1 .. L - 1 PROVE FollowsWhole(disk'[k], disk'[k + 1])
        BY <1>7, <1>12, <3>1 DEF DiskFresh, DiskInOrder
      <3>2. ASSUME L > 0, n > 0 PROVE FollowsWhole(disk'[L], disk'[L + 1])
        <4>1. disk[L].part = PARTS
          BY <1>12, <3>2 DEF DiskFresh, DiskInOrder
        <4> QED
          BY <1>8, <3>2, <4>1 DEF FollowsWhole
      <3>3. ASSUME NEW j \in 1 .. n - 1
            PROVE  FollowsWhole(disk'[L + j], disk'[(L + j) + 1])
        <4>1. j \in Nat /\ j # PARTS
          <5>1. j < PARTS
            BY <1>9, <3>3
          <5>2. j \in Nat /\ PARTS \in Nat
            BY <1>1
          <5> QED
            BY ONLY <5>1, <5>2
        <4>2. /\ disk'[L + j].part = j /\ disk'[(L + j) + 1].part = j + 1
          <5>1. /\ disk'[L + j] = [packet |-> c, part |-> j]
                /\ disk'[(L + j) + 1] = [packet |-> c, part |-> j + 1]
            BY <1>9
          <5> QED
            BY ONLY <5>1
        <4> QED
          BY <4>1, <4>2 DEF FollowsWhole
      <3> HIDE DEF L
      <3> QED
        BY <1>10, <3>1, <3>2, <3>3
    <2> QED
      BY <1>2, <1>5, <1>6, <1>11, <2>1, <2>2, <2>3
      DEF DiskFresh, DiskInOrder, Ordered, Older, Last, Follows, FollowsWhole
  <1>13. CASE ~(aligned = L /\ n = PARTS)
    <2>1. aligned' = aligned
      BY <1>13 DEF AppendToFile
    <2>2. \A k \in 1 .. aligned - 1 : FollowsWhole(disk'[k], disk'[k + 1])
      <3> SUFFICES ASSUME NEW k \in 1 .. aligned - 1
                   PROVE  FollowsWhole(disk'[k], disk'[k + 1])
        OBVIOUS
      <3>1. k \in 1 .. L - 1 /\ FollowsWhole(disk[k], disk[k + 1])
        BY <1>1 DEF DiskFresh, DiskInOrder
      <3> QED
        BY <1>7, <3>1
    <2>3. aligned > 0 => disk'[aligned].part = PARTS
      <3>1. aligned > 0 => aligned \in 1 .. L
        BY <1>1
      <3> QED
        BY <1>2, <3>1 DEF DiskFresh, DiskInOrder
    <2> QED
      BY <1>2, <1>5, <1>6, <1>11, <2>1, <2>2, <2>3
      DEF DiskFresh, DiskInOrder, Ordered, Older, Last, Follows, FollowsWhole
  <1> QED
    BY <1>12, <1>13

\* The sample that fills the packet: it goes to the data file and on offer, or
\* is erased.
LEMMA FreshComplete ==
  ASSUME IInv, TypeOK', Fresh, now' = now + 1, delivered' = delivered, NEW n \in 0 .. PARTS,
         CompletePacket(now + 1, n), wemo_sample_idx + 1 = PKT_SIZE
  PROVE  Fresh'
  <1> DEFINE full == [Stored(now + 1) EXCEPT !.status = READY]
  <1> USE DEF IInv, Fresh
  <1>1. /\ now \in Nat /\ wemo_sample_idx \in Nat /\ wemo_sample_idx' = 0
        /\ now' \in Nat /\ PKT_SIZE \in Nat
    BY PowerLogAssumption DEF CompletePacket, TypeOK, Index
  <1>2. /\ Ordered(full, PKT_SIZE)
        /\ Last(full) = now + 1
        /\ full.stamp = IF wemo_sample_idx = 0 THEN now + 1 ELSE pkts[cur].stamp
        /\ full.status = READY /\ full \in Packet
        /\ Copy(full) = [stamp |-> full.stamp, data |-> full.data]
    <2>1. full.data = Stored(now + 1).data /\ full.stamp = Stored(now + 1).stamp
      BY DEF Stored
    <2>2. full.status = READY /\ full \in Packet
      BY <1>1, StoredStatus, StoredType
    <2>3. /\ Ordered(Stored(now + 1), PKT_SIZE)
          /\ Stored(now + 1).data[PKT_SIZE - 1] = now + 1
          /\ Stored(now + 1).stamp = IF wemo_sample_idx = 0 THEN now + 1 ELSE pkts[cur].stamp
      <3>1. wemo_sample_idx = PKT_SIZE - 1
        BY <1>1
      <3> QED
        BY <3>1, StoredOrdered
    <2> HIDE DEF full
    <2> QED
      BY <2>1, <2>2, <2>3 DEF Ordered, Last, Copy
  <1>3. /\ AppendToFile(Copy(full), n)
        /\ IF pkts[tx].status = EMPTY THEN OfferPacket(full) ELSE DropPacket(full)
    BY DEF CompletePacket
  <1> HIDE DEF full
  <1>4. FillingFresh'
    BY <1>1 DEF FillingFresh, Ordered
  <1>5. BeginsLater
    BY <1>1 DEF BeginsLater
  <1>6. \/ pkts'[tx'] = full
        \/ pkts'[tx'] = pkts[tx]
    BY <1>3 DEF OfferPacket, DropPacket, TypeOK, PingPong
  <1>7. OfferFresh'
    <2>1. CASE pkts'[tx'] = full
      <3>1. Ordered(pkts[tx], PKT_SIZE)'
        BY <1>2, <2>1 DEF Ordered
      <3>2. Older(pkts[tx])'
        BY <1>1, <1>2, <2>1 DEF Older, Last
      <3> QED
        BY <3>1, <3>2 DEF OfferFresh
    <2>2. CASE pkts'[tx'] = pkts[tx]
      BY <1>5, <2>2, OfferFreshStays
    <2> QED
      BY <1>6, <2>1, <2>2
  <1>8. ClientFresh'
    <2>1. \/ pkts'[tx'] = pkts[tx]
          \/ wemo_sample_idx > 0 /\ pkts'[tx'].stamp = pkts[cur].stamp
          \/ pkts'[tx'].stamp > now
      BY <1>1, <1>2, <1>6
    <2> QED
      BY <1>5, <2>1, ClientStays
  <1>9. DiskFresh'
    <2>1. Copy(full) \in PacketCopy
      BY <1>2 DEF Packet, PacketCopy
    <2>2. /\ Ordered(Copy(full), PKT_SIZE) /\ Last(Copy(full)) = now + 1
          /\ Copy(full).stamp = full.stamp
      BY <1>2 DEF Ordered, Last
    <2> QED
      BY <1>1, <1>2, <1>3, <2>1, <2>2, AppendedFresh
  <1> QED
    BY <1>4, <1>7, <1>8, <1>9

\* The client receives the packet on offer.
LEMMA FreshSend ==
  ASSUME IInv, TypeOK', Fresh, NEW result \in SendResults, NEW got \in BOOLEAN,
         SendPacket(result, got)
  PROVE  Fresh'
  <1> USE DEF IInv, Fresh
  <1> DEFINE c == Copy(pkts[tx])
             n == Len(delivered)
  <1>1. /\ now' = now /\ wemo_sample_idx' = wemo_sample_idx /\ cur' = cur /\ tx' = tx
        /\ UNCHANGED fileVars /\ pkts[tx].status = READY /\ now \in Nat
    BY DEF SendPacket, TypeOK
  <1>2. pkts'[cur'] = pkts[cur] /\ (pkts'[tx'].status = READY => pkts'[tx'] = pkts[tx])
    <2>1. pkts' = pkts \/ pkts' = [pkts EXCEPT ![tx] = ClearedPacket]
      BY DEF SendPacket
    <2> QED
      BY <1>1, <2>1 DEF TypeOK, PingPong, ClearedPacket, EMPTY, READY
  <1>3. FillingFresh'
    BY <1>1, <1>2 DEF FillingFresh, Ordered
  <1>4. BeginsLater
    BY <1>1, <1>2 DEF BeginsLater
  <1>5. OfferFresh'
    BY <1>2, <1>4, OfferFreshStays
  <1>6. DiskFresh'
    BY <1>1, <1>4, DiskStays
  <1>7. ClientFresh'
    <2>1. CASE delivered' = delivered
      BY <1>2, <1>4, <2>1, ClientStays
    <2>2. CASE delivered' = Append(delivered, c)
      <3>1. c \in PacketCopy /\ delivered \in Seq(PacketCopy) /\ pkts[tx] \in Packet
        BY DEF Packet, PacketCopy, TypeOK, Copy
      <3>2. /\ Ordered(c, PKT_SIZE) /\ Last(c) = Last(pkts[tx])
            /\ c.stamp = pkts[tx].stamp
        BY <1>1 DEF OfferFresh, Ordered, Last, Copy
      <3>3. Older(c)
        BY <1>1, <3>2 DEF OfferFresh, Older
      <3>4. \A k \in DOMAIN delivered : Ordered(delivered[k], PKT_SIZE) /\ Older(delivered[k])
        BY DEF ClientFresh
      <3>5. delivered # << >> => delivered[n] = c \/ Last(delivered[n]) < c.stamp
        BY <1>1, <3>2 DEF ClientFresh
      <3>6. pkts'[tx'].status = READY => Copy(pkts'[tx']) = c
        BY <1>2
      <3> HIDE DEF c
      <3>7. /\ Len(delivered') = n + 1 /\ n \in Nat
            /\ DOMAIN delivered' = 1 .. n + 1
            /\ \A k \in 1 .. n : delivered'[k] = delivered[k]
            /\ delivered'[n + 1] = c
            /\ DOMAIN delivered = 1 .. n /\ (n > 0 => delivered # << >>)
        BY <2>2, <3>1 DEF c
      <3> HIDE DEF n
      <3>8. \A k \in DOMAIN delivered' : Ordered(delivered'[k], PKT_SIZE) /\ Older(delivered'[k])
        <4> TAKE k \in DOMAIN delivered'
        <4>1. CASE k = n + 1
          BY <3>2, <3>3, <3>7, <4>1
        <4>2. CASE k \in 1 .. n
          BY <3>4, <3>7, <4>2
        <4> QED
          BY <3>7, <4>1, <4>2
      <3>9. \A k \in DOMAIN delivered' : Ordered(delivered[k], PKT_SIZE)' /\ Older(delivered[k])'
        BY <1>1, <1>2, <3>8 DEF Ordered, Older, Last
      <3>10. DeliveredInOrder'
        <4> SUFFICES ASSUME NEW k \in 1 .. Len(delivered') - 1
                     PROVE  \/ delivered'[k] = delivered'[k + 1]
                            \/ Last(delivered'[k]) < delivered'[k + 1].stamp
          BY DEF DeliveredInOrder, Last
        <4>1. k \in 1 .. n
          BY <3>7
        <4>2. CASE k = n
          BY <3>5, <3>7, <4>1, <4>2
        <4>3. CASE k \in 1 .. n - 1
          <5>1. k + 1 \in 1 .. n
            BY <3>7, <4>3
          <5> QED
            BY <3>7, <4>1, <4>3, <5>1 DEF ClientFresh, DeliveredInOrder, n
        <4>4. n \in Nat
          BY <3>7
        <4>5. k = n \/ k \in 1 .. n - 1
          BY ONLY <4>1, <4>4
        <4> QED
          BY <4>2, <4>3, <4>5
      <3>11. pkts'[tx'].status = READY => delivered'[Len(delivered')] = Copy(pkts'[tx'])
        BY <3>6, <3>7
      <3> QED
        BY <3>9, <3>10, <3>11 DEF ClientFresh
    <2> QED
      BY <2>1, <2>2 DEF SendPacket
  <1> QED
    BY <1>3, <1>5, <1>6, <1>7

\* A restart forgets the packets in memory and nothing else.
LEMMA FreshRestart ==
  ASSUME IInv, TypeOK', Fresh, Restart
  PROVE  Fresh'
  <1> USE DEF IInv, Fresh
  <1>1. /\ now' = now /\ wemo_sample_idx' = 0 /\ UNCHANGED fileVars /\ delivered' = delivered
        /\ pkts'[tx'].status # READY /\ now \in Nat
    BY DEF Restart, ClearedPacket, EMPTY, READY, TypeOK
  <1>2. BeginsLater
    BY <1>1 DEF BeginsLater
  <1>3. FillingFresh'
    BY <1>1 DEF FillingFresh, Ordered
  <1> QED
    BY <1>1, <1>2, <1>3, OfferFreshStays, DiskStays, ClientStays

\* Nothing happens to the packets and the client: time may pass, and the data
\* file may be erased.
LEMMA FreshIdle ==
  ASSUME IInv, TypeOK', Fresh, UNCHANGED <<pkts, cur, tx, wemo_sample_idx, delivered>>,
         now' \in {now, now + 1},
         UNCHANGED fileVars \/ (disk' = << >> /\ aligned' = 0)
  PROVE  Fresh'
  <1> USE DEF IInv, Fresh
  <1>1. now \in Nat
    BY DEF TypeOK
  <1>2. BeginsLater
    BY <1>1 DEF BeginsLater
  <1>3. FillingFresh'
    <2>1. \A i \in 0 .. wemo_sample_idx - 1 : pkts[cur].data[i] \in Nat
      <3>1. pkts[cur] \in Packet /\ 0 .. wemo_sample_idx - 1 \subseteq Index
        BY PowerLogAssumption DEF TypeOK, Index
      <3> QED
        BY <3>1 DEF Packet
    <2> QED
      BY <1>1, <2>1 DEF FillingFresh, Ordered
  <1> QED
    BY <1>2, <1>3, OfferFreshStays, DiskStays, ClientStays

LEMMA FreshStep == FInv /\ [Next]_vars => Fresh'
  <1> SUFFICES ASSUME IInv, Fresh, [Next]_vars PROVE Fresh'
    BY DEF FInv
  <1>0. TypeOK'
    BY InvStep DEF IInv
  <1>1. ASSUME NEW n \in 0 .. PARTS, LoggingTick(n) PROVE Fresh'
    <2>1. /\ now' = now + 1 /\ now + 1 \in Nat /\ delivered' = delivered
          /\ core_log_power_data(now + 1, n)
      BY <1>1 DEF LoggingTick, IInv, TypeOK
    <2> QED
      BY <1>0, <2>1, LogIsStoreOrComplete, FreshStore, FreshComplete DEF IInv
  <1>2. CASE IdleTick
    BY <1>0, <1>2, FreshIdle DEF IdleTick, bufVars
  <1>3. ASSUME NEW b \in BOOLEAN, mon_collect_data(b) PROVE Fresh'
    BY <1>0, <1>3, FreshIdle DEF mon_collect_data, bufVars
  <1>4. ASSUME NEW on \in BOOLEAN, SetRelay(on) PROVE Fresh'
    BY <1>0, <1>4, FreshIdle DEF SetRelay, bufVars
  <1>9. ASSUME NEW b \in BOOLEAN, mon_calibrate(b) \/ PWM_Handler(b) PROVE Fresh'
    BY <1>0, <1>9, FreshIdle DEF mon_calibrate, PWM_Handler, bufVars
  <1>5. ASSUME NEW result \in SendResults, NEW got \in BOOLEAN, SendPacket(result, got)
        PROVE  Fresh'
    BY <1>0, <1>5, FreshSend
  <1>6. CASE OtherCommand \/ EraseData
    BY <1>0, <1>6, FreshIdle DEF OtherCommand, EraseData, bufVars
  <1>7. CASE Restart
    BY <1>0, <1>7, FreshRestart
  <1>8. CASE UNCHANGED vars
    BY <1>0, <1>8, FreshIdle DEF vars, bufVars
  <1> QED
    BY <1>1, <1>2, <1>3, <1>4, <1>5, <1>6, <1>7, <1>8, <1>9 DEF Next

LEMMA FreshAlways == Spec => []FInv
  <1>1. Init => FInv
    BY InvInit, FreshInit DEF FInv
  <1>2. FInv /\ [Next]_vars => FInv'
    BY InvStep, FreshStep DEF FInv
  <1> QED
    BY <1>1, <1>2, PTL DEF Spec

\* A packet never mixes its samples with those an earlier one left in its
\* memory, in memory, on the card or at the client.
THEOREM NeverMixed == Spec => []PacketsNotMixed
  <1>1. FInv => PacketsNotMixed
    BY DEF FInv, Fresh, FillingFresh, OfferFresh, DiskFresh, ClientFresh, Older,
           PacketsNotMixed
  <1> QED
    BY <1>1, FreshAlways, PTL

\* The parts of the data file follow each other in time, across drops, failed and
\* cut writes, erasures and restarts, and are whole packets up to the first write
\* that was cut.
THEOREM DiskOrder == Spec => []DiskInOrder
  BY FreshAlways, PTL DEF FInv, Fresh, DiskFresh

\* The client receives packets in the order of time, or the same one again.
THEOREM DeliveryOrder == Spec => []DeliveredInOrder
  BY FreshAlways, PTL DEF FInv, Fresh, ClientFresh
=============================================================================
