------------------------------- MODULE PowerLog -------------------------------
(***************************************************************************)
(* The power log of the plug (firmware/src/monitor.c): the main loop hands *)
(* every valid meter sample to core_log_power_data, which fills one of two *)
(* power packets; a full packet is appended to the data file on the SD     *)
(* card and offered to the network client by swapping the two packets, or  *)
(* dropped when the client has not asked for the one on offer.  After too  *)
(* many drops in a row the firmware switches the load off and resets the   *)
(* WiFi module.                                                            *)
(*                                                                         *)
(* All but the calibration, which switches the load in the PWM interrupt,  *)
(* runs in the main loop, so an iteration of the loop is one step.  A      *)
(* sample is represented by the tick it was logged in, which is also what  *)
(* the real-time clock would print in the packet's timestamp.  The data    *)
(* file is the sequence of the parts written to it: a write may be cut     *)
(* after any of the PARTS parts of a packet.                               *)
(***************************************************************************)
EXTENDS Integers, Sequences

CONSTANTS
  PKT_SIZE,                \* samples in a packet (30 in the firmware)
  MAX_DROPPED_PACKETS,     \* the drops the firmware tolerates (3)
  PARTS,                   \* parts of a packet a cut write tells apart (its bytes)
  MaxTick,                 \* bound of the checked instances: ticks of the run
  MaxRequests,             \* bound: packets the client receives
  MaxRestarts              \* bound: restarts of the firmware

ASSUME PowerLogAssumption ==
  /\ PKT_SIZE \in Nat \ {0}
  /\ MAX_DROPPED_PACKETS \in Nat
  /\ PARTS \in Nat \ {0}
  /\ MaxTick \in Nat /\ MaxRequests \in Nat /\ MaxRestarts \in Nat

EMPTY       == "POWER_PKT_EMPTY"
FILLING     == "POWER_PKT_FILLING"
READY       == "POWER_PKT_READY"
TX_IN_PROG  == "POWER_PKT_TX_IN_PROG"
TX_FAIL     == "POWER_PKT_TX_FAIL"
Status      == {EMPTY, FILLING, READY, TX_IN_PROG, TX_FAIL}

Index  == 0 .. PKT_SIZE - 1
Packet == [status : Status, stamp : Nat, data : [Index -> Nat]]

\* What a client or the data file holds of a packet: its stamp and samples.
Copy(p)    == [stamp |-> p.stamp, data |-> p.data]
PacketCopy == [stamp : Nat, data : [Index -> Nat]]

\* A place of the data file: the part of a packet that is in it.
Part == [packet : PacketCopy, part : 1 .. PARTS]

VARIABLES
  now,                     \* ticks since the clock was set
  collect,                 \* wemo_config.collect_data
  calibrate,               \* wemo_config.calibrate
  pkts,                    \* power_pkts[2]
  cur, tx,                 \* which packets cur_pkt and tx_pkt point to
  wemo_sample_idx,         \* next free place of the current packet
  dropped_pkt_count,       \* the firmware's count of drops
  relay,                   \* whether the load is on
  disk,                    \* the data file: parts of packets, as written
  delivered,               \* packets the client has received, in order
  restarts,                \* restarts so far
  aligned,                 \* history: parts written before the first cut write
  lost_in_row,             \* history: packets dropped since the last one offered
  quiet                    \* history: packets filled since the last command

bufVars  == <<pkts, cur, tx, wemo_sample_idx, dropped_pkt_count>>
modeVars == <<collect, calibrate>>
fileVars == <<disk, aligned>>
histVars == <<lost_in_row, quiet>>
vars     == <<now, modeVars, bufVars, relay, fileVars, delivered, restarts,
              histVars>>

\* A packet after memset(pkt,0,sizeof(*pkt)), and after the C runtime start.
ClearedPacket == [status |-> EMPTY, stamp |-> 0, data |-> [i \in Index |-> 0]]

\* The start of monitor(): tx_pkt is packet 0, cur_pkt packet 1, both empty.
\* collect_data is off when the plug boots on USB or in calibration mode,
\* which is whatever the config file says.
Init ==
  /\ now = 0
  /\ collect \in BOOLEAN /\ calibrate \in BOOLEAN
  /\ calibrate => ~collect
  /\ pkts = [k \in {0, 1} |-> ClearedPacket]
  /\ tx = 0 /\ cur = 1
  /\ wemo_sample_idx = 0 /\ dropped_pkt_count = 0
  /\ relay = FALSE
  /\ disk = << >> /\ aligned = 0 /\ delivered = << >>
  /\ restarts = 0
  /\ lost_in_row = 0 /\ quiet = 0

-----------------------------------------------------------------------------
(* core_log_power_data *)

\* Mutant of Stored: the stamp is set only in a packet that was erased.
StoredKeepingStamp(s) ==
  [status |-> FILLING,
   stamp  |-> IF pkts[cur].stamp = 0 THEN s ELSE pkts[cur].stamp,
   data   |-> [pkts[cur].data EXCEPT ![wemo_sample_idx] = s]]

\* The current packet with sample s in its next place; the first sample of an
\* empty packet also stamps it.
Stored(s) ==
  [status |-> FILLING,
   stamp  |-> IF pkts[cur].status = EMPTY THEN s ELSE pkts[cur].stamp,
   data   |-> [pkts[cur].data EXCEPT ![wemo_sample_idx] = s]]

\* The error cases that return before anything is stored.
Refused ==
  \/ pkts[cur].status = EMPTY /\ wemo_sample_idx # 0
  \/ pkts[cur].status = TX_IN_PROG

\* The current packet is full already: offer it if the other one is free.
RetrySwap ==
  /\ IF pkts[tx].status = EMPTY
       THEN cur' = tx /\ tx' = cur /\ wemo_sample_idx' = 0
       ELSE UNCHANGED <<cur, tx, wemo_sample_idx>>
  /\ UNCHANGED <<pkts, dropped_pkt_count, relay, fileVars, histVars>>

\* There is room for more samples after s.
StoreSample(s) ==
  /\ pkts' = [pkts EXCEPT ![cur] = Stored(s)]
  /\ wemo_sample_idx' = wemo_sample_idx + 1
  /\ UNCHANGED <<cur, tx, dropped_pkt_count, relay, fileVars, histVars>>

\* Mutant of OfferPacket: only tx_pkt is assigned.
OfferWithoutSwap(full) ==
  /\ pkts' = [pkts EXCEPT ![cur] = full]
  /\ tx' = cur
  /\ dropped_pkt_count' = 0 /\ lost_in_row' = 0
  /\ UNCHANGED <<cur, relay>>

\* The full packet is offered: the two packets swap their roles.
OfferPacket(full) ==
  /\ pkts' = [pkts EXCEPT ![cur] = full]
  /\ cur' = tx /\ tx' = cur
  /\ dropped_pkt_count' = 0
  /\ lost_in_row' = 0
  /\ UNCHANGED relay

\* Mutant of WatchdogDue: the count must be exceeded by one more.
WatchdogLate == dropped_pkt_count > MAX_DROPPED_PACKETS + 1

\* Mutant of WatchdogDue: the limit itself is too many.
WatchdogEarly == dropped_pkt_count >= MAX_DROPPED_PACKETS

\* dropped_pkt_count++ > MAX_DROPPED_PACKETS
WatchdogDue == dropped_pkt_count > MAX_DROPPED_PACKETS

\* The full packet is erased, because the other one still waits for the
\* client; the drop that is one too many switches the load off.
DropPacket(full) ==
  /\ pkts' = [pkts EXCEPT ![cur] = [full EXCEPT !.status = EMPTY]]
  /\ lost_in_row' = lost_in_row + 1
  /\ dropped_pkt_count' = IF WatchdogDue THEN 0 ELSE dropped_pkt_count + 1
  /\ relay' = (relay /\ ~WatchdogDue)
  /\ UNCHANGED <<cur, tx>>

\* The first n parts of packet copy c.
FirstParts(c, n) == [j \in 1 .. n |-> [packet |-> c, part |-> j]]

\* fs_write_power_pkt: the packet is appended to the data file.  What of it is
\* in the file is n of its parts, all, some (the card is full) or none (it
\* cannot be opened or written): the firmware looks at no result.
AppendToFile(c, n) ==
  /\ disk' = disk \o FirstParts(c, n)
  /\ aligned' = IF aligned = Len(disk) /\ n = PARTS THEN aligned + n ELSE aligned

\* Mutant of CompletePacket: the other packet is written to the data file.
CompleteWritingOther(s, n) ==
  LET full == [Stored(s) EXCEPT !.status = READY] IN
  /\ AppendToFile(Copy(pkts[tx]), n)
  /\ IF pkts[tx].status = EMPTY THEN OfferPacket(full) ELSE DropPacket(full)
  /\ wemo_sample_idx' = 0
  /\ quiet' = quiet + 1

\* Sample s fills the packet, n parts of which reach the data file.
CompletePacket(s, n) ==
  LET full == [Stored(s) EXCEPT !.status = READY] IN
  /\ AppendToFile(Copy(full), n)
  /\ IF pkts[tx].status = EMPTY THEN OfferPacket(full) ELSE DropPacket(full)
  /\ wemo_sample_idx' = 0
  /\ quiet' = quiet + 1

core_log_power_data(s, n) ==
  IF Refused THEN UNCHANGED <<bufVars, relay, fileVars, histVars>>
  ELSE IF pkts[cur].status = READY THEN RetrySwap
  ELSE IF wemo_sample_idx + 1 = PKT_SIZE THEN CompletePacket(s, n)
  ELSE StoreSample(s)

-----------------------------------------------------------------------------
(* The main loop *)

\* A tick the loop handles, with a valid sample to log.
LoggingTick(n) ==
  /\ now < MaxTick /\ now' = now + 1
  /\ collect
  /\ core_log_power_data(now + 1, n)
  /\ UNCHANGED <<modeVars, delivered, restarts>>

\* A tick with no valid sample, with logging off, or one the loop misses
\* while it waits for the WiFi module or runs a command.
IdleTick ==
  /\ now < MaxTick /\ now' = now + 1
  /\ UNCHANGED <<modeVars, bufVars, relay, fileVars, delivered, restarts, histVars>>

\* collect_data true|false, which takes no notice of a calibration.
mon_collect_data(b) ==
  /\ collect' = b
  /\ UNCHANGED <<now, calibrate, bufVars, relay, fileVars, delivered, restarts,
                 histVars>>

\* calibrate start (with times that are accepted), which stops the logging,
\* and calibrate stop, which leaves the load as the handler left it.
mon_calibrate(start) ==
  /\ calibrate' = start
  /\ collect' = (collect /\ ~start)
  /\ quiet' = 0
  /\ UNCHANGED <<now, bufVars, relay, fileVars, delivered, restarts, lost_in_row>>

\* The PWM handler at the end of an on-time or of an off-time of the
\* calibration (module Relay has its ticks).
PWM_Handler(on) ==
  /\ calibrate
  /\ relay' = on
  /\ UNCHANGED <<now, modeVars, bufVars, fileVars, delivered, restarts, histVars>>

\* relay_on and relay_off over WiFi, relay on the console.
SetRelay(on) ==
  /\ relay' = on
  /\ quiet' = 0
  /\ UNCHANGED <<now, modeVars, bufVars, fileVars, delivered, restarts, lost_in_row>>

\* Results of wifi_send_raw as send_data tells them apart.
SendResults == {"TX_SUCCESS", "TX_ERR_MODULE_RESET", "TX_TIMEOUT"}

\* Mutant of SendPacket: the packet being filled is sent.
SendCurrent(result, got) ==
  /\ pkts[tx].status = READY
  /\ result = "TX_SUCCESS" => got
  /\ got => Len(delivered) < MaxRequests
  /\ delivered' = IF got THEN Append(delivered, Copy(pkts[cur])) ELSE delivered
  /\ pkts' = IF result = "TX_ERR_MODULE_RESET" THEN pkts
             ELSE [pkts EXCEPT ![tx] = ClearedPacket]
  /\ quiet' = 0
  /\ UNCHANGED <<now, modeVars, cur, tx, wemo_sample_idx, dropped_pkt_count,
                 relay, fileVars, restarts, lost_in_row>>

\* Mutant of SendPacket: the packet being filled is cleared.
SendClearingCurrent(result, got) ==
  /\ pkts[tx].status = READY
  /\ result = "TX_SUCCESS" => got
  /\ got => Len(delivered) < MaxRequests
  /\ delivered' = IF got THEN Append(delivered, Copy(pkts[tx])) ELSE delivered
  /\ pkts' = IF result = "TX_ERR_MODULE_RESET" THEN pkts
             ELSE [pkts EXCEPT ![cur] = ClearedPacket]
  /\ quiet' = 0
  /\ UNCHANGED <<now, modeVars, cur, tx, wemo_sample_idx, dropped_pkt_count,
                 relay, fileVars, restarts, lost_in_row>>

\* send_data with a packet on offer.  Whether the client got the packet is
\* certain only when the transmission succeeds; after a module reset the
\* packet stays on offer, after anything else it is cleared.
SendPacket(result, got) ==
  /\ pkts[tx].status = READY
  /\ result = "TX_SUCCESS" => got
  /\ got => Len(delivered) < MaxRequests
  /\ delivered' = IF got THEN Append(delivered, Copy(pkts[tx])) ELSE delivered
  /\ pkts' = IF result = "TX_ERR_MODULE_RESET" THEN pkts
             ELSE [pkts EXCEPT ![tx] = ClearedPacket]
  /\ quiet' = 0
  /\ UNCHANGED <<now, modeVars, cur, tx, wemo_sample_idx, dropped_pkt_count,
                 relay, fileVars, restarts, lost_in_row>>

\* send_data with nothing on offer ("error: no data"), and every other WiFi
\* command that leaves the power log alone.
OtherCommand ==
  /\ quiet' = 0
  /\ UNCHANGED <<now, modeVars, bufVars, relay, fileVars, delivered, restarts,
                 lost_in_row>>

\* data erase: fs_erase_data truncates the data file.
EraseData ==
  /\ disk' = << >> /\ aligned' = 0
  /\ UNCHANGED <<now, modeVars, bufVars, relay, delivered, restarts, histVars>>

\* restart, a panic or a power cycle: the packets and the static counters
\* are lost, the relay pin comes up low, the data file and the clock stay.
Restart ==
  /\ restarts < MaxRestarts /\ restarts' = restarts + 1
  /\ collect' \in BOOLEAN /\ calibrate' \in BOOLEAN
  /\ calibrate' => ~collect'
  /\ pkts' = [k \in {0, 1} |-> ClearedPacket]
  /\ tx' = 0 /\ cur' = 1
  /\ wemo_sample_idx' = 0 /\ dropped_pkt_count' = 0
  /\ relay' = FALSE
  /\ lost_in_row' = 0 /\ quiet' = 0
  /\ UNCHANGED <<now, fileVars, delivered>>

Next ==
  \/ \E n \in 0 .. PARTS : LoggingTick(n)
  \/ IdleTick
  \/ \E b \in BOOLEAN : mon_collect_data(b)
  \/ \E start \in BOOLEAN : mon_calibrate(start)
  \/ \E on \in BOOLEAN : PWM_Handler(on)
  \/ \E on \in BOOLEAN : SetRelay(on)
  \/ \E result \in SendResults, got \in BOOLEAN : SendPacket(result, got)
  \/ OtherCommand
  \/ EraseData
  \/ Restart

Spec == Init /\ [][Next]_vars
-----------------------------------------------------------------------------
(* Properties *)

\* Type correctness of the power packets, the pointers and the counters.
TypeOK ==
  /\ now \in Nat /\ relay \in BOOLEAN
  /\ collect \in BOOLEAN /\ calibrate \in BOOLEAN
  /\ pkts \in [{0, 1} -> Packet]
  /\ cur \in {0, 1} /\ tx \in {0, 1}
  /\ wemo_sample_idx \in Index /\ dropped_pkt_count \in Nat
  /\ disk \in Seq(Part) /\ aligned \in 0 .. Len(disk)
  /\ delivered \in Seq(PacketCopy)
  /\ restarts \in Nat /\ lost_in_row \in Nat /\ quiet \in Nat

\* The two pointers never meet, the packet being filled is never full or on
\* its way out, the other one is empty or on offer, and the index is zero
\* exactly when the packet is empty: none of the error cases at the head of
\* core_log_power_data can ever be taken.
PingPong ==
  /\ cur # tx
  /\ pkts[tx].status \in {EMPTY, READY}
  /\ pkts[cur].status = IF wemo_sample_idx = 0 THEN EMPTY ELSE FILLING

\* The first n samples of p were taken one after the other, the first of them
\* at the time of the stamp.
Ordered(p, n) ==
  /\ n > 0 => p.data[0] = p.stamp /\ p.stamp > 0
  /\ \A i \in 1 .. n - 1 : p.data[i - 1] < p.data[i]

Last(p) == p.data[PKT_SIZE - 1]

\* A packet never mixes its samples with those an earlier packet left in the
\* same memory: its samples are in order from its stamp on, and all of them
\* are newer than the packet on offer.  (The drop path reuses a packet
\* without erasing it.)
PacketsNotMixed ==
  /\ Ordered(pkts[cur], wemo_sample_idx)
  /\ pkts[tx].status = READY =>
       /\ Ordered(pkts[tx], PKT_SIZE)
       /\ wemo_sample_idx > 0 => Last(pkts[tx]) < pkts[cur].stamp
  /\ \A k \in DOMAIN disk : Ordered(disk[k].packet, PKT_SIZE)
  /\ \A k \in DOMAIN delivered : Ordered(delivered[k], PKT_SIZE)

\* Part b of the data file may come right after part a: it is the next part of
\* the same packet, or the first part of a later one.
Follows(a, b) ==
  \/ b.packet = a.packet /\ b.part = a.part + 1
  \/ Last(a.packet) < b.packet.stamp /\ b.part = 1

\* Every part of packet a is there before the next packet begins.
FollowsWhole(a, b) == b.part = IF a.part = PARTS THEN 1 ELSE a.part + 1

\* The data file holds the packets in the order of time, no sample twice and
\* nothing between the parts of a packet, across drops, failed and cut writes,
\* erasures and restarts; and up to the first write that was cut, its packets
\* are whole and lie one behind the other, so that mon_data, which reads the
\* file a packet's size at a time, reads exactly them.  (Behind a cut write it
\* reads the end of one packet and the beginning of the next as one.)
DiskInOrder ==
  /\ disk # << >> => disk[1].part = 1
  /\ \A k \in 1 .. Len(disk) - 1 : Follows(disk[k], disk[k + 1])
  /\ \A k \in 1 .. aligned - 1 : FollowsWhole(disk[k], disk[k + 1])
  /\ aligned > 0 => disk[aligned].part = PARTS

\* The client receives packets in the order of time; it sees a packet again
\* only right after that same packet (kept on offer after a module reset).
DeliveredInOrder ==
  \A k \in 1 .. Len(delivered) - 1 :
     \/ delivered[k] = delivered[k + 1]
     \/ Last(delivered[k]) < delivered[k + 1].stamp

\* A load nobody commands goes off: while the load is on and no calibration
\* runs, no more than MAX_DROPPED_PACKETS + 2 packets have filled since the last
\* command.  (While one runs the handler switches the load on again, whatever
\* the drops: see PWM_Handler.)
UnattendedLoadGoesOff ==
  relay /\ ~calibrate => quiet =< MAX_DROPPED_PACKETS + 2

\* The strengthening of UnattendedLoadGoesOff that a step preserves: the count
\* of drops stays below the watchdog's limit and counts no more than the drops
\* in a row; packets fill unanswered only while one is on offer, and while the
\* load is on, and no calibration runs, all but the first of them have been
\* counted as drops.
WatchdogArmed ==
  /\ dropped_pkt_count =< MAX_DROPPED_PACKETS + 1
  /\ dropped_pkt_count =< lost_in_row
  /\ pkts[tx].status = EMPTY => quiet = 0
  /\ relay /\ ~calibrate => quiet =< dropped_pkt_count + 1

\* A packet on offer stays there as it is until the client asks for it: a
\* newer one never takes its place and nothing writes into it.
OfferKept ==
  [][pkts[tx].status = READY /\ pkts'[tx'] # pkts[tx] =>
       Restart \/ \E result \in SendResults, got \in BOOLEAN :
                    SendPacket(result, got)]_vars

\* Apart from the off-times of a calibration the firmware switches the load off
\* by itself only after more drops in a row than it tolerates, while a packet
\* waits for the client.
LoadOffOnlyWhenLost ==
  [][relay /\ ~relay' =>
       \/ SetRelay(FALSE) \/ Restart \/ PWM_Handler(FALSE)
       \/ lost_in_row' > MAX_DROPPED_PACKETS + 1 /\ pkts'[tx'].status = READY]_vars

\* The samples of the packet being filled, and of the one on offer.
Filling == [i \in 1 .. wemo_sample_idx |-> pkts[cur].data[i - 1]]
OnOffer == IF pkts[tx].status = READY
             THEN [i \in 1 .. PKT_SIZE |-> pkts[tx].data[i - 1]] ELSE << >>

Mailbox == INSTANCE PacketMailbox WITH
  PktSize <- PKT_SIZE, clock <- now, filling <- Filling, mailbox <- OnOffer

\* The ping-pong buffer implements the client's mailbox.
ImplementsMailbox == Mailbox!MailboxSpec
=============================================================================
