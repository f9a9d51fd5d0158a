---------------------------- MODULE PacketMailbox ----------------------------
(***************************************************************************)
(* What the power log promises its network client, with no ping-pong       *)
(* buffer in sight: samples are gathered into packets of PktSize; one      *)
(* finished packet waits in a mailbox of one place until the client asks   *)
(* for it; a packet finished while the mailbox is taken is discarded       *)
(* whole, never mixed with another one and never put in the place of the   *)
(* packet that waits.                                                      *)
(***************************************************************************)
EXTENDS Naturals, Sequences

CONSTANT PktSize           \* samples in a packet

VARIABLES
  clock,                   \* time of the last sample taken or packet asked for
  filling,                 \* the samples of the packet being gathered
  mailbox                  \* the finished packet on offer, << >> when there is none

mailboxVars == <<clock, filling, mailbox>>

NoPacket == << >>

MailboxInit == clock = 0 /\ filling = << >> /\ mailbox = NoPacket

\* Time passes and no sample is logged.
Pass == clock' = clock + 1 /\ UNCHANGED <<filling, mailbox>>

\* A sample joins the packet, which is not full yet.
Gather ==
  /\ clock' = clock + 1
  /\ Len(filling) + 1 < PktSize
  /\ filling' = Append(filling, clock')
  /\ UNCHANGED mailbox

\* A sample fills the packet: it is offered, or lost.
Finish ==
  /\ clock' = clock + 1
  /\ Len(filling) + 1 = PktSize
  /\ mailbox' = IF mailbox = NoPacket THEN Append(filling, clock') ELSE mailbox
  /\ filling' = << >>

\* The client takes the packet on offer.
Take == mailbox # NoPacket /\ mailbox' = NoPacket /\ UNCHANGED <<clock, filling>>

\* Main memory is lost in a restart.
Forget == filling' = << >> /\ mailbox' = NoPacket /\ UNCHANGED clock

MailboxNext == Pass \/ Gather \/ Finish \/ Take \/ Forget

MailboxSpec == MailboxInit /\ [][MailboxNext]_mailboxVars
=============================================================================
