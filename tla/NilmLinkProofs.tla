----------------------------- MODULE NilmLinkProofs -----------------------------
(***************************************************************************)
(* Proofs about the plug's dialogue with its manager and its NILM, for any *)
(* set of addresses and any behaviour of the module, the network and the   *)
(* hosts.                                                                  *)
(***************************************************************************)
EXTENDS NilmLink, TLAPS

Sending == {"connect", "reopen", "send", "sent"}
Answers == {"manager", "nilm", "former"}

(***************************************************************************)
(* Types.                                                                  *)
(***************************************************************************)

\* wifi_transmit runs with a host to go to.
Types == TypeOK /\ (pc \in Sending => dest \in Hosts)

Messages == [from : {"nobody", "manager", "nilm", "former", "client", "wiped"},
             addr : Addrs \cup {None}]

LEMMA MessageTypes ==
  /\ NoMessage \in Messages /\ Message("wiped", None) \in Messages
  /\ Message("client", None) \in Messages
  /\ \A f \in Answers, a \in Addrs \cup {None} : Message(f, a) \in Messages
  BY DEF Messages, NoMessage, Message, Answers

LEMMA TypesInit == Init => Types
  <1>1. Init => rx \in Messages
    BY MessageTypes DEF Init
  <1> QED
    BY <1>1 DEF Init, Types, TypeOK, Sending, Messages, Hosts

\* wifi_init returns to a place of its caller's.
Returns == {"fresh", "clear", "again", "tick", "data"}

LEMMA ReturnsTo == ASSUME NEW ok \in BOOLEAN, InitReturns(ok) PROVE pc' \in Returns
  BY DEF InitReturns, Returns

\* What wifi_init does before it sends, and where it goes.
LEMMA SetUpGoes ==
  ASSUME SetUpStep
  PROVE  /\ pc \in {"reset", "mode", "join", "ip"}
         /\ pc' \in Returns \cup {"mode", "join", "ip", "greet"}
         /\ joined' = joined \/ joined' \in BOOLEAN
         /\ (sock' = sock /\ due' = due) \/ (sock' = None /\ due' = None)
         /\ UNCHANGED <<nilm, tx_callback, rx, caller, dest, why, result>>
  <1>1. CASE ResetOk \/ JoinOk \/ AddressOk
    BY <1>1, SetUpStep DEF SetUpStep, ResetOk, JoinOk, AddressOk, Forget, chipVars, callVars
  <1>2. CASE ResetFails
    BY <1>2, SetUpStep, ReturnsTo DEF SetUpStep, ResetFails, Forget, chipVars, callVars
  <1>3. CASE Mode
    BY <1>3, SetUpStep, ReturnsTo DEF SetUpStep, Mode, chipVars, callVars
  <1>4. CASE JoinFails \/ AddressFails
    BY <1>4, SetUpStep, ReturnsTo DEF SetUpStep, JoinFails, AddressFails, chipVars, callVars
  <1> QED
    BY <1>1, <1>2, <1>3, <1>4 DEF SetUpStep, SetUp

LEMMA TypesStep == Types /\ [Next]_vars => Types'
  <1> SUFFICES ASSUME Types, [Next]_vars PROVE Types'
    OBVIOUS
  <1> USE NilmAssumption DEF Types, Sending
  <1>1. CASE SetUpStep
    BY <1>1, SetUpGoes DEF Returns, TypeOK
  <1>2. CASE Greet
    BY <1>2 DEF Greet, Transmit, chipVars, TypeOK, Hosts
  <1>3. CASE Connect
    BY <1>3 DEF Connect, Return, callVars, TypeOK, Hosts
  <1>4. CASE Reopen
    BY <1>4 DEF Reopen, Return, callVars, TypeOK, Hosts
  <1>5. CASE SendSucceeds \/ SendFails
    <2>1. rx' \in Messages
      BY <1>5, MessageTypes DEF SendSucceeds, SendFails, Wiped, TypeOK, Messages
    <2> QED
      BY <1>5, <2>1 DEF SendSucceeds, SendFails, Return, Forget, chipVars, TypeOK, Messages
  <1>6. CASE Transmitted
    <2>1. pc' \in Returns \cup {"log"}
      BY <1>6, ReturnsTo DEF Transmitted, Returns
    <2>2. tx_callback' \in BOOLEAN
      BY <1>6 DEF Transmitted, TypeOK
    <2> QED
      BY <1>6, <2>1, <2>2 DEF Transmitted, Returns, chipVars, callVars, TypeOK
  <1>7. CASE Logged
    <2>1. pc' \in Returns
      BY <1>7, ReturnsTo DEF Logged
    <2> QED
      BY <1>7, <2>1 DEF Logged, Returns, chipVars, callVars, TypeOK
  <1>8. CASE Fresh \/ Clear
    <2>1. rx' \in Messages
      BY <1>8, MessageTypes DEF Fresh, Clear
    <2> QED
      BY <1>8, <2>1 DEF Fresh, Clear, chipVars, callVars, TypeOK, Messages
  <1>81. CASE Tick \/ ProcessOther \/ Command
    BY <1>81 DEF Tick, ProcessOther, Command, CallInit, chipVars, callVars, TypeOK
  <1>82. CASE ProcessAnswer
    <2>1. CASE tx_callback /\ rx.addr # None
      <3>1. rx.addr \in Addrs
        BY <2>1 DEF TypeOK
      <3> QED
        BY <1>82, <2>1, <3>1 DEF ProcessAnswer, CallbackFor, Transmit, callVars, TypeOK, Hosts
    <2>2. CASE ~(tx_callback /\ rx.addr # None)
      <3>1. UNCHANGED <<nilm, rx, joined, caller, dest, why, result>> /\ pc' = "clear"
        BY <1>82, <2>2 DEF ProcessAnswer, CallbackFor, callVars
      <3>2. tx_callback' = FALSE \/ tx_callback' = tx_callback
        BY <1>82, <2>2 DEF ProcessAnswer, CallbackFor
      <3>3. tx_callback' \in BOOLEAN
        BY <3>2 DEF TypeOK
      <3>4. sock' \in Hosts \cup {None} /\ due' \in Hosts \cup {None, Former}
        BY <1>82 DEF ProcessAnswer, TypeOK
      <3> QED
        BY <3>1, <3>3, <3>4 DEF TypeOK
    <2> QED
      BY <2>1, <2>2
  <1>9. CASE Answer
    <2>1. nilm' = nilm /\ tx_callback' = tx_callback /\ joined' = joined /\ sock' = sock
          /\ pc' = pc /\ caller' = caller /\ dest' = dest /\ why' = why /\ result' = result
          /\ due' = None
      BY <1>9 DEF Answer, callVars
    <2>2. \/ rx' = rx
          \/ \E f \in Answers, a \in Addrs \cup {None} : rx' = Message(f, a)
      BY <1>9 DEF Answer, Answers
    <2> QED
      BY <2>1, <2>2, MessageTypes DEF Messages, TypeOK
  <1>10. CASE ClientCommand
    BY <1>10 DEF ClientCommand, Message, chipVars, callVars, TypeOK
  <1>11. CASE HostCloses \/ ModuleReset
    <2>1. UNCHANGED <<nilm, tx_callback, rx, pc, caller, dest, why, result>>
          /\ sock' = None /\ due' = None
      BY <1>11 DEF HostCloses, ModuleReset, Forget, callVars
    <2>2. joined' \in BOOLEAN
      BY <1>11 DEF HostCloses, ModuleReset, Forget, TypeOK
    <2> QED
      BY <2>1, <2>2 DEF TypeOK
  <1>12. CASE Restart
    BY <1>12 DEF Restart, Message, NoMessage, TypeOK
  <1>13. CASE UNCHANGED vars
    BY <1>13 DEF vars, chipVars, callVars, TypeOK
  <1>18. CASE Again
    BY <1>18 DEF Again, chipVars, callVars, TypeOK
  <1> QED
    BY <1>1, <1>2, <1>3, <1>4, <1>5, <1>6, <1>7, <1>8, <1>81, <1>82, <1>9, <1>10, <1>11, <1>12, <1>13, <1>18
    DEF Next, Main, Environment, wifi_transmit

\* The variables of the plug and the module have their types.
THEOREM NilmTypes == Spec => []TypeOK
  <1>1. Spec => []Types
    BY TypesInit, TypesStep, PTL DEF Spec
  <1> QED
    BY <1>1, PTL DEF Types

(***************************************************************************)
(* The host that gets what is sent.                                        *)
(***************************************************************************)

\* Data goes out only over a connection to its host, or over none.
HostInv == RightHost /\ (pc = "send" => sock \in {None, dest})

LEMMA HostInit == Init => HostInv
  BY NilmAssumption DEF Init, HostInv, RightHost, Hosts

LEMMA HostStep == Types /\ HostInv /\ [Next]_vars => HostInv'
  <1> SUFFICES ASSUME Types, HostInv, [Next]_vars PROVE HostInv'
    OBVIOUS
  <1> USE NilmAssumption DEF HostInv, RightHost, Hosts
  <1>1. CASE SetUpStep
    BY <1>1, SetUpGoes DEF Returns
  <1>2. CASE Greet
    BY <1>2 DEF Greet, Transmit, chipVars
  <1>3. CASE Connect
    <2>1. sock # None => sock' = sock
      BY <1>3 DEF Connect
    <2>2. due' = due
      BY <1>3 DEF Connect
    <2>3. pc' = "send" => sock' = dest /\ dest' = dest
      BY <1>3 DEF Connect, Return, callVars
    <2> QED
      BY <2>1, <2>2, <2>3
  <1>4. CASE Reopen
    BY <1>4 DEF Reopen, Return, callVars
  <1>5. CASE SendSucceeds
    BY <1>5 DEF SendSucceeds, Return
  <1>6. CASE SendFails
    BY <1>6 DEF SendFails, Return, Forget, chipVars
  <1>7. CASE Transmitted
    <2>1. pc' # "send"
      BY <1>7, ReturnsTo DEF Transmitted, Returns
    <2> QED
      BY <1>7, <2>1 DEF Transmitted, chipVars
  <1>8. CASE Logged
    <2>1. pc' # "send"
      BY <1>8, ReturnsTo DEF Logged, Returns
    <2> QED
      BY <1>8, <2>1 DEF Logged, chipVars
  <1>9. CASE Fresh \/ Clear \/ Tick \/ ProcessOther
    BY <1>9 DEF Fresh, Clear, Tick, ProcessOther, CallInit, chipVars, callVars
  <1>10. CASE Command
    BY <1>10 DEF Command, CallInit, chipVars
  <1>11. CASE ProcessAnswer
    BY <1>11 DEF ProcessAnswer, CallbackFor, Transmit, callVars
  <1>12. CASE Answer
    BY <1>12 DEF Answer, callVars
  <1>13. CASE ClientCommand \/ HostCloses \/ ModuleReset
    BY <1>13 DEF ClientCommand, HostCloses, ModuleReset, Forget, chipVars, callVars
  <1>14. CASE Restart
    BY <1>14 DEF Restart
  <1>15. CASE UNCHANGED vars
    BY <1>15 DEF vars, chipVars, callVars
  <1>18. CASE Again
    BY <1>18 DEF Again, chipVars, callVars
  <1> QED
    BY <1>1, <1>2, <1>3, <1>4, <1>5, <1>6, <1>7, <1>8, <1>9, <1>10, <1>11, <1>12, <1>13,
       <1>14, <1>15, <1>18
    DEF Next, Main, Environment, wifi_transmit

\* What a host gets on channel 4 was meant for it.
THEOREM NilmRightHost == Spec => []RightHost
  <1>1. Init => Types /\ HostInv
    BY TypesInit, HostInit
  <1>2. Types /\ HostInv /\ [Next]_vars => (Types /\ HostInv)'
    BY TypesStep, HostStep
  <1>3. Types /\ HostInv => RightHost
    BY DEF HostInv
  <1> QED
    BY <1>1, <1>2, <1>3, PTL DEF Spec

(***************************************************************************)
(* The manager's answer and its callback.                                  *)
(***************************************************************************)

\* The manager's request is out only with the callback set or about to be, no
\* answer is on hand then, and what the manager has said finds the callback.
AskInv ==
  /\ due = Mgr => rx.from \notin Answers
  /\ due = Mgr => tx_callback \/ (pc = "sent" /\ why = "ask")
  /\ rx.from = "manager" => tx_callback \/ pc = "clear" \/ (pc = "sent" /\ why = "ask")
  /\ pc \in Sending => (dest = Mgr <=> why = "ask")
  /\ pc \in Sending /\ why = "callback" => due # Mgr

LEMMA AskInit == Init => AskInv
  BY NilmAssumption DEF Init, AskInv, Answers, Sending, NoMessage, Message

LEMMA AskStep == Types /\ HostInv /\ AskInv /\ [Next]_vars => AskInv'
  <1> SUFFICES ASSUME Types, HostInv, AskInv, [Next]_vars PROVE AskInv'
    OBVIOUS
  <1> USE NilmAssumption DEF AskInv, Answers, Sending
  <1>1. CASE SetUpStep
    BY <1>1, SetUpGoes DEF Returns
  <1>2. CASE Greet
    BY <1>2 DEF Greet, Transmit, chipVars, Types, TypeOK
  <1>3. CASE Connect
    BY <1>3 DEF Connect, Return, callVars
  <1>4. CASE Reopen
    BY <1>4 DEF Reopen, Return, callVars
  <1>5. CASE SendSucceeds
    <2>1. rx'.from \notin Answers
      BY <1>5 DEF SendSucceeds, Wiped, NoMessage, Message
    <2> QED
      BY <1>5, <2>1 DEF SendSucceeds, Return
  <1>6. CASE SendFails
    <2>1. rx'.from \notin Answers
      BY <1>6 DEF SendFails, Wiped, NoMessage, Message
    <2> QED
      BY <1>6, <2>1 DEF SendFails, Return, Forget, chipVars
  <1>7. CASE Transmitted
    <2>1. pc' \in Returns \cup {"log"}
      BY <1>7, ReturnsTo DEF Transmitted, Returns
    <2>2. CASE why = "ask"
      BY <1>7, <2>1, <2>2 DEF Transmitted, Returns, chipVars, callVars
    <2>3. CASE why = "init"
      BY <1>7, <2>1, <2>3 DEF Transmitted, Returns, chipVars, callVars
    <2>4. CASE why = "callback"
      BY <1>7, <2>1, <2>4 DEF Transmitted, Returns, chipVars, callVars
    <2> QED
      BY <2>2, <2>3, <2>4 DEF Types, TypeOK
  <1>8. CASE Logged
    <2>1. pc' \in Returns
      BY <1>8, ReturnsTo DEF Logged
    <2> QED
      BY <1>8, <2>1 DEF Logged, Returns, chipVars, callVars
  <1>9. CASE Fresh \/ Clear
    <2>1. rx'.from \notin Answers
      BY <1>9 DEF Fresh, Clear, NoMessage, Message
    <2> QED
      BY <1>9, <2>1 DEF Fresh, Clear, chipVars, callVars
  <1>10. CASE Tick \/ ProcessOther
    BY <1>10 DEF Tick, ProcessOther, CallInit, chipVars, callVars
  <1>11. CASE Command
    BY <1>11 DEF Command, CallInit, chipVars, callVars
  <1>12. CASE ProcessAnswer
    <2>1. due # Mgr /\ due' # Mgr
      BY <1>12 DEF ProcessAnswer
    <2>2. CASE tx_callback /\ rx.addr # None
      <3>1. rx.addr # Mgr
        BY <2>2 DEF Types, TypeOK
      <3> QED
        BY <1>12, <2>1, <2>2, <3>1 DEF ProcessAnswer, CallbackFor, Transmit
    <2>3. CASE ~(tx_callback /\ rx.addr # None)
      <3>1. pc' = "clear"
        BY <1>12, <2>3 DEF ProcessAnswer, CallbackFor
      <3> QED
        BY <2>1, <3>1
    <2> QED
      BY <2>2, <2>3
  <1>13. CASE Answer
    <2>1. due' = None /\ UNCHANGED <<tx_callback, pc, dest, why>>
      BY <1>13 DEF Answer, callVars
    <2>2. rx' = rx \/ (rx'.from = "manager" => due # Former /\ sock = Mgr /\ due # None)
      BY <1>13 DEF Answer, Message
    <2>3. rx' = rx \/ (rx'.from = "manager" => due = Mgr)
      BY <2>2 DEF HostInv, RightHost, Hosts, Types, TypeOK
    <2> QED
      BY <2>1, <2>3
  <1>14. CASE ClientCommand
    BY <1>14 DEF ClientCommand, Message, chipVars, callVars
  <1>15. CASE HostCloses \/ ModuleReset
    BY <1>15 DEF HostCloses, ModuleReset, Forget, callVars
  <1>16. CASE Restart
    BY <1>16 DEF Restart, NoMessage, Message
  <1>17. CASE UNCHANGED vars
    BY <1>17 DEF vars, chipVars, callVars
  <1>18. CASE Again
    BY <1>18 DEF Again, chipVars, callVars
  <1> QED
    BY <1>1, <1>2, <1>3, <1>4, <1>5, <1>6, <1>7, <1>8, <1>9, <1>10, <1>11, <1>12, <1>13,
       <1>14, <1>15, <1>16, <1>17, <1>18
    DEF Next, Main, Environment, wifi_transmit

\* The manager's answer finds the callback, and no other answer uses it up.
THEOREM NilmAnswerFindsCallback == Spec => []AnswerFindsCallback
  <1>1. Init => Types /\ HostInv /\ AskInv
    BY TypesInit, HostInit, AskInit
  <1>2. Types /\ HostInv /\ AskInv /\ [Next]_vars => (Types /\ HostInv /\ AskInv)'
    BY TypesStep, HostStep, AskStep
  <1>3. Types /\ HostInv /\ AskInv => AnswerFindsCallback
    BY DEF AskInv, AnswerFindsCallback, Answers
  <1> QED
    BY <1>1, <1>2, <1>3, PTL DEF Spec
=============================================================================
