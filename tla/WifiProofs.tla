------------------------------ MODULE WifiProofs ------------------------------
(***************************************************************************)
(* Proofs about the link to the WiFi module, for any number of calls,      *)
(* messages and time-outs, any commands and buffers of any size.           *)
(***************************************************************************)
EXTENDS Wifi, SequenceTheorems, TLAPS

(***************************************************************************)
(* Sequences: what taking the first element and adding a piece at the end  *)
(* do to the elements and their places.                                    *)
(***************************************************************************)

LEMMA TailFacts ==
  ASSUME NEW S, NEW s \in Seq(S), s # <<>>
  PROVE  /\ Tail(s) \in Seq(S) /\ Head(s) \in S /\ Head(s) = s[1]
         /\ Len(s) \in Nat \ {0} /\ Len(Tail(s)) = Len(s) - 1
         /\ DOMAIN s = 1 .. Len(s) /\ DOMAIN Tail(s) = 1 .. Len(s) - 1
         /\ \A i \in 1 .. Len(s) - 1 : Tail(s)[i] = s[i + 1]
  OBVIOUS

LEMMA AppendFacts ==
  ASSUME NEW S, NEW s \in Seq(S), NEW e \in S
  PROVE  /\ Append(s, e) \in Seq(S) /\ Len(s) \in Nat
         /\ Len(Append(s, e)) = Len(s) + 1
         /\ DOMAIN s = 1 .. Len(s) /\ DOMAIN Append(s, e) = 1 .. Len(s) + 1
         /\ \A i \in 1 .. Len(s) : Append(s, e)[i] = s[i]
         /\ Append(s, e)[Len(s) + 1] = e
         /\ Append(s, e) = s \o <<e>>
  BY AppendProperties, AppendIsConcat

LEMMA ConcatFacts ==
  ASSUME NEW S, NEW s \in Seq(S), NEW t \in Seq(S)
  PROVE  /\ s \o t \in Seq(S) /\ Len(s) \in Nat /\ Len(t) \in Nat
         /\ Len(s \o t) = Len(s) + Len(t)
         /\ DOMAIN s = 1 .. Len(s) /\ DOMAIN t = 1 .. Len(t)
         /\ DOMAIN (s \o t) = 1 .. Len(s) + Len(t)
         /\ \A i \in 1 .. Len(s) : (s \o t)[i] = s[i]
         /\ \A i \in 1 .. Len(t) : (s \o t)[Len(s) + i] = t[i]
  <1>1. s \o t \in Seq(S) /\ Len(s \o t) = Len(s) + Len(t)
    BY ConcatProperties
  <1>2. Len(s) \in Nat /\ Len(t) \in Nat /\ DOMAIN s = 1 .. Len(s) /\ DOMAIN t = 1 .. Len(t)
    OBVIOUS
  <1>3. \A i \in 1 .. Len(s) + Len(t) :
          (s \o t)[i] = IF i =< Len(s) THEN s[i] ELSE t[i - Len(s)]
    BY ConcatProperties
  <1>4. \A i \in 1 .. Len(s) : (s \o t)[i] = s[i]
    BY <1>2, <1>3
  <1>5. ASSUME NEW i \in 1 .. Len(t) PROVE (s \o t)[Len(s) + i] = t[i]
    <2>1. Len(s) + i \in 1 .. Len(s) + Len(t) /\ ~(Len(s) + i =< Len(s)) /\ (Len(s) + i) - Len(s) = i
      BY <1>2
    <2> QED
      BY <1>3, <2>1
  <1>6. DOMAIN (s \o t) = 1 .. Len(s) + Len(t)
    BY <1>1
  <1> QED
    BY <1>1, <1>2, <1>4, <1>5, <1>6

(***************************************************************************)
(* The inductive invariant.                                                *)
(***************************************************************************)

InCmd  == pc \in {"cmd_reset", "cmd_write", "cmd_arm", "cmd_wait", "cmd_return"}
InSend == pc \in {"send_take", "send_clear", "send_write", "send_arm", "send_wait", "send_check"}

PCs == {"idle", "process", "send_release",
        "cmd_reset", "cmd_write", "cmd_arm", "cmd_wait", "cmd_return",
        "send_take", "send_clear", "send_write", "send_arm", "send_wait", "send_check"}

Kinds == {"echo", "body", "done", "sent", "fail", "link", "ready", "head", "more"}

Ids == {<<"none", 0>>, <<"net", 0>>}
         \cup {<<"cmd", t>> : t \in Texts} \cup {<<"send", n>> : n \in Nat}
         \cup {<<"net", n, l, i>> : n \in Nat, l \in Nat, i \in Nat}

Token == [kind : Kinds, of : Ids]
Entry == [of : Ids, data : BOOLEAN, echoed : BOOLEAN]

\* A transmission that has been begun.
SendId(s) == s[1] = "send" /\ s[2] \in 1 .. calls

Types ==
  /\ todo \in Seq(Entry) /\ out \in Seq(Token) /\ news \in Nat
  /\ resp_buf \in Seq(Token) /\ wifi_rx_buf \in Seq(Token) /\ answer \in Seq(Token)
  /\ pc \in PCs /\ back \in {"idle", "process"} /\ req \in Ids
  /\ calls \in Nat /\ repeated \in BOOLEAN /\ cut \in BOOLEAN
  /\ \A i \in DOMAIN todo : todo[i].data => SendId(todo[i].of)
  /\ TypeOK

\* Who has the line, the state of the transmission and the turns left, by where
\* the main loop is.
Line ==
  /\ timer <=> pc \in {"cmd_wait", "send_wait"}
  /\ pc \in {"idle", "process", "cmd_return"} => ~rx_wait
  /\ InSend => data_tx_status \in {"TX_PENDING", "TX_SUCCESS"}
  /\ ~InSend => data_tx_status # "TX_PENDING"
  /\ pc = "send_check" => ~rx_wait \/ data_tx_status = "TX_SUCCESS"
  /\ (InCmd /\ pc # "cmd_return") \/ InSend => timeout > 0
  /\ InSend \/ pc = "send_release" => req = <<"send", calls>> /\ calls > 0

\* The buffer for the core is written from its beginning to its end, and stays
\* full while the main loop processes what it holds.
Held ==
  /\ wifi_rx_buf_idx =< Len(wifi_rx_buf)
  /\ wifi_rx_buf_full => wifi_rx_buf_idx = 0 /\ ~rx_in_prog
  /\ pc = "process" \/ (back = "process" /\ pc # "idle") => wifi_rx_buf_full

\* What comes behind the head of a message in s is all of this message.
WholeIn(s) ==
  \A i \in DOMAIN s : s[i].kind = "head" =>
    LET m == s[i].of IN
      /\ m[3] \in Lengths
      /\ \A j \in 1 .. m[3] : /\ i + j - 1 \in DOMAIN s
                              /\ s[i + j - 1].of = <<"net", m[2], m[3], j>>

\* A reception that has lost nothing holds the first bytes of its message, and
\* the others come next.
Reception ==
  /\ rx_wait /\ rx_in_prog => cut
  /\ cut => rx_in_prog
  /\ wifi_rx_buf_idx > 0 /\ ~rx_in_prog => wifi_rx_buf[1].kind # "head"
  /\ rx_in_prog /\ ~cut =>
       LET m == wifi_rx_buf[1].of IN
         /\ wifi_rx_buf_idx > 0 /\ m[3] \in Lengths
         /\ rx_bytes_expected = m[3] /\ rx_bytes_recvd = wifi_rx_buf_idx
         /\ \A j \in 1 .. m[3] :
              IF j =< wifi_rx_buf_idx THEN wifi_rx_buf[j].of = <<"net", m[2], m[3], j>>
              ELSE /\ j - wifi_rx_buf_idx \in DOMAIN out
                   /\ out[j - wifi_rx_buf_idx].of = <<"net", m[2], m[3], j>>

WInv == Types /\ Line /\ Held /\ WholeIn(out) /\ Reception

(***************************************************************************)
(* The pieces of the model.                                                *)
(***************************************************************************)

\* Every token and request that the actions make is one.
LEMMA Made ==
  /\ \A k \in Kinds, r \in Ids : Tok(k, r) \in Token /\ Tok(k, r).kind = k /\ Tok(k, r).of = r
  /\ \A t \in Texts : <<"cmd", t>> \in Ids
  /\ \A n \in Nat : <<"send", n>> \in Ids
  /\ \A n, l, i \in Nat : <<"net", n, l, i>> \in Ids
  /\ <<"none", 0>> \in Ids /\ <<"net", 0>> \in Ids
  BY DEF Tok, Token, Kinds, Ids

\* A whole message.
Piece(n, l) == [i \in 1 .. l |-> Tok(IF i = 1 THEN "head" ELSE "more", <<"net", n, l, i>>)]

LEMMA PieceFacts ==
  ASSUME NEW n \in Nat, NEW l \in Lengths
  PROVE  /\ Piece(n, l) \in Seq(Token) /\ Len(Piece(n, l)) = l
         /\ WholeIn(Piece(n, l))
         /\ \A i \in DOMAIN Piece(n, l) : Piece(n, l)[i].kind \in {"head", "more"}
  <1>1. l \in Nat
    BY WifiAssumption
  <1>2. \A i \in 1 .. l :
          /\ Piece(n, l)[i] = Tok(IF i = 1 THEN "head" ELSE "more", <<"net", n, l, i>>)
          /\ Piece(n, l)[i] \in Token /\ Piece(n, l)[i].of = <<"net", n, l, i>>
          /\ Piece(n, l)[i].kind = IF i = 1 THEN "head" ELSE "more"
    <2> TAKE i \in 1 .. l
    <2>1. <<"net", n, l, i>> \in Ids /\ (IF i = 1 THEN "head" ELSE "more") \in Kinds
      <3>1. i \in Nat
        BY <1>1
      <3> QED
        BY <1>1, <3>1, Made DEF Kinds
    <2>2. Piece(n, l)[i] = Tok(IF i = 1 THEN "head" ELSE "more", <<"net", n, l, i>>)
      BY DEF Piece
    <2> QED
      BY <2>1, <2>2, Made
  <1>3. DOMAIN Piece(n, l) = 1 .. l
    BY DEF Piece
  <1>4. Piece(n, l) \in Seq(Token) /\ Len(Piece(n, l)) = l
    <2>1. Piece(n, l) \in [1 .. l -> Token]
      BY <1>2 DEF Piece
    <2> QED
      BY <1>1, <2>1
  <1>5. WholeIn(Piece(n, l))
    <2> SUFFICES ASSUME NEW i \in 1 .. l, Piece(n, l)[i].kind = "head"
                 PROVE  LET m == Piece(n, l)[i].of IN
                        /\ m[3] \in Lengths
                        /\ \A j \in 1 .. m[3] :
                             /\ i + j - 1 \in 1 .. l
                             /\ Piece(n, l)[i + j - 1].of = <<"net", m[2], m[3], j>>
      BY <1>3 DEF WholeIn
    <2>1. i = 1 /\ Piece(n, l)[1].of = <<"net", n, l, 1>>
      BY <1>2
    <2>2. Piece(n, l)[1].of[2] = n /\ Piece(n, l)[1].of[3] = l
      BY <2>1
    <2>3. \A j \in 1 .. l : i + j - 1 = j
      BY <1>1, <2>1
    <2> QED
      BY <1>2, <2>1, <2>2, <2>3
  <1> QED
    BY <1>2, <1>3, <1>4, <1>5

LEMMA OneBack ==
  ASSUME NEW n \in Nat, NEW i \in Nat \ {0}, NEW j \in Nat \ {0}, (i + 1) + j - 1 \in 1 .. n
  PROVE  i + j - 1 \in 1 .. n - 1 /\ (i + j - 1) + 1 = (i + 1) + j - 1
  OBVIOUS

\* A piece at the end, or the first token taken, leaves whole messages whole.
LEMMA WholeConcat ==
  ASSUME NEW s \in Seq(Token), NEW t \in Seq(Token), WholeIn(s), WholeIn(t)
  PROVE  WholeIn(s \o t)
  <1> DEFINE u == s \o t
  <1>1. /\ Len(s) \in Nat /\ Len(t) \in Nat
        /\ DOMAIN s = 1 .. Len(s) /\ DOMAIN t = 1 .. Len(t)
        /\ DOMAIN u = 1 .. Len(s) + Len(t)
        /\ \A i \in 1 .. Len(s) : u[i] = s[i]
        /\ \A i \in 1 .. Len(t) : u[Len(s) + i] = t[i]
    BY ConcatFacts
  <1> HIDE DEF u
  <1> SUFFICES ASSUME NEW i \in DOMAIN u, u[i].kind = "head"
               PROVE  /\ u[i].of[3] \in Lengths
                      /\ \A j \in 1 .. u[i].of[3] :
                           /\ i + j - 1 \in DOMAIN u
                           /\ u[i + j - 1].of = <<"net", u[i].of[2], u[i].of[3], j>>
    BY DEF WholeIn, u
  <1>2. CASE i \in 1 .. Len(s)
    <2>1. /\ s[i].of[3] \in Lengths
          /\ \A j \in 1 .. s[i].of[3] :
               /\ i + j - 1 \in DOMAIN s
               /\ s[i + j - 1].of = <<"net", s[i].of[2], s[i].of[3], j>>
      BY <1>1, <1>2 DEF WholeIn
    <2>2. DOMAIN s \subseteq DOMAIN u
      BY <1>1
    <2> QED
      BY <1>1, <1>2, <2>1, <2>2
  <1>3. CASE i \notin 1 .. Len(s)
    <2> DEFINE k == i - Len(s)
    <2>1. k \in 1 .. Len(t) /\ u[i] = t[k] /\ i = Len(s) + k
      <3>1. k \in 1 .. Len(t) /\ i = Len(s) + k
        BY <1>1, <1>3
      <3> QED
        BY <1>1, <3>1
    <2> HIDE DEF k
    <2>2. /\ t[k].of[3] \in Lengths
          /\ \A j \in 1 .. t[k].of[3] :
               /\ k + j - 1 \in DOMAIN t
               /\ t[k + j - 1].of = <<"net", t[k].of[2], t[k].of[3], j>>
      BY <1>1, <2>1 DEF WholeIn
    <2>3. ASSUME NEW j \in 1 .. t[k].of[3]
          PROVE  i + j - 1 \in DOMAIN u /\ u[i + j - 1] = t[k + j - 1]
      <3>1. t[k].of[3] \in Nat
        BY <2>2, WifiAssumption
      <3>2. i + j - 1 = Len(s) + (k + j - 1) /\ k + j - 1 \in 1 .. Len(t)
        BY <1>1, <2>1, <2>2, <3>1
      <3>3. i + j - 1 \in DOMAIN u
        BY ONLY <1>1, <3>2
      <3> QED
        BY ONLY <1>1, <3>2, <3>3
    <2> QED
      BY <2>1, <2>2, <2>3
  <1> QED
    BY <1>2, <1>3

LEMMA WholeTail ==
  ASSUME NEW s \in Seq(Token), s # <<>>, WholeIn(s)
  PROVE  WholeIn(Tail(s))
  <1> DEFINE u == Tail(s)
  <1>1. /\ Len(s) \in Nat \ {0} /\ DOMAIN s = 1 .. Len(s) /\ DOMAIN u = 1 .. Len(s) - 1
        /\ \A i \in 1 .. Len(s) - 1 : u[i] = s[i + 1]
    BY TailFacts
  <1> HIDE DEF u
  <1> SUFFICES ASSUME NEW i \in DOMAIN u, u[i].kind = "head"
               PROVE  /\ u[i].of[3] \in Lengths
                      /\ \A j \in 1 .. u[i].of[3] :
                           /\ i + j - 1 \in DOMAIN u
                           /\ u[i + j - 1].of = <<"net", u[i].of[2], u[i].of[3], j>>
    BY DEF WholeIn, u
  <1>2. i + 1 \in DOMAIN s /\ u[i] = s[i + 1]
    BY <1>1
  <1>3. /\ s[i + 1].of[3] \in Lengths
        /\ \A j \in 1 .. s[i + 1].of[3] :
             /\ (i + 1) + j - 1 \in DOMAIN s
             /\ s[(i + 1) + j - 1].of = <<"net", s[i + 1].of[2], s[i + 1].of[3], j>>
    BY <1>2 DEF WholeIn
  <1>4. ASSUME NEW j \in 1 .. u[i].of[3]
        PROVE  i + j - 1 \in DOMAIN u /\ u[i + j - 1] = s[(i + 1) + j - 1]
    <2>1. u[i].of[3] \in Nat
      BY <1>2, <1>3, WifiAssumption
    <2>2. (i + 1) + j - 1 \in 1 .. Len(s) /\ i \in Nat \ {0} /\ j \in Nat \ {0}
      BY <1>1, <1>2, <1>3, <2>1
    <2>3. Len(s) \in Nat
      BY <1>1
    <2>4. i + j - 1 \in 1 .. Len(s) - 1 /\ (i + j - 1) + 1 = (i + 1) + j - 1
      BY ONLY <2>2, <2>3, OneBack
    <2> QED
      BY <1>1, <2>4
  <1> QED
    BY <1>2, <1>3, <1>4

\* The buffer for the core with a token written.
LEMMA BufferedFacts ==
  ASSUME Types, Held, NEW tok \in Token, wifi_rx_buf_idx < WIFI_RX_BUF_SIZE
  PROVE  /\ Buffered(tok) \in Seq(Token)
         /\ Len(Buffered(tok)) \in 1 .. WIFI_RX_BUF_SIZE
         /\ wifi_rx_buf_idx + 1 =< Len(Buffered(tok))
         /\ Buffered(tok)[wifi_rx_buf_idx + 1] = tok
         /\ \A i \in 1 .. Len(Buffered(tok)) :
              i # wifi_rx_buf_idx + 1 => Buffered(tok)[i] = wifi_rx_buf[i]
  <1> DEFINE L == Len(wifi_rx_buf)
             N == IF wifi_rx_buf_idx < L THEN L ELSE wifi_rx_buf_idx + 1
  <1>1. /\ wifi_rx_buf \in Seq(Token) /\ L \in Nat /\ wifi_rx_buf_idx \in Nat
        /\ wifi_rx_buf_idx =< L /\ L =< WIFI_RX_BUF_SIZE /\ WIFI_RX_BUF_SIZE \in Nat
    BY WifiAssumption DEF Types, TypeOK, Held
  <1>2. /\ N \in 1 .. WIFI_RX_BUF_SIZE /\ wifi_rx_buf_idx + 1 \in 1 .. N
        /\ \A i \in 1 .. N : i # wifi_rx_buf_idx + 1 => i \in 1 .. L
    BY <1>1
  <1>3. Buffered(tok) = [i \in 1 .. N |-> IF i = wifi_rx_buf_idx + 1 THEN tok ELSE wifi_rx_buf[i]]
    BY DEF Buffered
  <1> HIDE DEF N
  <1>4. \A i \in 1 .. L : wifi_rx_buf[i] \in Token
    BY <1>1
  <1> HIDE DEF L
  <1>5. Buffered(tok) \in [1 .. N -> Token]
    BY <1>2, <1>3, <1>4
  <1>6. Buffered(tok) \in Seq(Token) /\ Len(Buffered(tok)) = N
    BY <1>2, <1>5
  <1> QED
    BY <1>2, <1>3, <1>6

\* A message begins where the buffer does.
LEMMA BeginsHere ==
  ASSUME Types, Held, Reception, NEW tok \in Token, wifi_rx_buf_idx < WIFI_RX_BUF_SIZE,
         Begin(tok)
  PROVE  wifi_rx_buf_idx = 0 /\ Buffered(tok)[1] = tok
  <1>1. /\ ~rx_in_prog /\ Buffered(tok)[1].kind = "head"
        /\ wifi_rx_buf_idx \in Nat
    BY DEF Begin, Types, TypeOK
  <1>2. 1 \in 1 .. Len(Buffered(tok))
    BY BufferedFacts
  <1>3. ASSUME wifi_rx_buf_idx # 0 PROVE FALSE
    <2>1. wifi_rx_buf_idx > 0 /\ 1 # wifi_rx_buf_idx + 1
      BY <1>1, <1>3
    <2>2. Buffered(tok)[1] = wifi_rx_buf[1]
      BY <1>2, <2>1, BufferedFacts
    <2> QED
      BY <1>1, <2>1, <2>2 DEF Reception
  <1>4. Buffered(tok)[1] = tok
    BY <1>3, BufferedFacts
  <1> QED
    BY <1>3, <1>4

\* What the handler's steps leave and the places they write to.
LEMMA HandlerFacts ==
  ASSUME Types, UART0_Handler
  PROVE  /\ out # <<>> /\ out' = Tail(out) /\ Head(out) \in Token
         /\ UNCHANGED <<todo, news, delivered, timer, pc, callVars, claimed, doubtful>>
         /\ ForCommand(Head(out)) \/ ForTransmission(Head(out)) \/ ForCore(Head(out))
  BY TailFacts DEF UART0_Handler, Types

(***************************************************************************)
(* Types.                                                                  *)
(***************************************************************************)

LEMMA TypesInit == Init => Types
  <1> SUFFICES ASSUME Init PROVE Types
    OBVIOUS
  <1>1. /\ <<>> \in Seq(Entry) /\ <<>> \in Seq(Token) /\ DOMAIN <<>> = {} /\ Len(<<>>) = 0
        /\ 0 =< RESP_BUF_SIZE /\ 0 =< WIFI_RX_BUF_SIZE
        /\ 0 \in 0 .. TIMEOUT /\ 0 \in 0 .. WIFI_RX_BUF_SIZE /\ 0 \in 0 .. RESP_BUF_SIZE
    BY WifiAssumption
  <1>2. todo \in Seq(Entry) /\ \A i \in DOMAIN todo : todo[i].data => SendId(todo[i].of)
    BY <1>1 DEF Init
  <1>3. TypeOK
    BY <1>1 DEF Init, TypeOK, Statuses
  <1> QED
    BY <1>1, <1>2, <1>3, Made DEF Init, Types, PCs

\* The parts of Types that the handler for received bytes writes.
LEMMA TypesHandler ==
  ASSUME Types, Held, WholeIn(out), Reception, UART0_Handler
  PROVE  Types'
  <1> DEFINE tok == Head(out)
  <1>1. /\ out # <<>> /\ out' = Tail(out) /\ tok \in Token
        /\ UNCHANGED <<todo, news, delivered, timer, pc, callVars, claimed, doubtful>>
        /\ ForCommand(tok) \/ ForTransmission(tok) \/ ForCore(tok)
    BY HandlerFacts
  <1>2. out' \in Seq(Token)
    BY <1>1 DEF Types
  <1> HIDE DEF tok
  <1>3. CASE ForCommand(tok)
    <2>1. CASE Len(resp_buf) >= RESP_BUF_SIZE
      BY <1>1, <1>2, <1>3, <2>1
      DEF ForCommand, Types, TypeOK, rxVars, callVars, SendId
    <2>2. CASE ~(Len(resp_buf) >= RESP_BUF_SIZE)
      <3>1. /\ resp_buf' = Append(resp_buf, tok)
            /\ rx_complete' \in BOOLEAN /\ rx_wait' \in BOOLEAN
            /\ UNCHANGED <<data_tx_status, rxVars, cut>>
        BY <1>3, <2>2 DEF ForCommand, Types, TypeOK
      <3>2. /\ resp_buf' \in Seq(Token) /\ Len(resp_buf') = Len(resp_buf) + 1
            /\ Len(resp_buf) \in Nat
        BY <1>1, <3>1, AppendFacts DEF Types
      <3>3. Len(resp_buf') =< RESP_BUF_SIZE
        BY <2>2, <3>2, WifiAssumption
      <3> QED
        BY <1>1, <1>2, <3>1, <3>2, <3>3 DEF Types, TypeOK, rxVars, callVars, SendId
    <2> QED
      BY <2>1, <2>2
  <1>4. CASE ForTransmission(tok)
    <2>1. resp_buf' \in Seq(Token) /\ Len(resp_buf') = 1
      BY <1>1, <1>4 DEF ForTransmission
    <2> QED
      BY <1>1, <1>2, <1>4, <2>1, WifiAssumption
      DEF ForTransmission, Types, TypeOK, rxVars, callVars, Statuses, SendId
  <1>5. CASE ForCore(tok)
    <2>1. CASE wifi_rx_buf_full
      BY <1>1, <1>2, <1>5, <2>1
      DEF ForCore, Types, TypeOK, rxVars, waitVars, callVars, SendId
    <2>2. CASE ~wifi_rx_buf_full
      <3>1. Store(tok) /\ UNCHANGED waitVars
        BY <1>5, <2>2 DEF ForCore
      <3>2. /\ wifi_rx_buf' \in Seq(Token) /\ Len(wifi_rx_buf') =< WIFI_RX_BUF_SIZE
            /\ wifi_rx_buf_full' \in BOOLEAN /\ rx_in_prog' \in BOOLEAN /\ cut' \in BOOLEAN
            /\ rx_bytes_recvd' \in Nat /\ rx_bytes_expected' \in Nat
            /\ wifi_rx_buf_idx' \in 0 .. WIFI_RX_BUF_SIZE
        <4>1. CASE wifi_rx_buf_idx >= WIFI_RX_BUF_SIZE
          BY <3>1, <4>1, WifiAssumption DEF Store, TooMuch, Types, TypeOK
        <4>2. CASE ~(wifi_rx_buf_idx >= WIFI_RX_BUF_SIZE)
          <5>1. /\ wifi_rx_buf_idx \in Nat /\ wifi_rx_buf_idx < WIFI_RX_BUF_SIZE
                /\ WIFI_RX_BUF_SIZE \in Nat /\ rx_bytes_recvd \in Nat
                /\ 0 \in 0 .. WIFI_RX_BUF_SIZE
                /\ wifi_rx_buf_idx + 1 \in 0 .. WIFI_RX_BUF_SIZE
            BY <4>2, WifiAssumption DEF Types, TypeOK
          <5>2. Buffered(tok) \in Seq(Token) /\ Len(Buffered(tok)) =< WIFI_RX_BUF_SIZE
            BY <1>1, <5>1, BufferedFacts
          <5>3. CASE Count(tok)
            BY <5>1, <5>2, <5>3 DEF Count, Types, TypeOK
          <5>4. CASE Begin(tok)
            <6>1. rx_bytes_expected' \in Nat
              <7>1. wifi_rx_buf_idx = 0 /\ Buffered(tok)[1] = tok
                BY <1>1, <5>1, <5>4, BeginsHere DEF Begin
              <7>2. tok.kind = "head" /\ rx_bytes_expected' = tok.of[3]
                BY <5>4, <7>1 DEF Begin
              <7>3. 1 \in DOMAIN out /\ out[1] = tok
                BY <1>1, TailFacts DEF Types, tok
              <7>4. tok.of[3] \in Lengths
                BY <7>2, <7>3 DEF WholeIn
              <7> QED
                BY <7>2, <7>4, WifiAssumption
            <6> QED
              BY <5>1, <5>2, <5>4, <6>1 DEF Begin, Types, TypeOK
          <5>5. CASE Search(tok)
            <6>1. /\ wifi_rx_buf' = <<>> \/ wifi_rx_buf' = Buffered(tok)
                  /\ wifi_rx_buf_idx' \in {0, wifi_rx_buf_idx + 1}
                  /\ UNCHANGED <<wifi_rx_buf_full, rx_in_prog, rx_bytes_recvd,
                                 rx_bytes_expected, cut>>
              BY <5>5 DEF Search
            <6>2. wifi_rx_buf' \in Seq(Token) /\ Len(wifi_rx_buf') =< WIFI_RX_BUF_SIZE
              <7>1. CASE wifi_rx_buf' = <<>>
                BY <5>1, <7>1
              <7>2. CASE wifi_rx_buf' = Buffered(tok)
                BY <5>2, <7>2
              <7> QED
                BY <6>1, <7>1, <7>2
            <6> QED
              BY <5>1, <6>1, <6>2 DEF Types, TypeOK
          <5> QED
            BY <3>1, <4>2, <5>3, <5>4, <5>5 DEF Store
        <4> QED
          BY <4>1, <4>2
      <3> QED
        BY <1>1, <1>2, <3>1, <3>2 DEF Types, TypeOK, waitVars, callVars, SendId
    <2> QED
      BY <2>1, <2>2
  <1> QED
    BY <1>1, <1>3, <1>4, <1>5

\* The parts that belong to the module.
LEMMA TypesModule ==
  ASSUME Types, Module
  PROVE  Types'
  <1> USE DEF Types, TypeOK, waitVars, rxVars, callVars, histVars, SendId
  <1>1. CASE Echo
    <2>1. /\ todo # <<>> /\ Head(todo) \in Entry /\ todo[1] = Head(todo) /\ 1 \in DOMAIN todo
          /\ UNCHANGED <<news, delivered, waitVars, rxVars, timer, pc, callVars, histVars>>
      BY <1>1, TailFacts DEF Echo
    <2>2. out' \in Seq(Token)
      BY <1>1, <2>1, Made, AppendFacts DEF Echo, Entry, Kinds
    <2>3. /\ todo' \in Seq(Entry) /\ DOMAIN todo' = DOMAIN todo
          /\ \A i \in DOMAIN todo : todo'[i].of = todo[i].of /\ todo'[i].data = todo[i].data
      <3>1. todo' = [todo EXCEPT ![1] = [todo[1] EXCEPT !.echoed = TRUE]]
        BY <1>1 DEF Echo
      <3>2. /\ [todo[1] EXCEPT !.echoed = TRUE] \in Entry
            /\ [todo[1] EXCEPT !.echoed = TRUE].of = todo[1].of
            /\ [todo[1] EXCEPT !.echoed = TRUE].data = todo[1].data
        BY <2>1 DEF Entry
      <3> QED
        BY <2>1, <3>1, <3>2
    <2> QED
      BY <2>1, <2>2, <2>3
  <1>2. CASE Answer
    <2>1. /\ todo # <<>> /\ Head(todo) \in Entry /\ todo[1] = Head(todo) /\ 1 \in DOMAIN todo
          /\ todo' = Tail(todo) /\ todo' \in Seq(Entry)
          /\ \A i \in DOMAIN todo' : i + 1 \in DOMAIN todo /\ todo'[i] = todo[i + 1]
          /\ UNCHANGED <<news, waitVars, rxVars, timer, pc, callVars, histVars>>
      BY <1>2, TailFacts DEF Answer
    <2>2. \A k \in Kinds : Tok(k, Head(todo).of) \in Token
      BY <2>1, Made DEF Entry
    <2>3. out' \in Seq(Token)
      <3>1. /\ Append(out, Tok("body", Head(todo).of)) \in Seq(Token)
            /\ Append(out, Tok("sent", Head(todo).of)) \in Seq(Token)
            /\ Append(out, Tok("fail", Head(todo).of)) \in Seq(Token)
        BY <2>2, AppendFacts DEF Kinds
      <3>2. out \o <<Tok("body", Head(todo).of), Tok("done", Head(todo).of)>> \in Seq(Token)
        BY <2>2, ConcatFacts DEF Kinds
      <3> QED
        BY <1>2, <3>1, <3>2 DEF Answer
    <2>4. delivered' = delivered \/ (todo[1].data /\ delivered' = delivered \cup {todo[1].of})
      BY <1>2, <2>1 DEF Answer
    <2>5. \A s \in claimed' \cup delivered' \cup doubtful' : s[1] = "send" /\ s[2] \in 1 .. calls'
      BY <2>1, <2>4
    <2> QED
      BY <2>1, <2>3, <2>5
  <1>3. CASE News
    <2>1. /\ news' = news + 1 /\ news' \in Nat
          /\ UNCHANGED <<delivered, waitVars, rxVars, timer, pc, callVars, histVars>>
          /\ todo' = todo \/ todo' = <<>>
      BY <1>3 DEF News
    <2>2. out' \in Seq(Token)
      <3>1. ASSUME NEW n \in Lengths PROVE out \o Piece(news', n) \in Seq(Token)
        BY <2>1, PieceFacts, ConcatFacts
      <3>2. /\ Append(out, Tok("link", <<"net", 0>>)) \in Seq(Token)
            /\ Append(out, Tok("ready", <<"net", 0>>)) \in Seq(Token)
        BY Made, AppendFacts DEF Kinds
      <3> QED
        BY <1>3, <3>1, <3>2 DEF News, Piece
    <2>3. todo' \in Seq(Entry) /\ (\A i \in DOMAIN todo : todo[i].data => SendId(todo[i].of))'
      <3>1. CASE todo' = todo
        BY <2>1, <3>1
      <3>2. CASE todo' = <<>>
        BY <3>2
      <3> QED
        BY <2>1, <3>1, <3>2
    <2> QED
      BY <2>1, <2>2, <2>3
  <1> QED
    BY <1>1, <1>2, <1>3 DEF Module

LEMMA Numbered ==
  ASSUME Types, Line, InSend \/ pc = "send_release"
  PROVE  SendId(req)
  BY DEF Types, Line, SendId

\* The parts that the main loop and the timer write.  A turn of a waiting loop
\* is counted only while some are left.
LEMMA TypesMain ==
  ASSUME Types, Line,
         \/ TC0_Handler \/ SendBegin \/ Main
         \/ \E text \in Texts : CmdBegin(text)
  PROVE  Types'
  <1>1. /\ <<>> \in Seq(Token) /\ Len(<<>>) = 0
        /\ 0 =< RESP_BUF_SIZE /\ 0 =< WIFI_RX_BUF_SIZE /\ 0 \in 0 .. WIFI_RX_BUF_SIZE
        /\ TIMEOUT \in 0 .. TIMEOUT /\ 0 \in 0 .. RESP_BUF_SIZE
    BY WifiAssumption
  <1>2. timeout > 0 => timeout - 1 \in 0 .. TIMEOUT
    BY WifiAssumption DEF Types, TypeOK
  <1>3. req \in Ids => Append(todo, Request(FALSE)) \in Seq(Entry)
    BY AppendFacts DEF Types, Request, Entry
  <1> USE DEF Types, TypeOK, chipVars, waitVars, rxVars, callVars, histVars, SendId, Goto, TakeLine
  <1>4. CASE TC0_Handler
    BY <1>4 DEF TC0_Handler
  <1>5. CASE \E text \in Texts : CmdBegin(text)
    <2>1. PICK text \in Texts : CmdBegin(text)
      BY <1>5
    <2>2. /\ UNCHANGED <<chipVars, rx_complete, data_tx_status, rxVars, timer, claimed, doubtful>>
          /\ pc' = "cmd_reset" /\ back' \in {"idle", "process"} /\ calls' = calls + 1
          /\ timeout' = TIMEOUT /\ answer' = <<>> /\ ended' = 0 /\ resp_buf' = <<>>
          /\ rx_wait' \in BOOLEAN /\ cut' \in BOOLEAN /\ repeated' \in BOOLEAN
      BY <2>1 DEF CmdBegin, Call
    <2>3. req' \in Ids
      BY <2>1, Made DEF CmdBegin
    <2>4. \A s : SendId(s) => s[1] = "send" /\ s[2] \in 1 .. calls'
      BY <2>2
    <2> QED
      BY <1>1, <2>2, <2>3, <2>4 DEF PCs
  <1>6. CASE SendBegin
    <2>1. /\ UNCHANGED <<chipVars, rx_wait, rx_complete, resp_buf, rxVars, timer, claimed, cut>>
          /\ pc' = "send_take" /\ back' \in {"idle", "process"} /\ calls' = calls + 1
          /\ timeout' = TIMEOUT /\ answer' = <<>> /\ ended' = 0 /\ repeated' = FALSE
          /\ req' = <<"send", calls'>> /\ data_tx_status' = "TX_PENDING"
          /\ doubtful' \in {doubtful, doubtful \cup {req'}}
      BY <1>6 DEF SendBegin, Call
    <2>2. req' \in Ids
      <3>1. calls' \in Nat
        BY <2>1
      <3>2. req' = <<"send", calls'>>
        BY <2>1
      <3> QED
        BY ONLY <3>1, <3>2, Made
    <2>3. (\A s \in claimed \cup delivered \cup doubtful : s[1] = "send" /\ s[2] \in 1 .. calls)'
      BY <2>1
    <2>4. \A s : SendId(s) => s[1] = "send" /\ s[2] \in 1 .. calls'
      BY <2>1
    <2>5. TypeOK'
      BY <1>1, <2>1, <2>3 DEF Statuses
    <2>6. (\A i \in DOMAIN todo : todo[i].data => SendId(todo[i].of))'
      BY <2>1, <2>4
    <2>7. /\ pc' \in PCs /\ calls' \in Nat /\ answer' \in Seq(Token)
          /\ repeated' \in BOOLEAN
      <3>1. pc' \in PCs /\ repeated' \in BOOLEAN
        BY ONLY <2>1 DEF PCs
      <3>2. calls' \in Nat
        BY <2>1
      <3>3. answer' \in Seq(Token)
        BY ONLY <1>1, <2>1
      <3> QED
        BY <3>1, <3>2, <3>3
    <2>8. /\ todo' \in Seq(Entry) /\ out' \in Seq(Token) /\ news' \in Nat /\ cut' \in BOOLEAN
          /\ resp_buf' \in Seq(Token) /\ wifi_rx_buf' \in Seq(Token)
      BY <2>1
    <2> HIDE DEF TypeOK, SendId
    <2> QED
      BY <2>1, <2>2, <2>5, <2>6, <2>7, <2>8
  <1>7. CASE CmdReset \/ CmdArm
    BY <1>7 DEF CmdReset, CmdArm, PCs
  <1>8. CASE CmdWrite
    BY <1>3, <1>8, AppendFacts DEF CmdWrite, PCs, Request
  <1>9. CASE CmdWake
    BY <1>2, <1>9 DEF CmdWake, Line, InCmd, PCs
  <1>10. CASE CmdReturn
    <2>1. answer' \in Seq(Token)
      <3>1. CASE Answered
        BY <1>10, <3>1, TailFacts DEF CmdReturn, Answered
      <3>2. CASE ~Answered
        BY <1>1, <1>10, <3>2 DEF CmdReturn
      <3> QED
        BY <3>1, <3>2
    <2> QED
      BY <1>10, <2>1 DEF CmdReturn, PCs
  <1>11. CASE SendTake \/ SendArm \/ SendWake
    BY <1>11 DEF SendTake, SendArm, SendWake, PCs
  <1>12. CASE SendClear
    BY <1>1, <1>12 DEF SendClear, PCs
  <1>13. CASE SendWrite
    <2> HIDE DEF Types, TypeOK, SendId
    <2>1. /\ todo' = Append(todo, Request(TRUE)) /\ pc' = "send_arm"
          /\ UNCHANGED <<out, news, delivered, waitVars, rxVars, timer, callVars, histVars>>
      BY <1>13 DEF SendWrite
    <2>2. Request(TRUE) \in Entry /\ Request(TRUE).of = req /\ todo \in Seq(Entry)
      BY DEF Request, Entry, Types
    <2>3. SendId(req)
      BY <1>13, Numbered DEF SendWrite, InSend
    <2>4. /\ todo' \in Seq(Entry) /\ Len(todo) \in Nat /\ DOMAIN todo' = 1 .. Len(todo) + 1
          /\ DOMAIN todo = 1 .. Len(todo)
          /\ \A i \in 1 .. Len(todo) : todo'[i] = todo[i]
          /\ todo'[Len(todo) + 1] = Request(TRUE)
      <3>1. ASSUME NEW e \in Entry
            PROVE  /\ Append(todo, e) \in Seq(Entry) /\ Len(todo) \in Nat
                   /\ DOMAIN Append(todo, e) = 1 .. Len(todo) + 1
                   /\ DOMAIN todo = 1 .. Len(todo)
                   /\ \A i \in 1 .. Len(todo) : Append(todo, e)[i] = todo[i]
                   /\ Append(todo, e)[Len(todo) + 1] = e
        BY <2>2, AppendFacts
      <3> QED
        BY <2>1, <2>2, <3>1
    <2>5. \A i \in DOMAIN todo : todo[i].data => SendId(todo[i].of)
      BY DEF Types
    <2>6. \A i \in DOMAIN todo' : i \in DOMAIN todo \/ i = Len(todo) + 1
      BY <2>4
    <2>7. \A i \in DOMAIN todo' : todo'[i].data => SendId(todo'[i].of)
      BY <2>2, <2>3, <2>4, <2>5, <2>6
    <2> QED
      BY <2>1, <2>4, <2>7 DEF PCs, Types, TypeOK, SendId
  <1>14. CASE SendCheck
    BY <1>2, <1>14 DEF SendCheck, Line, InSend, PCs, Statuses
  <1>15. CASE SendRelease
    <2>1. \A s \in claimed' : s \in claimed \/ s = req
      BY <1>15 DEF SendRelease
    <2>2. SendId(req)
      BY <1>15, Numbered DEF SendRelease
    <2> QED
      BY <1>15, <2>1, <2>2 DEF SendRelease, PCs
  <1>16. CASE Process \/ Ignore
    BY <1>16 DEF Process, Ignore, PCs
  <1>17. CASE Release
    BY <1>1, <1>17 DEF Release, PCs
  <1> QED
    BY <1>4, <1>5, <1>6, <1>7, <1>8, <1>9, <1>10, <1>11, <1>12, <1>13, <1>14, <1>15, <1>16, <1>17
    DEF Main, wifi_send_cmd, wifi_send_data

LEMMA TypesStep == WInv /\ [Next]_vars => Types'
  <1> SUFFICES ASSUME WInv, [Next]_vars PROVE Types'
    OBVIOUS
  <1>1. CASE UNCHANGED vars
    BY <1>1 DEF WInv, Types, TypeOK, vars, chipVars, waitVars, rxVars, callVars, histVars, SendId
  <1>2. CASE Next
    BY <1>2, TypesModule, TypesHandler, TypesMain DEF WInv, Next
  <1> QED
    BY <1>1, <1>2

(***************************************************************************)
(* Who has the line.                                                       *)
(***************************************************************************)

LEMMA LineInit == Init => Line
  <1> SUFFICES ASSUME Init PROVE Line
    OBVIOUS
  <1>1. pc = "idle" /\ ~rx_wait /\ timer = FALSE /\ data_tx_status = "TX_IDLE"
    BY DEF Init
  <1> QED
    BY <1>1 DEF Line, InCmd, InSend

LEMMA LineStep == WInv /\ [Next]_vars => Line'
  <1> SUFFICES ASSUME Types, Line, [Next]_vars PROVE Line'
    BY DEF WInv
  <1> USE DEF Line, InCmd, InSend, chipVars, waitVars, rxVars, callVars, histVars, Goto, TakeLine
  <1>1. CASE Module
    BY <1>1 DEF Module, Echo, Answer, News
  <1>2. CASE UART0_Handler
    <2>1. UNCHANGED <<timer, pc, timeout, req, calls>> /\ (rx_wait' => rx_wait)
      BY <1>2 DEF UART0_Handler, ForCommand, ForTransmission, ForCore, Types, TypeOK
    <2>2. \/ data_tx_status' = data_tx_status
          \/ data_tx_status = "TX_PENDING" /\ data_tx_status' = "TX_SUCCESS"
      BY <1>2 DEF UART0_Handler, ForCommand, ForTransmission, ForCore
    <2> QED
      BY <2>1, <2>2 DEF Types, TypeOK
  <1>3. CASE TC0_Handler
    BY <1>3 DEF TC0_Handler
  <1>4. CASE \/ SendBegin \/ \E text \in Texts : CmdBegin(text)
    <2>1. TIMEOUT > 0 /\ calls \in Nat
      BY WifiAssumption DEF Types, TypeOK
    <2>2. CASE SendBegin
      <3>1. /\ pc \in {"idle", "process"} /\ timer' = timer /\ pc' = "send_take"
            /\ data_tx_status' = "TX_PENDING" /\ timeout' = TIMEOUT
            /\ calls' = calls + 1 /\ req' = <<"send", calls'>>
        BY <2>2 DEF SendBegin, Call
      <3> QED
        BY <2>1, <3>1
    <2>3. CASE \E text \in Texts : CmdBegin(text)
      <3>1. /\ pc \in {"idle", "process"} /\ timer' = timer /\ pc' = "cmd_reset"
            /\ data_tx_status' = data_tx_status /\ timeout' = TIMEOUT
        BY <2>3 DEF CmdBegin, Call
      <3> QED
        BY <2>1, <3>1
    <2> QED
      BY <1>4, <2>2, <2>3
  <1>5. CASE CmdReset \/ CmdWrite \/ CmdArm
    <2>1. CASE CmdReset
      BY <2>1 DEF CmdReset
    <2>2. CASE CmdWrite
      BY <2>2 DEF CmdWrite
    <2>3. CASE CmdArm
      BY <2>3 DEF CmdArm
    <2> QED
      BY <1>5, <2>1, <2>2, <2>3
  <1>6. CASE CmdWake
    <2>1. timeout > 0 /\ timeout \in Nat
      BY <1>6, WifiAssumption DEF CmdWake, Types, TypeOK
    <2> QED
      BY <1>6, <2>1 DEF CmdWake
  <1>7. CASE CmdReturn
    BY <1>7 DEF CmdReturn, Types
  <1>8. CASE SendTake \/ SendClear \/ SendWrite \/ SendArm \/ SendWake
    <2>1. CASE SendTake
      BY <2>1 DEF SendTake
    <2>2. CASE SendClear
      BY <2>2 DEF SendClear
    <2>3. CASE SendWrite
      BY <2>3 DEF SendWrite
    <2>4. CASE SendArm
      BY <2>4 DEF SendArm
    <2>5. CASE SendWake
      BY <2>5 DEF SendWake
    <2> QED
      BY <1>8, <2>1, <2>2, <2>3, <2>4, <2>5
  <1>9. CASE SendCheck
    <2>1. timeout > 0 /\ timeout \in Nat /\ back \in {"idle", "process"}
      BY <1>9, WifiAssumption DEF SendCheck, Types, TypeOK
    <2> QED
      BY <1>9, <2>1 DEF SendCheck
  <1>10. CASE SendRelease
    BY <1>10 DEF SendRelease, Types
  <1>11. CASE Process \/ Ignore \/ Release
    BY <1>11 DEF Process, Ignore, Release
  <1>12. CASE UNCHANGED vars
    BY <1>12 DEF vars
  <1> QED
    BY <1>1, <1>2, <1>3, <1>4, <1>5, <1>6, <1>7, <1>8, <1>9, <1>10, <1>11, <1>12
    DEF Next, Main, wifi_send_cmd, wifi_send_data

(***************************************************************************)
(* The buffer for the core.                                                *)
(***************************************************************************)

LEMMA HeldInit == Init => Held
  BY DEF Init, Held

LEMMA HeldStep == WInv /\ [Next]_vars => Held'
  <1> SUFFICES ASSUME Types, Line, Held, [Next]_vars PROVE Held'
    BY DEF WInv
  <1> USE DEF Held, chipVars, waitVars, rxVars, callVars, histVars, Goto
  <1>1. CASE Module
    BY <1>1 DEF Module, Echo, Answer, News
  <1>2. CASE UART0_Handler
    <2> DEFINE tok == Head(out)
    <2>1. /\ tok \in Token /\ UNCHANGED <<pc, callVars>>
          /\ ForCommand(tok) \/ ForTransmission(tok) \/ ForCore(tok)
      BY <1>2, HandlerFacts
    <2> HIDE DEF tok
    <2>2. CASE UNCHANGED rxVars
      BY <2>1, <2>2
    <2>3. CASE ~wifi_rx_buf_full /\ Store(tok)
      <3>1. ~(pc = "process" \/ (back = "process" /\ pc # "idle"))
        BY <2>3
      <3>2. CASE wifi_rx_buf_idx >= WIFI_RX_BUF_SIZE
        BY <2>1, <2>3, <3>1, <3>2 DEF Store, TooMuch, Types
      <3>3. CASE ~(wifi_rx_buf_idx >= WIFI_RX_BUF_SIZE)
        <4>1. /\ wifi_rx_buf_idx \in Nat /\ wifi_rx_buf_idx < WIFI_RX_BUF_SIZE
              /\ WIFI_RX_BUF_SIZE \in Nat
          BY <3>3, WifiAssumption DEF Types, TypeOK
        <4>2. /\ wifi_rx_buf_idx + 1 =< Len(Buffered(tok)) /\ Len(Buffered(tok)) \in Nat
              /\ 0 =< Len(Buffered(tok))
          BY <2>1, <4>1, BufferedFacts
        <4>3. CASE Count(tok)
          BY <2>1, <3>1, <4>2, <4>3 DEF Count
        <4>4. CASE Begin(tok)
          BY <2>1, <2>3, <3>1, <4>2, <4>4 DEF Begin
        <4>5. CASE Search(tok)
          BY <2>1, <2>3, <3>1, <4>2, <4>5 DEF Search
        <4> QED
          BY <2>3, <3>3, <4>3, <4>4, <4>5 DEF Store
      <3> QED
        BY <3>2, <3>3
    <2> QED
      BY <2>1, <2>2, <2>3 DEF ForCommand, ForTransmission, ForCore
  <1>3. CASE TC0_Handler
    BY <1>3 DEF TC0_Handler
  <1>4. CASE SendBegin \/ \E text \in Texts : CmdBegin(text)
    <2>1. /\ pc \in {"idle", "process"} /\ back' = pc /\ pc' # "process"
          /\ UNCHANGED rxVars
      BY <1>4 DEF SendBegin, CmdBegin, Call
    <2> QED
      BY <2>1
  <1>5. CASE CmdReset \/ CmdWrite \/ CmdArm \/ CmdWake \/ CmdReturn
    <2>1. CASE CmdReset
      BY <2>1 DEF CmdReset
    <2>2. CASE CmdWrite
      BY <2>2 DEF CmdWrite
    <2>3. CASE CmdArm
      BY <2>3 DEF CmdArm
    <2>4. CASE CmdWake
      BY <2>4 DEF CmdWake
    <2>5. CASE CmdReturn
      BY <2>5 DEF CmdReturn
    <2> QED
      BY <1>5, <2>1, <2>2, <2>3, <2>4, <2>5
  <1>6. CASE SendTake \/ SendWrite \/ SendArm \/ SendWake \/ SendCheck \/ SendRelease
    <2>1. CASE SendTake
      BY <2>1 DEF SendTake
    <2>2. CASE SendWrite
      BY <2>2 DEF SendWrite
    <2>3. CASE SendArm
      BY <2>3 DEF SendArm
    <2>4. CASE SendWake
      BY <2>4 DEF SendWake
    <2>5. CASE SendCheck
      BY <2>5 DEF SendCheck
    <2>6. CASE SendRelease
      BY <2>6 DEF SendRelease
    <2> QED
      BY <1>6, <2>1, <2>2, <2>3, <2>4, <2>5, <2>6
  <1>7. CASE SendClear
    BY <1>7 DEF SendClear
  <1>8. CASE Process \/ Ignore \/ Release
    BY <1>8 DEF Process, Ignore, Release
  <1>9. CASE UNCHANGED vars
    BY <1>9 DEF vars
  <1> QED
    BY <1>1, <1>2, <1>3, <1>4, <1>5, <1>6, <1>7, <1>8, <1>9
    DEF Next, Main, wifi_send_cmd, wifi_send_data

(***************************************************************************)
(* Whole messages on the line.                                             *)
(***************************************************************************)

LEMMA WholeInit == Init => WholeIn(out)
  BY DEF Init, WholeIn

\* The module puts nothing into the middle of what is on the line.
LEMMA ModuleAppends ==
  ASSUME Types, Module
  PROVE  /\ \E t \in Seq(Token) : out' = out \o t /\ WholeIn(t)
         /\ UNCHANGED <<waitVars, rxVars, timer, pc, callVars, histVars>>
  <1>1. \A k \in Kinds, r \in Ids : k # "head" =>
          <<Tok(k, r)>> \in Seq(Token) /\ WholeIn(<<Tok(k, r)>>)
    BY Made DEF WholeIn
  <1>2. \A s \in Seq(Token), e \in Token : Append(s, e) = s \o <<e>>
    BY AppendFacts
  <1>3. \A k \in Kinds, r \in Ids : k # "head" =>
          \E t \in Seq(Token) : Append(out, Tok(k, r)) = out \o t /\ WholeIn(t)
    BY <1>1, <1>2, Made DEF Types
  <1>4. <<>> \in Seq(Token) /\ out \o <<>> = out /\ WholeIn(<<>>)
    BY DEF Types, WholeIn
  <1>5. CASE Echo
    <2>1. Head(todo).of \in Ids
      <3>1. todo \in Seq(Entry) /\ todo # <<>>
        BY <1>5 DEF Echo, Types
      <3>2. Head(todo) \in Entry
        BY <3>1, TailFacts
      <3> QED
        BY <3>2 DEF Entry
    <2> QED
      BY <1>3, <1>5, <2>1 DEF Echo, Kinds
  <1>6. CASE Answer
    <2>1. Head(todo).of \in Ids
      <3>1. todo \in Seq(Entry) /\ todo # <<>>
        BY <1>6 DEF Answer, Types
      <3>2. Head(todo) \in Entry
        BY <3>1, TailFacts
      <3> QED
        BY <3>2 DEF Entry
    <2> DEFINE r == Head(todo).of
    <2>2. CASE out' = out \o <<Tok("body", r), Tok("done", r)>>
      <3>1. /\ <<Tok("body", r), Tok("done", r)>> \in Seq(Token)
            /\ WholeIn(<<Tok("body", r), Tok("done", r)>>)
        BY <2>1, Made DEF Kinds, WholeIn
      <3> QED
        BY <1>6, <2>2, <3>1 DEF Answer
    <2>3. CASE out' \in {Append(out, Tok("body", r)), Append(out, Tok("sent", r)),
                         Append(out, Tok("fail", r))}
      BY <1>3, <1>6, <2>1, <2>3 DEF Answer, Kinds
    <2>4. CASE out' = out
      BY <1>4, <1>6, <2>4 DEF Answer
    <2> QED
      BY <1>6, <2>2, <2>3, <2>4 DEF Answer
  <1>7. CASE News
    <2>1. /\ news' \in Nat
          /\ UNCHANGED <<waitVars, rxVars, timer, pc, callVars, histVars>>
      BY <1>7 DEF News, Types
    <2>2. CASE \E n \in Lengths : out' = out \o Piece(news', n)
      BY <2>1, <2>2, PieceFacts
    <2>3. CASE \/ out' = Append(out, Tok("link", <<"net", 0>>))
               \/ out' = Append(out, Tok("ready", <<"net", 0>>))
      <3>1. <<"net", 0>> \in Ids /\ "link" \in Kinds /\ "ready" \in Kinds
        BY Made DEF Kinds
      <3>2. /\ \E t \in Seq(Token) : Append(out, Tok("link", <<"net", 0>>)) = out \o t /\ WholeIn(t)
            /\ \E t \in Seq(Token) : Append(out, Tok("ready", <<"net", 0>>)) = out \o t /\ WholeIn(t)
        BY <1>3, <3>1
      <3> QED
        BY <2>1, <2>3, <3>2
    <2> QED
      BY <1>7, <2>2, <2>3 DEF News, Piece
  <1> QED
    BY <1>5, <1>6, <1>7 DEF Module

LEMMA WholeStep == WInv /\ [Next]_vars => WholeIn(out)'
  <1> SUFFICES ASSUME Types, WholeIn(out), [Next]_vars PROVE WholeIn(out')
    BY DEF WInv, WholeIn
  <1>1. CASE Module
    BY <1>1, ModuleAppends, WholeConcat DEF Types
  <1>2. CASE UART0_Handler
    BY <1>2, WholeTail DEF UART0_Handler, Types
  <1>3. CASE out' = out
    BY <1>3
  <1> QED
    BY <1>1, <1>2, <1>3
    DEF Next, TC0_Handler, CmdBegin, SendBegin, Main, wifi_send_cmd, wifi_send_data,
        CmdReset, CmdWrite, CmdArm, CmdWake, CmdReturn, SendTake, SendClear, SendWrite,
        SendArm, SendWake, SendCheck, SendRelease, Process, Ignore, Release, vars, chipVars

(***************************************************************************)
(* Receptions.                                                             *)
(***************************************************************************)

LEMMA ReceptionInit == Init => Reception
  BY DEF Init, Reception

\* The handler stores a token that nobody waits for.
LEMMA ReceptionStore ==
  ASSUME WInv, UART0_Handler, ~rx_wait, ~wifi_rx_buf_full, Store(Head(out)),
         UNCHANGED waitVars
  PROVE  Reception' /\ (Handed /\ ~cut => Count(Head(out)) /\ rx_bytes_recvd + 1 = rx_bytes_expected)
  <1> DEFINE tok == Head(out)
             idx == wifi_rx_buf_idx
  <1>1. /\ tok \in Token /\ out # <<>> /\ out' = Tail(out) /\ Store(tok)
        /\ Len(out) \in Nat \ {0} /\ DOMAIN out = 1 .. Len(out)
        /\ tok = out[1] /\ DOMAIN out' = 1 .. Len(out) - 1
        /\ \A i \in 1 .. Len(out) - 1 : out'[i] = out[i + 1]
    BY HandlerFacts, TailFacts DEF WInv, Types
  <1>2. /\ ~rx_wait /\ ~rx_wait' /\ wifi_rx_buf_full = FALSE
        /\ cut \in BOOLEAN /\ rx_in_prog \in BOOLEAN
        /\ (cut => rx_in_prog) /\ idx \in Nat /\ rx_bytes_recvd \in Nat
        /\ (idx > 0 /\ ~rx_in_prog => wifi_rx_buf[1].kind # "head")
    BY DEF WInv, Types, TypeOK, Reception, waitVars
  <1> HIDE DEF tok
  <1>3. CASE idx >= WIFI_RX_BUF_SIZE
    <2>1. /\ wifi_rx_buf_idx' = 0 /\ cut' = (cut \/ rx_in_prog) /\ rx_in_prog' = rx_in_prog
          /\ wifi_rx_buf_full' = wifi_rx_buf_full
      BY <1>1, <1>3 DEF Store, TooMuch
    <2> QED
      BY <1>2, <2>1 DEF Reception, Handed
  <1>4. CASE ~(idx >= WIFI_RX_BUF_SIZE)
    <2>1. idx < WIFI_RX_BUF_SIZE /\ Types /\ Held
      BY <1>2, <1>4, WifiAssumption DEF WInv
    <2>2. /\ Buffered(tok)[idx + 1] = tok
          /\ \A i \in 1 .. idx : Buffered(tok)[i] = wifi_rx_buf[i]
      <3>1. /\ idx + 1 =< Len(Buffered(tok)) /\ Buffered(tok)[idx + 1] = tok
            /\ Len(Buffered(tok)) \in Nat
            /\ \A i \in 1 .. Len(Buffered(tok)) :
                 i # idx + 1 => Buffered(tok)[i] = wifi_rx_buf[i]
        BY <1>1, <2>1, BufferedFacts
      <3> QED
        BY <1>2, <3>1
    <2>3. Count(tok) \/ Begin(tok) \/ Search(tok)
      BY <1>1, <1>4 DEF Store
    <2>4. CASE Count(tok)
      <3>1. /\ rx_in_prog /\ rx_bytes_recvd' = rx_bytes_recvd + 1
            /\ rx_bytes_expected' = rx_bytes_expected
            /\ wifi_rx_buf_full' = (rx_bytes_recvd + 1 = rx_bytes_expected)
            /\ rx_in_prog' = ~wifi_rx_buf_full'
            /\ wifi_rx_buf_idx' = (IF wifi_rx_buf_full' THEN 0 ELSE idx + 1)
            /\ cut' = (cut /\ rx_in_prog') /\ wifi_rx_buf' = Buffered(tok)
        BY <2>4 DEF Count
      <3>2. CASE rx_bytes_recvd + 1 = rx_bytes_expected
        <4>1. /\ wifi_rx_buf_full' = TRUE /\ rx_in_prog' = FALSE /\ wifi_rx_buf_idx' = 0
              /\ cut' = FALSE
          BY <3>1, <3>2
        <4> QED
          BY <1>2, <2>4, <3>2, <4>1 DEF Reception, tok
      <3>3. CASE rx_bytes_recvd + 1 # rx_bytes_expected
        <4>1. /\ wifi_rx_buf_full' = FALSE /\ rx_in_prog' = TRUE /\ wifi_rx_buf_idx' = idx + 1
              /\ cut' = cut
          BY <1>2, <3>1, <3>3
        <4>2. CASE cut
          BY <1>2, <4>1, <4>2 DEF Reception, Handed
        <4>3. CASE ~cut
          <5> DEFINE m == wifi_rx_buf[1].of
          <5>1. /\ idx > 0 /\ m[3] \in Lengths
                /\ rx_bytes_expected = m[3] /\ rx_bytes_recvd = idx
                /\ \A j \in 1 .. m[3] :
                     IF j =< idx THEN wifi_rx_buf[j].of = <<"net", m[2], m[3], j>>
                     ELSE /\ j - idx \in DOMAIN out
                          /\ out[j - idx].of = <<"net", m[2], m[3], j>>
            BY <3>1, <4>3 DEF WInv, Reception
          <5>2. wifi_rx_buf'[1].of = m
            BY <1>2, <2>2, <3>1, <5>1
          <5> HIDE DEF m
          <5>3. ASSUME NEW j \in 1 .. m[3]
                PROVE  IF j =< idx + 1 THEN wifi_rx_buf'[j].of = <<"net", m[2], m[3], j>>
                       ELSE /\ j - (idx + 1) \in DOMAIN out'
                            /\ out'[j - (idx + 1)].of = <<"net", m[2], m[3], j>>
            <6>1. j \in Nat \ {0}
              BY <5>1, WifiAssumption
            <6>2. CASE j =< idx
              <7>1. wifi_rx_buf'[j] = wifi_rx_buf[j]
                BY <1>2, <2>2, <3>1, <6>1, <6>2
              <7> QED
                BY <1>2, <5>1, <6>1, <6>2, <7>1
            <6>3. CASE j = idx + 1
              <7>1. j - idx = 1 /\ ~(j =< idx)
                BY <1>2, <6>1, <6>3
              <7>2. tok.of = <<"net", m[2], m[3], j>>
                BY <1>1, <5>1, <7>1
              <7>3. wifi_rx_buf'[j] = tok
                BY <2>2, <3>1, <6>3
              <7> QED
                BY <6>3, <7>2, <7>3
            <6>4. CASE j > idx + 1
              <7>1. /\ ~(j =< idx) /\ ~(j =< idx + 1)
                    /\ j - (idx + 1) \in Nat \ {0} /\ (j - (idx + 1)) + 1 = j - idx
                BY <1>2, <6>1, <6>4
              <7>2. j - idx \in 1 .. Len(out) /\ out[j - idx].of = <<"net", m[2], m[3], j>>
                BY <1>1, <5>1, <7>1
              <7>3. j - (idx + 1) \in 1 .. Len(out) - 1
                BY <1>1, <7>1, <7>2
              <7> QED
                BY <1>1, <7>1, <7>2, <7>3
            <6> QED
              BY <1>2, <6>1, <6>2, <6>3, <6>4
          <5>4. rx_bytes_recvd' = wifi_rx_buf_idx' /\ wifi_rx_buf_idx' > 0
            BY <1>2, <3>1, <4>1, <5>1
          <5> QED
            BY <1>2, <3>1, <4>1, <4>3, <5>1, <5>2, <5>3, <5>4 DEF Reception, Handed
        <4> QED
          BY <4>2, <4>3
      <3> QED
        BY <3>2, <3>3
    <2>5. CASE Begin(tok)
      <3>1. idx = 0 /\ Buffered(tok)[1] = tok
        BY <1>1, <2>1, <2>5, BeginsHere DEF WInv
      <3>2. /\ ~rx_in_prog /\ tok.kind = "head" /\ rx_in_prog' = TRUE /\ rx_bytes_recvd' = 1
            /\ rx_bytes_expected' = tok.of[3] /\ wifi_rx_buf_idx' = 1
            /\ wifi_rx_buf' = Buffered(tok)
            /\ UNCHANGED <<wifi_rx_buf_full, cut>>
        BY <2>5, <3>1 DEF Begin
      <3> DEFINE m == tok.of
      <3>3. /\ m[3] \in Lengths
            /\ \A j \in 1 .. m[3] : j \in DOMAIN out /\ out[j].of = <<"net", m[2], m[3], j>>
        <4>1. /\ m[3] \in Lengths
              /\ \A j \in 1 .. m[3] : /\ 1 + j - 1 \in DOMAIN out
                                      /\ out[1 + j - 1].of = <<"net", m[2], m[3], j>>
          BY <1>1, <3>2 DEF WInv, WholeIn
        <4>2. \A j \in 1 .. m[3] : 1 + j - 1 = j
          BY <4>1, WifiAssumption
        <4> QED
          BY <4>1, <4>2
      <3>4. ASSUME NEW j \in 1 .. m[3]
            PROVE  IF j =< 1 THEN wifi_rx_buf'[j].of = <<"net", m[2], m[3], j>>
                   ELSE /\ j - 1 \in DOMAIN out'
                        /\ out'[j - 1].of = <<"net", m[2], m[3], j>>
        <4>1. j \in Nat \ {0}
          BY <3>3, WifiAssumption
        <4>2. CASE j = 1
          BY <1>1, <3>1, <3>2, <3>3, <4>2
        <4>3. CASE j > 1
          <5>1. ~(j =< 1) /\ j - 1 \in 1 .. Len(out) - 1 /\ (j - 1) + 1 = j
            BY <1>1, <3>3, <4>1, <4>3
          <5> QED
            BY <1>1, <3>3, <5>1
        <4> QED
          BY <4>1, <4>2, <4>3
      <3>5. wifi_rx_buf'[1].of = m
        BY <3>1, <3>2
      <3> HIDE DEF m
      <3> QED
        BY <1>2, <3>2, <3>3, <3>4, <3>5 DEF Reception, Handed, m
    <2>6. CASE Search(tok)
      <3>1. /\ ~rx_in_prog /\ ~rx_in_prog' /\ UNCHANGED <<wifi_rx_buf_full, cut>>
            /\ \/ wifi_rx_buf_idx' = 0
               \/ wifi_rx_buf' = Buffered(tok) /\ Buffered(tok)[1].kind # "head"
        BY <2>6 DEF Search
      <3> QED
        BY <1>2, <3>1 DEF Reception, Handed
    <2> QED
      BY <2>3, <2>4, <2>5, <2>6
  <1> QED
    BY <1>3, <1>4

\* More on the line, and nothing of the reception written.
LEMMA ReceptionAppended ==
  ASSUME Types, Reception, NEW t \in Seq(Token), out' = out \o t,
         UNCHANGED <<rx_wait, rxVars, cut>>
  PROVE  Reception'
  <1>1. /\ \A i \in DOMAIN out : i \in DOMAIN out' /\ out'[i] = out[i]
    BY ConcatFacts DEF Types
  <1> QED
    BY <1>1 DEF Reception, rxVars

LEMMA ReceptionStep == WInv /\ [Next]_vars => Reception'
  <1> SUFFICES ASSUME WInv, [Next]_vars PROVE Reception'
    OBVIOUS
  <1>0. Types /\ Line /\ Held /\ Reception
    BY DEF WInv
  <1>1. CASE Module
    <2>1. /\ \E t \in Seq(Token) : out' = out \o t
          /\ UNCHANGED <<rx_wait, rxVars, cut>>
      BY <1>0, <1>1, ModuleAppends DEF waitVars, histVars
    <2> QED
      BY <1>0, <2>1, ReceptionAppended
  <1>2. CASE UART0_Handler
    <2>1. ForCommand(Head(out)) \/ ForTransmission(Head(out)) \/ ForCore(Head(out))
      BY <1>0, <1>2, HandlerFacts
    <2>2. CASE ~rx_wait /\ ~wifi_rx_buf_full /\ Store(Head(out)) /\ UNCHANGED waitVars
      BY <1>2, <2>2, ReceptionStore
    <2>3. CASE rx_wait /\ UNCHANGED <<rxVars, cut>>
      <3>1. rx_in_prog => cut
        BY <1>0, <2>3 DEF Reception
      <3> QED
        BY <1>0, <2>3, <3>1 DEF Reception, rxVars
    <2>4. CASE ~rx_wait /\ wifi_rx_buf_full /\ UNCHANGED <<rxVars, cut, rx_wait>>
      BY <1>0, <2>4 DEF Reception, Held, rxVars
    <2> QED
      BY <2>1, <2>2, <2>3, <2>4 DEF ForCommand, ForTransmission, ForCore, waitVars
  <1>3. CASE UNCHANGED <<out, rxVars, cut>> /\ (rx_wait' => rx_wait)
    BY <1>0, <1>3 DEF Reception, rxVars
  <1>4. CASE TakeLine /\ UNCHANGED <<out, rxVars>>
    <2>1. rx_wait' = TRUE /\ cut' = (cut \/ rx_in_prog) /\ cut \in BOOLEAN
          /\ UNCHANGED <<out, rxVars>>
      BY <1>0, <1>4 DEF TakeLine, Types
    <2> QED
      BY <1>0, <2>1 DEF Reception, rxVars
  <1>5. CASE SendClear
    <2>1. /\ cut' = (cut \/ rx_in_prog) /\ wifi_rx_buf_idx' = 0 /\ rx_in_prog' = rx_in_prog
          /\ cut \in BOOLEAN
      BY <1>0, <1>5 DEF SendClear, Types
    <2>2. (cut' => rx_in_prog') /\ (rx_in_prog' => cut')
      BY <1>0, <2>1 DEF Reception
    <2>3. ~(wifi_rx_buf_idx' > 0)
      BY <2>1
    <2> QED
      BY <2>2, <2>3 DEF Reception
  <1>6. CASE Release
    <2>1. /\ ~rx_in_prog /\ wifi_rx_buf_idx = 0
          /\ UNCHANGED <<rx_in_prog, wifi_rx_buf_idx, cut>>
      BY <1>0, <1>6 DEF Release, Goto, Held, histVars
    <2>2. ~rx_in_prog' /\ ~cut'
      BY <1>0, <2>1 DEF Reception
    <2>3. ~(wifi_rx_buf_idx' > 0)
      BY <2>1
    <2> QED
      BY <2>2, <2>3 DEF Reception
  <1>7. CASE Ignore
    BY <1>0, <1>7 DEF Ignore, Reception, chipVars, waitVars, histVars
  <1>8. CASE \/ TC0_Handler \/ SendBegin \/ CmdReset \/ CmdWrite \/ CmdWake \/ CmdReturn
             \/ SendWrite \/ SendWake \/ SendCheck \/ SendRelease \/ Process \/ UNCHANGED vars
    <2> USE DEF chipVars, waitVars, histVars
    <2>1. CASE TC0_Handler \/ SendBegin \/ SendRelease
      BY <1>3, <2>1 DEF TC0_Handler, SendBegin, SendRelease
    <2>2. CASE CmdReset \/ CmdWrite \/ CmdWake \/ CmdReturn
      BY <1>3, <2>2 DEF CmdReset, CmdWrite, CmdWake, CmdReturn
    <2>3. CASE SendWrite \/ SendWake \/ SendCheck \/ Process
      BY <1>3, <2>3 DEF SendWrite, SendWake, SendCheck, Process
    <2>4. CASE UNCHANGED vars
      BY <1>3, <2>4 DEF vars
    <2> QED
      BY <1>8, <2>1, <2>2, <2>3, <2>4
  <1>9. CASE CmdArm \/ SendTake \/ SendArm \/ \E text \in Texts : CmdBegin(text)
    BY <1>4, <1>9 DEF CmdArm, SendTake, SendArm, CmdBegin, chipVars
  <1> QED
    BY <1>1, <1>2, <1>5, <1>6, <1>7, <1>8, <1>9 DEF Next, Main, wifi_send_cmd, wifi_send_data

LEMMA WInvAlways == Spec => []WInv
  <1>1. Init => WInv
    BY TypesInit, LineInit, HeldInit, WholeInit, ReceptionInit DEF WInv
  <1>2. WInv /\ [Next]_vars => WInv'
    BY TypesStep, LineStep, HeldStep, WholeStep, ReceptionStep DEF WInv
  <1> QED
    BY <1>1, <1>2, PTL DEF Spec

(***************************************************************************)
(* What the runs check of the line and the buffer, for every instance.     *)
(***************************************************************************)

\* No variable leaves its type, and neither buffer takes more than it has room
\* for: UART0_Handler tests both lengths before it writes.
THEOREM WifiTypes == Spec => []TypeOK
  BY WInvAlways, PTL DEF WInv, Types

\* Whatever a call runs into, wifi_send_cmd and wifi_send_data return with the
\* line given back to the core and the timer off.
THEOREM LineAlwaysGivenBack == Spec => []LineGivenBack
  <1>1. WInv => LineGivenBack
    BY DEF WInv, Line, LineGivenBack, InSend
  <1> QED
    BY <1>1, WInvAlways, PTL

\* What the handler reports to the core begins with one whole message, unless
\* the reception lost the line or a byte.
THEOREM OnlyWholeMessages == Spec => WholeUnlessCut
  <1> DEFINE Step == Handed /\ ~cut =>
        LET first == wifi_rx_buf'[1].of IN
        \A i \in 1 .. first[3] : /\ i \in DOMAIN wifi_rx_buf'
                                 /\ wifi_rx_buf'[i].of = <<"net", first[2], first[3], i>>
  <1>1. WInv /\ [Next]_vars => [Step]_vars
    <2> SUFFICES ASSUME WInv, [Next]_vars, Handed, ~cut
                 PROVE  LET first == wifi_rx_buf'[1].of IN
                        \A i \in 1 .. first[3] :
                          /\ i \in DOMAIN wifi_rx_buf'
                          /\ wifi_rx_buf'[i].of = <<"net", first[2], first[3], i>>
      BY DEF Step
    <2> DEFINE tok == Head(out)
               idx == wifi_rx_buf_idx
    <2>1. UART0_Handler
      BY DEF Handed, Next, Module, Echo, Answer, News, TC0_Handler, CmdBegin, SendBegin,
             Main, wifi_send_cmd, wifi_send_data, CmdReset, CmdWrite, CmdArm, CmdWake,
             CmdReturn, SendTake, SendClear, SendWrite, SendArm, SendWake, SendCheck,
             SendRelease, Process, Ignore, Release, vars, rxVars
    <2>2. /\ tok \in Token /\ tok = out[1]
          /\ ForCommand(tok) \/ ForTransmission(tok) \/ ForCore(tok)
      BY <2>1, HandlerFacts, TailFacts DEF WInv, Types
    <2> HIDE DEF tok
    <2>3. ~rx_wait /\ ~wifi_rx_buf_full /\ Store(tok) /\ UNCHANGED waitVars
      BY <2>2 DEF ForCommand, ForTransmission, ForCore, Handed, rxVars
    <2>4. Count(tok) /\ rx_bytes_recvd + 1 = rx_bytes_expected
      BY <2>1, <2>3, ReceptionStore DEF tok
    <2>5. idx < WIFI_RX_BUF_SIZE /\ idx \in Nat
      <3>1. ~(idx >= WIFI_RX_BUF_SIZE)
        BY <2>3 DEF Store, TooMuch, Handed
      <3> QED
        BY <3>1, WifiAssumption DEF WInv, Types, TypeOK
    <2> DEFINE m == wifi_rx_buf[1].of
    <2>6. /\ idx > 0 /\ m[3] \in Lengths /\ idx + 1 = m[3]
          /\ \A j \in 1 .. m[3] :
               IF j =< idx THEN wifi_rx_buf[j].of = <<"net", m[2], m[3], j>>
               ELSE /\ j - idx \in DOMAIN out
                    /\ out[j - idx].of = <<"net", m[2], m[3], j>>
      BY <2>4 DEF WInv, Reception, Count
    <2>7. /\ wifi_rx_buf' = Buffered(tok) /\ idx + 1 =< Len(Buffered(tok))
          /\ Len(Buffered(tok)) \in Nat /\ DOMAIN Buffered(tok) = 1 .. Len(Buffered(tok))
          /\ Buffered(tok)[idx + 1] = tok
          /\ \A i \in 1 .. Len(Buffered(tok)) : i # idx + 1 => Buffered(tok)[i] = wifi_rx_buf[i]
      BY <2>2, <2>4, <2>5, BufferedFacts DEF WInv, Count
    <2>8. wifi_rx_buf'[1].of = m
      BY <2>5, <2>6, <2>7
    <2> HIDE DEF m
    <2>9. ASSUME NEW i \in 1 .. m[3]
          PROVE  i \in DOMAIN wifi_rx_buf' /\ wifi_rx_buf'[i].of = <<"net", m[2], m[3], i>>
      <3>1. i \in 1 .. idx + 1 /\ i \in 1 .. Len(Buffered(tok))
        BY <2>5, <2>6, <2>7
      <3>2. CASE i = idx + 1
        <4>1. i - idx = 1 /\ ~(i =< idx)
          BY <2>5, <3>2
        <4> QED
          BY <2>2, <2>6, <2>7, <3>1, <3>2, <4>1
      <3>3. CASE i # idx + 1
        <4>1. i =< idx
          BY <2>5, <3>1, <3>3
        <4> QED
          BY <2>6, <2>7, <3>1, <3>3, <4>1
      <3> QED
        BY <3>2, <3>3
    <2> QED
      BY <2>8, <2>9
  <1> QED
    BY <1>1, WInvAlways, PTL DEF Spec, WholeUnlessCut

\* While the core has a message the handler drops what comes: the buffer holds
\* what was handed over, until a transmission of the main loop clears it.
Given == wifi_rx_buf_full => wifi_rx_buf \in {given, <<>>}

LEMMA GivenStep ==
  ASSUME Given, [Next]_vars
  PROVE  Given'
  <1>1. CASE UART0_Handler
    <2>1. CASE wifi_rx_buf_full
      <3>1. UNCHANGED <<wifi_rx_buf, given>>
        BY <1>1, <2>1 DEF UART0_Handler, ForCommand, ForTransmission, ForCore, rxVars, Handed
      <3> QED
        BY <2>1, <3>1 DEF Given
    <2>2. CASE ~wifi_rx_buf_full
      <3>1. wifi_rx_buf_full' => given' = wifi_rx_buf'
        BY <1>1, <2>2 DEF UART0_Handler, Handed
      <3> QED
        BY <3>1 DEF Given
    <2> QED
      BY <2>1, <2>2
  <1>2. CASE SendClear \/ Release
    BY <1>2 DEF Given, SendClear, Release
  <1>3. CASE ~UART0_Handler /\ ~(SendClear \/ Release)
    <2>1. wifi_rx_buf' = wifi_rx_buf
      BY <1>3
      DEF Next, Module, Echo, Answer, News, TC0_Handler, CmdBegin, SendBegin,
          Main, wifi_send_cmd, wifi_send_data, CmdReset, CmdWrite, CmdArm, CmdWake,
          CmdReturn, SendTake, SendWrite, SendArm, SendWake, SendCheck,
          SendRelease, Process, Ignore, vars, rxVars
    <2>3. wifi_rx_buf_full' => wifi_rx_buf_full
      BY <1>3
      DEF Next, Module, Echo, Answer, News, TC0_Handler, CmdBegin, SendBegin,
          Main, wifi_send_cmd, wifi_send_data, CmdReset, CmdWrite, CmdArm, CmdWake,
          CmdReturn, SendTake, SendWrite, SendArm, SendWake, SendCheck,
          SendRelease, Process, Ignore, vars, rxVars
    <2>2. given' = given
      BY <1>3
      DEF Next, Module, Echo, Answer, News, TC0_Handler, CmdBegin, SendBegin,
          Main, wifi_send_cmd, wifi_send_data, CmdReset, CmdWrite, CmdArm, CmdWake,
          CmdReturn, SendTake, SendWrite, SendArm, SendWake, SendCheck,
          SendRelease, Process, Ignore, vars, histVars
    <2> QED
      BY <2>1, <2>2, <2>3 DEF Given
  <1> QED
    BY <1>1, <1>2, <1>3

\* A message the core has is not altered, and cleared only by its processing or
\* by a transmission outside it; what the core begins to read is what it was given.
THEOREM MessageAlwaysHeld == Spec => MessageHeld
  <1> DEFINE Step == /\ wifi_rx_buf_full /\ wifi_rx_buf' # wifi_rx_buf =>
                          wifi_rx_buf' = <<>> /\ (Processed \/ Lost)
                     /\ Process => wifi_rx_buf = given
  <1>1. WInv /\ Given /\ [Next]_vars => [Step]_vars
    <2> SUFFICES ASSUME WInv, Given, [Next]_vars
                 PROVE  Step
      OBVIOUS
    <2>1. ASSUME wifi_rx_buf_full, wifi_rx_buf' # wifi_rx_buf
          PROVE  wifi_rx_buf' = <<>> /\ (Processed \/ Lost)
      <3>1. ~UART0_Handler
        BY <2>1 DEF UART0_Handler, ForCommand, ForTransmission, ForCore, rxVars
      <3>2. SendClear \/ Release
        BY <2>1, <3>1
        DEF Next, Module, Echo, Answer, News, TC0_Handler, CmdBegin, SendBegin,
            Main, wifi_send_cmd, wifi_send_data, CmdReset, CmdWrite, CmdArm, CmdWake,
            CmdReturn, SendTake, SendWrite, SendArm, SendWake, SendCheck,
            SendRelease, Process, Ignore, vars, rxVars
      <3>3. back \in {"idle", "process"}
        BY DEF WInv, Types
      <3>4. wifi_rx_buf' = <<>>
        BY <3>2 DEF SendClear, Release
      <3> QED
        BY <3>2, <3>3, <3>4 DEF Processed, Lost
    <2>2. ASSUME Process
          PROVE  wifi_rx_buf = given
      <3>1. wifi_rx_buf_full /\ Len(wifi_rx_buf) > 0
        BY <2>2 DEF Process, Readable
      <3>2. wifi_rx_buf # <<>>
        BY <3>1
      <3> QED
        BY <3>1, <3>2 DEF Given
    <2> QED
      BY <2>1, <2>2
  <1>2. Init => Given
    BY DEF Init, Given
  <1>3. Given /\ [Next]_vars => Given'
    BY GivenStep
  <1> QED
    BY <1>1, <1>2, <1>3, WInvAlways, PTL DEF Spec, MessageHeld

(***************************************************************************)
(* What TX_SUCCESS means.                                                  *)
(***************************************************************************)

\* A call of wifi_send_data that began with no other transmission unanswered
\* finds only its own: the requests left are this one, and any SEND OK is for it.
Sending ==
  (InSend \/ pc = "send_release") /\ req \notin doubtful =>
    /\ \A i \in DOMAIN todo : todo[i].data => todo[i].of = req
    /\ \A i \in DOMAIN out : out[i].kind = "sent" => req \in delivered
    /\ data_tx_status = "TX_SUCCESS" \/ pc = "send_release" => req \in delivered

\* What the module does to the requests and to the SEND OKs on the line.
LEMMA ModuleSends ==
  ASSUME Types, Module
  PROVE  /\ \A i \in DOMAIN todo' : \E k \in DOMAIN todo :
              todo'[i].data = todo[k].data /\ todo'[i].of = todo[k].of
         /\ \A i \in DOMAIN out' : out'[i].kind = "sent" =>
              \/ \E k \in DOMAIN out : out[k].kind = "sent"
              \/ \E k \in DOMAIN todo : todo[k].data /\ todo[k].of \in delivered'
         /\ delivered \subseteq delivered'
  <1>1. ASSUME NEW t \in Seq(Token), out' = out \o t,
               \A k \in DOMAIN t : t[k].kind # "sent"
        PROVE  \A i \in DOMAIN out' : out'[i].kind = "sent" =>
                 \E k \in DOMAIN out : out[k].kind = "sent"
    <2>1. /\ Len(out) \in Nat /\ DOMAIN out' = 1 .. Len(out) + Len(t) /\ Len(t) \in Nat
          /\ DOMAIN out = 1 .. Len(out) /\ DOMAIN t = 1 .. Len(t)
          /\ \A i \in 1 .. Len(out) : out'[i] = out[i]
          /\ \A i \in 1 .. Len(t) : out'[Len(out) + i] = t[i]
      BY <1>1, ConcatFacts DEF Types
    <2>2. ASSUME NEW i \in DOMAIN out', i \notin 1 .. Len(out)
          PROVE  out'[i].kind # "sent"
      <3>1. i - Len(out) \in 1 .. Len(t) /\ Len(out) + (i - Len(out)) = i
        BY <2>1, <2>2
      <3> QED
        BY <1>1, <2>1, <3>1
    <2> QED
      BY <2>1, <2>2
  <1>2. \A k \in Kinds, r \in Ids : k # "sent" =>
          /\ <<Tok(k, r)>> \in Seq(Token) /\ Append(out, Tok(k, r)) = out \o <<Tok(k, r)>>
          /\ \A i \in DOMAIN <<Tok(k, r)>> : <<Tok(k, r)>>[i].kind # "sent"
    BY Made, AppendFacts DEF Types
  <1>3. CASE Echo
    <2>1. /\ todo # <<>> /\ Head(todo) \in Entry /\ todo[1] = Head(todo) /\ 1 \in DOMAIN todo
          /\ delivered' = delivered
      BY <1>3, TailFacts DEF Echo, Types
    <2>2. Head(todo).of \in Ids
      BY <2>1 DEF Entry
    <2>3. \A i \in DOMAIN out' : out'[i].kind = "sent" => \E k \in DOMAIN out : out[k].kind = "sent"
      <3> DEFINE t == <<Tok("echo", Head(todo).of)>>
      <3>1. /\ t \in Seq(Token) /\ out' = out \o t
            /\ \A k \in DOMAIN t : t[k].kind # "sent"
        BY <1>2, <1>3, <2>2 DEF Echo, Kinds
      <3> HIDE DEF t
      <3> QED
        BY <1>1, <3>1
    <2>4. /\ DOMAIN todo' = DOMAIN todo
          /\ \A i \in DOMAIN todo : todo'[i].of = todo[i].of /\ todo'[i].data = todo[i].data
      <3>1. todo' = [todo EXCEPT ![1] = [todo[1] EXCEPT !.echoed = TRUE]]
        BY <1>3 DEF Echo
      <3>2. /\ [todo[1] EXCEPT !.echoed = TRUE].of = todo[1].of
            /\ [todo[1] EXCEPT !.echoed = TRUE].data = todo[1].data
        BY <2>1 DEF Entry
      <3> QED
        BY <2>1, <3>1, <3>2 DEF Types
    <2> QED
      BY <2>1, <2>3, <2>4
  <1>4. CASE Answer
    <2>1. /\ todo # <<>> /\ Head(todo) \in Entry /\ todo[1] = Head(todo) /\ 1 \in DOMAIN todo
          /\ todo' = Tail(todo) /\ delivered \subseteq delivered'
          /\ \A i \in DOMAIN todo' : i + 1 \in DOMAIN todo /\ todo'[i] = todo[i + 1]
      BY <1>4, TailFacts DEF Answer, Types
    <2>2. Head(todo).of \in Ids
      BY <2>1 DEF Entry
    <2> DEFINE r == Head(todo).of
    <2>3. CASE out' = out \o <<Tok("body", r), Tok("done", r)>>
      <3> DEFINE t == <<Tok("body", r), Tok("done", r)>>
      <3>1. t \in Seq(Token) /\ \A k \in DOMAIN t : t[k].kind # "sent"
        BY <2>2, Made DEF Kinds
      <3> HIDE DEF t
      <3>2. out' = out \o t
        BY <2>3 DEF t
      <3> QED
        BY <1>1, <2>1, <3>1, <3>2
    <2>4. CASE out' = Append(out, Tok("body", r)) \/ out' = Append(out, Tok("fail", r))
      <3>1. PICK k \in Kinds : k # "sent" /\ out' = Append(out, Tok(k, r))
        BY <2>4 DEF Kinds
      <3> DEFINE t == <<Tok(k, r)>>
      <3>2. t \in Seq(Token) /\ out' = out \o t /\ \A i \in DOMAIN t : t[i].kind # "sent"
        BY <1>2, <2>2, <3>1
      <3> HIDE DEF t
      <3> QED
        BY <1>1, <2>1, <3>2
    <2>5. CASE Head(todo).data /\ delivered' = delivered \cup {r}
      BY <2>1, <2>5
    <2>6. CASE out' = out
      BY <2>1, <2>6
    <2> QED
      BY <1>4, <2>3, <2>4, <2>5, <2>6 DEF Answer
  <1>5. CASE News
    <2>1. /\ todo' = todo \/ todo' = <<>>
          /\ delivered' = delivered /\ news' \in Nat
      BY <1>5 DEF News, Types
    <2>2. \A i \in DOMAIN out' : out'[i].kind = "sent" => \E k \in DOMAIN out : out[k].kind = "sent"
      <3>1. CASE \E n \in Lengths : out' = out \o Piece(news', n)
        <4>1. PICK n \in Lengths : out' = out \o Piece(news', n)
          BY <3>1
        <4>2. /\ Piece(news', n) \in Seq(Token)
              /\ \A k \in DOMAIN Piece(news', n) : Piece(news', n)[k].kind # "sent"
          BY <2>1, PieceFacts
        <4> QED
          BY <1>1, <4>1, <4>2
      <3>2. CASE \/ out' = Append(out, Tok("link", <<"net", 0>>))
                 \/ out' = Append(out, Tok("ready", <<"net", 0>>))
        <4>1. PICK k \in Kinds : k # "sent" /\ out' = Append(out, Tok(k, <<"net", 0>>))
          BY <3>2 DEF Kinds
        <4> DEFINE t == <<Tok(k, <<"net", 0>>)>>
        <4>2. t \in Seq(Token) /\ out' = out \o t /\ \A i \in DOMAIN t : t[i].kind # "sent"
          BY <1>2, <4>1, Made
        <4> HIDE DEF t
        <4> QED
          BY <1>1, <4>2
      <3> QED
        BY <1>5, <3>1, <3>2 DEF News, Piece
    <2>3. \A i \in DOMAIN todo' : i \in DOMAIN todo /\ todo'[i] = todo[i]
      BY <2>1
    <2> QED
      BY <2>1, <2>2, <2>3
  <1> QED
    BY <1>3, <1>4, <1>5 DEF Module

LEMMA SendingStep ==
  ASSUME WInv, Sending, SuccessMeansSent, [Next]_vars
  PROVE  Sending' /\ SuccessMeansSent'
  <1>0. Types /\ Line
    BY DEF WInv
  <1> USE DEF Sending, SuccessMeansSent, InSend
  <1>1. CASE Module
    <2>1. /\ UNCHANGED <<pc, req, doubtful, claimed, data_tx_status>>
          /\ delivered \subseteq delivered'
      BY <1>0, <1>1, ModuleAppends, ModuleSends DEF waitVars, callVars, histVars
    <2>2. ASSUME InSend \/ pc = "send_release", req \notin doubtful
          PROVE  /\ \A i \in DOMAIN todo' : todo'[i].data => todo'[i].of = req
                 /\ \A i \in DOMAIN out' : out'[i].kind = "sent" => req \in delivered'
                 /\ data_tx_status = "TX_SUCCESS" \/ pc = "send_release" => req \in delivered'
      <3>1. /\ \A i \in DOMAIN todo : todo[i].data => todo[i].of = req
            /\ \A i \in DOMAIN out : out[i].kind = "sent" => req \in delivered
            /\ data_tx_status = "TX_SUCCESS" \/ pc = "send_release" => req \in delivered
        BY <2>2
      <3>2. \A i \in DOMAIN todo' : todo'[i].data => todo'[i].of = req
        BY <1>0, <1>1, <3>1, ModuleSends
      <3>3. \A i \in DOMAIN out' : out'[i].kind = "sent" => req \in delivered'
        BY <1>0, <1>1, <2>1, <3>1, ModuleSends
      <3> QED
        BY <2>1, <3>1, <3>2, <3>3
    <2> QED
      BY <2>1, <2>2
  <1>2. CASE UART0_Handler
    <2>1. /\ out # <<>> /\ Head(out) = out[1] /\ 1 \in DOMAIN out
          /\ \A i \in DOMAIN out' : i + 1 \in DOMAIN out /\ out'[i] = out[i + 1]
          /\ UNCHANGED <<todo, delivered, pc, req, claimed, doubtful>>
      <3>1. /\ out # <<>> /\ out' = Tail(out) /\ out \in Seq(Token)
            /\ UNCHANGED <<todo, delivered, pc, req, claimed, doubtful>>
        BY <1>0, <1>2 DEF UART0_Handler, Types, callVars
      <3>2. /\ Head(out) = out[1] /\ Len(out) \in Nat \ {0} /\ DOMAIN out = 1 .. Len(out)
            /\ DOMAIN Tail(out) = 1 .. Len(out) - 1
            /\ \A i \in 1 .. Len(out) - 1 : Tail(out)[i] = out[i + 1]
        BY <3>1, TailFacts
      <3> QED
        BY <3>1, <3>2
    <2>2. data_tx_status' = data_tx_status \/ Head(out).kind = "sent"
      BY <1>2 DEF UART0_Handler, ForCommand, ForTransmission, ForCore, waitVars
    <2> QED
      BY <2>1, <2>2
  <1>3. CASE SendBegin
    <2>1. /\ req' = <<"send", calls + 1>> /\ pc' = "send_take" /\ data_tx_status' = "TX_PENDING"
          /\ UNCHANGED <<todo, out, delivered, claimed>> /\ doubtful \subseteq doubtful'
          /\ \/ req' \in doubtful'
             \/ /\ \A i \in DOMAIN todo : ~todo[i].data
                /\ \A i \in DOMAIN out : out[i].kind # "sent"
      BY <1>3 DEF SendBegin, Call, chipVars
    <2> QED
      BY <2>1
  <1>4. CASE SendWrite
    <2>1. /\ Request(TRUE) \in Entry /\ Request(TRUE).of = req /\ todo \in Seq(Entry)
          /\ todo' = Append(todo, Request(TRUE)) /\ pc' = "send_arm" /\ pc = "send_write"
          /\ UNCHANGED <<out, delivered, data_tx_status, req, claimed, doubtful>>
      BY <1>0, <1>4
      DEF SendWrite, Goto, Request, Entry, Types, waitVars, callVars, histVars
    <2>2. ASSUME NEW i \in DOMAIN todo'
          PROVE  (i \in DOMAIN todo /\ todo'[i] = todo[i]) \/ todo'[i] = Request(TRUE)
      <3>1. ASSUME NEW e \in Entry
            PROVE  /\ Len(todo) \in Nat /\ DOMAIN Append(todo, e) = 1 .. Len(todo) + 1
                   /\ DOMAIN todo = 1 .. Len(todo)
                   /\ \A k \in 1 .. Len(todo) : Append(todo, e)[k] = todo[k]
                   /\ Append(todo, e)[Len(todo) + 1] = e
        BY <2>1, AppendFacts
      <3>2. /\ Len(todo) \in Nat /\ DOMAIN todo' = 1 .. Len(todo) + 1
            /\ DOMAIN todo = 1 .. Len(todo)
            /\ \A k \in 1 .. Len(todo) : todo'[k] = todo[k]
            /\ todo'[Len(todo) + 1] = Request(TRUE)
        BY <2>1, <3>1
      <3>3. i \in 1 .. Len(todo) \/ i = Len(todo) + 1
        BY <3>2
      <3> QED
        BY <3>2, <3>3
    <2> QED
      BY <2>1, <2>2
  <1>5. CASE SendRelease
    BY <1>0, <1>5 DEF SendRelease, Goto, Types, chipVars, callVars
  <1>6. CASE SendCheck
    BY <1>0, <1>6 DEF SendCheck, Types, chipVars, waitVars, callVars, histVars
  <1>7. CASE SendTake \/ SendClear \/ SendArm \/ SendWake
    BY <1>7 DEF SendTake, SendClear, SendArm, SendWake, Goto, chipVars, waitVars, callVars, histVars
  <1>8. CASE \/ \E text \in Texts : CmdBegin(text)
             \/ CmdReset \/ CmdArm \/ CmdWake \/ CmdReturn
             \/ Process \/ Ignore \/ Release \/ CmdWrite
    <2>1. ~InSend' /\ pc' # "send_release" /\ UNCHANGED <<claimed, delivered, doubtful>>
      BY <1>0, <1>8
      DEF CmdBegin, CmdReset, CmdArm, CmdWake, CmdReturn, CmdWrite, Process, Ignore, Release,
          Goto, Types, chipVars, histVars
    <2> QED
      BY <2>1
  <1>9. CASE TC0_Handler \/ UNCHANGED vars
    BY <1>9 DEF TC0_Handler, vars, chipVars, waitVars, callVars, histVars
  <1> QED
    BY <1>1, <1>2, <1>3, <1>4, <1>5, <1>6, <1>7, <1>8, <1>9
    DEF Next, Main, wifi_send_cmd, wifi_send_data

\* TX_SUCCESS means that the module has sent this very data, unless an earlier
\* transmission was still unanswered when wifi_send_data was called.
THEOREM SuccessIsSent == Spec => []SuccessMeansSent
  <1>1. Init => Sending /\ SuccessMeansSent
    BY DEF Init, Sending, SuccessMeansSent, InSend
  <1>2. WInv /\ Sending /\ SuccessMeansSent /\ [Next]_vars => (Sending /\ SuccessMeansSent)'
    BY SendingStep
  <1> QED
    BY <1>1, <1>2, WInvAlways, PTL DEF Spec

(***************************************************************************)
(* Whose answer a caller gets.                                             *)
(***************************************************************************)

\* A token that a caller may take for an answer is one to its command.
Mine(t) == t.kind \in {"body", "done"} => t.of = req

\* The echo that begins the answer to this command.
Mark == Tok("echo", req)

\* The module has nothing to do but this command, which it has echoed.
Sole == \A i \in DOMAIN todo : i = 1 /\ todo[i].echoed /\ todo[i].of = req

\* Before the command is written there is no echo of it anywhere.
Unheard ==
  /\ \A i \in DOMAIN todo : todo[i].of # req
  /\ \A i \in DOMAIN out : out[i] # Mark
  /\ \A i \in DOMAIN resp_buf : resp_buf[i] # Mark

\* Once it is written it is the module's last request, so that its echo comes
\* behind the answers to all others.
Heard ==
  /\ \A i \in DOMAIN todo : todo[i].of = req => i = Len(todo)
  /\ \A i \in DOMAIN out : out[i] = Mark => Sole /\ \A j \in i .. Len(out) : Mine(out[j])
  /\ resp_buf # <<>> /\ resp_buf[1] = Mark =>
       /\ Sole
       /\ \A i \in DOMAIN out : Mine(out[i])
       /\ \A i \in DOMAIN resp_buf : Mine(resp_buf[i])

Own ==
  ~repeated =>
    /\ \A i \in DOMAIN answer : Mine(answer[i])
    /\ pc \in {"cmd_reset", "cmd_write"} => Unheard
    /\ pc \in {"cmd_arm", "cmd_wait", "cmd_return"} => Heard

\* What the module puts on the line when it does not echo.
LEMMA ModuleTokens ==
  ASSUME Types, Answer \/ News
  PROVE  /\ todo' = todo \/ todo' = <<>> \/ (todo # <<>> /\ todo' = Tail(todo))
         /\ \E t \in Seq(Token) :
              /\ out' = out \o t
              /\ \A k \in DOMAIN t :
                   /\ t[k].kind # "echo"
                   /\ t[k].kind \in {"body", "done"} => 1 \in DOMAIN todo /\ t[k].of = todo[1].of
  <1> DEFINE Fine(t) ==
        \A k \in DOMAIN t :
          /\ t[k].kind # "echo"
          /\ t[k].kind \in {"body", "done"} => 1 \in DOMAIN todo /\ t[k].of = todo[1].of
  <1>1. CASE Answer
    <2>1. /\ todo # <<>> /\ Head(todo) \in Entry /\ todo[1] = Head(todo) /\ 1 \in DOMAIN todo
          /\ todo' = Tail(todo)
      BY <1>1, TailFacts DEF Answer, Types
    <2> DEFINE r == Head(todo).of
    <2>2. r \in Ids /\ r = todo[1].of
      BY <2>1 DEF Entry
    <2> HIDE DEF r
    <2>3. /\ <<Tok("body", r), Tok("done", r)>> \in Seq(Token)
          /\ Fine(<<Tok("body", r), Tok("done", r)>>)
      BY <2>1, <2>2, Made DEF Kinds
    <2>4. ASSUME NEW k \in {"body", "sent", "fail"}
          PROVE  <<Tok(k, r)>> \in Seq(Token) /\ Fine(<<Tok(k, r)>>)
                 /\ Append(out, Tok(k, r)) = out \o <<Tok(k, r)>>
      <3>1. Tok(k, r) \in Token /\ Tok(k, r).kind = k /\ Tok(k, r).of = r
        BY <2>2, Made DEF Kinds
      <3>2. out \in Seq(Token)
        BY DEF Types
      <3> QED
        BY <2>1, <2>2, <3>1, <3>2, AppendFacts
    <2>5. <<>> \in Seq(Token) /\ out \o <<>> = out /\ Fine(<<>>)
      BY DEF Types
    <2>6. \/ out' = out \o <<Tok("body", r), Tok("done", r)>>
          \/ \E k \in {"body", "sent", "fail"} : out' = Append(out, Tok(k, r))
          \/ out' = out
      BY <1>1 DEF Answer, r
    <2> HIDE DEF Fine
    <2>7. \E t \in Seq(Token) : out' = out \o t /\ Fine(t)
      BY <2>3, <2>4, <2>5, <2>6
    <2> QED
      BY <2>1, <2>7 DEF Fine
  <1>2. CASE News
    <2>1. (todo' = todo \/ todo' = <<>>) /\ news' \in Nat
      BY <1>2 DEF News, Types
    <2>2. ASSUME NEW n \in Lengths
          PROVE  Piece(news', n) \in Seq(Token) /\ Fine(Piece(news', n))
      BY <2>1, PieceFacts
    <2>3. ASSUME NEW k \in {"link", "ready"}
          PROVE  /\ <<Tok(k, <<"net", 0>>)>> \in Seq(Token) /\ Fine(<<Tok(k, <<"net", 0>>)>>)
                 /\ Append(out, Tok(k, <<"net", 0>>)) = out \o <<Tok(k, <<"net", 0>>)>>
      <3>1. Tok(k, <<"net", 0>>) \in Token /\ Tok(k, <<"net", 0>>).kind = k
        BY Made DEF Kinds
      <3>2. out \in Seq(Token)
        BY DEF Types
      <3> QED
        BY <3>1, <3>2, AppendFacts
    <2>4. \/ \E n \in Lengths : out' = out \o Piece(news', n)
          \/ \E k \in {"link", "ready"} : out' = Append(out, Tok(k, <<"net", 0>>))
      BY <1>2 DEF News, Piece
    <2> HIDE DEF Fine
    <2>5. \E t \in Seq(Token) : out' = out \o t /\ Fine(t)
      BY <2>2, <2>3, <2>4
    <2> QED
      BY <2>1, <2>5 DEF Fine
  <1> QED
    BY <1>1, <1>2

\* Steps of the module other than an echo.
LEMMA OwnModule ==
  ASSUME Types, Own, Answer \/ News
  PROVE  Own'
  <1>1. UNCHANGED <<resp_buf, pc, req, answer, repeated>>
    BY DEF Answer, News, waitVars, callVars
  <1>2. PICK t \in Seq(Token) :
          /\ out' = out \o t
          /\ \A k \in DOMAIN t :
               /\ t[k].kind # "echo"
               /\ t[k].kind \in {"body", "done"} => 1 \in DOMAIN todo /\ t[k].of = todo[1].of
    BY ModuleTokens
  <1>3. /\ Len(out) \in Nat /\ Len(t) \in Nat
        /\ DOMAIN out = 1 .. Len(out) /\ DOMAIN t = 1 .. Len(t)
        /\ DOMAIN out' = 1 .. Len(out) + Len(t) /\ Len(out') = Len(out) + Len(t)
        /\ \A i \in 1 .. Len(out) : out'[i] = out[i]
        /\ \A i \in 1 .. Len(t) : out'[Len(out) + i] = t[i]
    BY <1>2, ConcatFacts DEF Types
  <1>4. \A i \in DOMAIN out' :
          \/ i \in 1 .. Len(out) /\ out'[i] = out[i]
          \/ /\ i \notin 1 .. Len(out) /\ out'[i].kind # "echo"
             /\ out'[i].kind \in {"body", "done"} => 1 \in DOMAIN todo /\ out'[i].of = todo[1].of
    <2> TAKE i \in DOMAIN out'
    <2>1. CASE i \in 1 .. Len(out)
      BY <1>3, <2>1
    <2>2. CASE i \notin 1 .. Len(out)
      <3>1. i - Len(out) \in 1 .. Len(t) /\ Len(out) + (i - Len(out)) = i
        BY <1>3, <2>2
      <3> QED
        BY <1>2, <1>3, <2>2, <3>1
    <2> QED
      BY <2>1, <2>2
  <1>5. todo \in Seq(Entry) /\ Mark.kind = "echo" /\ Mark' = Mark
    BY <1>1 DEF Types, Mark, Tok
  <1>6. /\ DOMAIN todo = 1 .. Len(todo) /\ Len(todo) \in Nat
        /\ DOMAIN todo' = 1 .. Len(todo') /\ Len(todo') \in Nat
        /\ \E d \in {0, 1} : \A i \in 1 .. Len(todo') :
             /\ i + d \in 1 .. Len(todo) /\ todo'[i] = todo[i + d]
             /\ i + d = Len(todo) => i = Len(todo')
    <2>1. CASE todo # <<>> /\ todo' = Tail(todo)
      <3>1. /\ Len(todo) \in Nat \ {0} /\ DOMAIN todo = 1 .. Len(todo)
            /\ Len(todo') = Len(todo) - 1 /\ DOMAIN todo' = 1 .. Len(todo) - 1
            /\ \A i \in 1 .. Len(todo) - 1 : todo'[i] = todo[i + 1]
        BY <1>5, <2>1, TailFacts
      <3>2. \A n \in Nat \ {0} : \A i \in 1 .. n - 1 :
              i + 1 \in 1 .. n /\ (i + 1 = n => i = n - 1)
        OBVIOUS
      <3>3. \A i \in 1 .. Len(todo) - 1 :
              /\ i + 1 \in 1 .. Len(todo) /\ todo'[i] = todo[i + 1]
              /\ i + 1 = Len(todo) => i = Len(todo) - 1
        BY <3>1, <3>2
      <3>4. Len(todo) - 1 \in Nat
        BY <3>1
      <3> QED
        BY ONLY <3>1, <3>3, <3>4
    <2>2. CASE todo' = todo
      BY <1>5, <2>2
    <2>3. CASE todo' = <<>>
      BY <1>5, <2>3
    <2> QED
      BY <2>1, <2>2, <2>3, ModuleTokens
  <1>7. PICK d \in {0, 1} : \A i \in 1 .. Len(todo') :
             /\ i + d \in 1 .. Len(todo) /\ todo'[i] = todo[i + d]
             /\ i + d = Len(todo) => i = Len(todo')
    BY <1>6
  <1>8. Sole => Sole' /\ \A i \in DOMAIN out' : i \notin 1 .. Len(out) => Mine(out[i])'
    <2> SUFFICES ASSUME Sole
                 PROVE  Sole' /\ \A i \in DOMAIN out' : i \notin 1 .. Len(out) => Mine(out[i])'
      OBVIOUS
    <2>1. \A i \in 1 .. Len(todo) : i = 1 /\ todo[i].echoed /\ todo[i].of = req
      BY <1>6 DEF Sole
    <2>2. ASSUME NEW i \in 1 .. Len(todo')
          PROVE  i = 1 /\ todo'[i].echoed /\ todo'[i].of = req'
      <3>0. i \in Nat \ {0} /\ todo'[i] = todo[i + d] /\ i + d \in 1 .. Len(todo)
        <4>1. todo'[i] = todo[i + d] /\ i + d \in 1 .. Len(todo)
          BY ONLY <1>7
        <4>2. Len(todo') \in Nat
          BY ONLY <1>6
        <4>3. i \in Nat \ {0}
          BY ONLY <4>2
        <4> QED
          BY ONLY <4>1, <4>3
      <3>1. i + d = 1 /\ todo'[i] = todo[i + d] /\ i + d \in 1 .. Len(todo) /\ i \in Nat \ {0}
        BY ONLY <3>0, <2>1
      <3>2. i = 1 /\ d = 0
        BY <3>1
      <3> QED
        BY <1>1, <2>1, <3>1, <3>2
    <2>3. \A i \in DOMAIN out' : i \notin 1 .. Len(out) =>
            (out'[i].kind \in {"body", "done"} => out'[i].of = req')
      BY <1>1, <1>4, <1>6, <2>1
    <2> QED
      BY <1>6, <2>2, <2>3 DEF Sole, Mine
  <1>9. Unheard => Unheard'
    <2>1. \A i \in DOMAIN todo' : \E k \in DOMAIN todo : todo'[i] = todo[k]
      BY <1>6, <1>7
    <2> QED
      BY <1>1, <1>3, <1>4, <1>5, <2>1 DEF Unheard
  <1>10. ASSUME Heard PROVE Heard'
    <2>1. ASSUME NEW i \in DOMAIN todo', todo'[i].of = req' PROVE i = Len(todo')
      BY <1>1, <1>6, <1>7, <1>10, <2>1 DEF Heard
    <2>2. ASSUME NEW i \in DOMAIN out', out'[i] = Mark'
          PROVE  Sole' /\ \A j \in i .. Len(out') : Mine(out[j])'
      <3>1. i \in 1 .. Len(out) /\ out[i] = Mark
        BY <1>4, <1>5, <2>2
      <3>2. Sole /\ \A j \in i .. Len(out) : Mine(out[j])
        BY <1>3, <1>10, <3>1 DEF Heard
      <3>3. ASSUME NEW j \in i .. Len(out') PROVE Mine(out[j])'
        <4>1. j \in DOMAIN out' /\ (j \in 1 .. Len(out) => j \in i .. Len(out))
          BY <1>3, <3>1
        <4>2. CASE j \in 1 .. Len(out)
          <5>1. Mine(out[j]) /\ out'[j] = out[j]
            BY <1>3, <3>2, <4>1, <4>2
          <5> QED
            BY <1>1, <5>1 DEF Mine
        <4> QED
          BY <1>8, <3>2, <4>1, <4>2
      <3> QED
        BY <1>8, <3>2, <3>3
    <2>3. ASSUME resp_buf' # <<>>, resp_buf'[1] = Mark'
          PROVE  /\ Sole'
                 /\ \A i \in DOMAIN out' : Mine(out[i])'
                 /\ \A i \in DOMAIN resp_buf' : Mine(resp_buf[i])'
      <3>1. /\ Sole /\ \A i \in DOMAIN out : Mine(out[i])
            /\ \A i \in DOMAIN resp_buf : Mine(resp_buf[i])
        BY <1>1, <1>5, <1>10, <2>3 DEF Heard
      <3>2. \A i \in DOMAIN out' : i \in 1 .. Len(out) => Mine(out[i])'
        BY <1>1, <1>3, <3>1 DEF Mine
      <3>3. \A i \in DOMAIN resp_buf' : Mine(resp_buf[i])'
        BY <1>1, <3>1 DEF Mine
      <3> QED
        BY <1>8, <3>1, <3>2, <3>3
    <2> QED
      BY <2>1, <2>2, <2>3 DEF Heard
  <1>11. \A i \in DOMAIN answer : Mine(answer[i]) <=> Mine(answer[i])'
    BY <1>1 DEF Mine
  <1> QED
    BY <1>1, <1>9, <1>10, <1>11 DEF Own

\* An echo of this command comes last on the line, with nothing left behind it.
LEMMA OwnEcho ==
  ASSUME Types, Own, Echo
  PROVE  Own'
  <1>1. /\ UNCHANGED <<resp_buf, pc, req, answer, repeated>>
        /\ todo # <<>> /\ todo \in Seq(Entry) /\ out \in Seq(Token)
    BY DEF Echo, Types, waitVars, callVars
  <1>2. /\ Head(todo) \in Entry /\ todo[1] = Head(todo) /\ 1 \in DOMAIN todo
        /\ DOMAIN todo = 1 .. Len(todo) /\ Len(todo) \in Nat \ {0}
    BY <1>1, TailFacts
  <1> DEFINE r == todo[1].of
             e == Tok("echo", r)
  <1>3. r \in Ids /\ e \in Token /\ e.kind = "echo" /\ e.of = r /\ ~todo[1].echoed
    BY <1>2, Made DEF Entry, Kinds, Echo
  <1>4. out' = Append(out, e)
    BY <1>2 DEF Echo
  <1> HIDE DEF r, e
  <1>5. /\ Len(out) \in Nat /\ DOMAIN out = 1 .. Len(out)
        /\ DOMAIN out' = 1 .. Len(out) + 1 /\ Len(out') = Len(out) + 1
        /\ \A i \in 1 .. Len(out) : out'[i] = out[i]
        /\ out'[Len(out) + 1] = e
    BY <1>1, <1>3, <1>4, AppendFacts
  <1>6. /\ DOMAIN todo' = DOMAIN todo /\ Len(todo') = Len(todo)
        /\ \A i \in DOMAIN todo : todo'[i].of = todo[i].of
        /\ todo'[1].echoed
    <2>1. todo' = [todo EXCEPT ![1] = [todo[1] EXCEPT !.echoed = TRUE]]
      BY DEF Echo
    <2>2. /\ [todo[1] EXCEPT !.echoed = TRUE].of = todo[1].of
          /\ [todo[1] EXCEPT !.echoed = TRUE].echoed = TRUE
          /\ [todo[1] EXCEPT !.echoed = TRUE] \in Entry
      BY <1>2 DEF Entry
    <2>3. todo' \in Seq(Entry) /\ Len(todo') = Len(todo) /\ DOMAIN todo' = DOMAIN todo
      BY <1>1, <1>2, <2>1, <2>2
    <2> QED
      BY <1>1, <1>2, <2>1, <2>2, <2>3
  <1>7. ~Sole
    BY <1>2, <1>3 DEF Sole
  <1>8. Mark' = Mark /\ (e = Mark <=> r = req)
    BY <1>1, <1>3 DEF Mark, Tok, e
  <1>9. \A t : Mine(t)' <=> Mine(t)
    BY <1>1 DEF Mine
  <1>10. Unheard => Unheard'
    BY <1>1, <1>2, <1>5, <1>6, <1>8 DEF Unheard, r
  <1>11. ASSUME Heard PROVE Heard'
    <2>1. \A i \in DOMAIN todo' : todo'[i].of = req' => i = Len(todo')
      BY <1>1, <1>6, <1>11 DEF Heard
    <2>2. (\A i \in 1 .. Len(out) : out[i] # Mark) /\ ~(resp_buf # <<>> /\ resp_buf[1] = Mark)
      BY <1>5, <1>7, <1>11 DEF Heard
    <2>3. ASSUME NEW i \in DOMAIN out', out'[i] = Mark'
          PROVE  Sole' /\ \A j \in i .. Len(out') : Mine(out[j])'
      <3>1. i = Len(out) + 1 /\ e = Mark
        BY <1>5, <1>8, <2>2, <2>3
      <3>2. r = req /\ Len(todo) = 1
        BY <1>2, <1>8, <1>11, <3>1 DEF Heard, r
      <3>3. Sole'
        BY <1>1, <1>2, <1>6, <3>2 DEF Sole, r
      <3>4. \A j \in i .. Len(out') : out'[j].kind = "echo"
        <4>1. \A j \in i .. Len(out') : j = Len(out) + 1
          BY <1>5, <3>1
        <4> QED
          BY <1>3, <1>5, <4>1
      <3> QED
        BY <3>3, <3>4 DEF Mine
    <2> QED
      BY <1>1, <1>8, <2>1, <2>2, <2>3 DEF Heard
  <1> QED
    BY <1>1, <1>9, <1>10, <1>11 DEF Own, Mine

\* The handler moves the first token on the line to the response, or elsewhere.
LEMMA OwnHandler ==
  ASSUME WInv, Own, UART0_Handler
  PROVE  Own'
  <1>1. /\ out # <<>> /\ out' = Tail(out) /\ out \in Seq(Token) /\ resp_buf \in Seq(Token)
        /\ UNCHANGED <<todo, pc, req, answer, repeated>>
    BY DEF UART0_Handler, WInv, Types, callVars
  <1> DEFINE tok == Head(out)
  <1>2. /\ tok = out[1] /\ tok \in Token /\ Len(out) \in Nat \ {0} /\ DOMAIN out = 1 .. Len(out)
        /\ DOMAIN out' = 1 .. Len(out) - 1 /\ Len(out') = Len(out) - 1
        /\ \A i \in 1 .. Len(out) - 1 : out'[i] = out[i + 1]
    BY <1>1, TailFacts
  <1>3. \/ resp_buf' = resp_buf
        \/ resp_buf' = Append(resp_buf, tok)
        \/ data_tx_status = "TX_PENDING"
    BY DEF UART0_Handler, ForCommand, ForTransmission, ForCore, waitVars
  <1>4. data_tx_status = "TX_PENDING" =>
          pc \notin {"cmd_reset", "cmd_write", "cmd_arm", "cmd_wait", "cmd_return"}
    BY DEF WInv, Line, InSend
  <1> HIDE DEF tok
  <1>5. Mark' = Mark /\ \A t : Mine(t)' <=> Mine(t)
    BY <1>1 DEF Mark, Tok, Mine
  <1>6. Sole' <=> Sole
    BY <1>1 DEF Sole
  <1>7. resp_buf' = resp_buf \/ resp_buf' = Append(resp_buf, tok) =>
          \A i \in DOMAIN resp_buf' :
            (i \in DOMAIN resp_buf /\ resp_buf'[i] = resp_buf[i]) \/ resp_buf'[i] = tok
    <2>1. CASE resp_buf' = Append(resp_buf, tok)
      <3>1. /\ DOMAIN resp_buf' = 1 .. Len(resp_buf) + 1 /\ DOMAIN resp_buf = 1 .. Len(resp_buf)
            /\ Len(resp_buf) \in Nat
            /\ \A i \in 1 .. Len(resp_buf) : resp_buf'[i] = resp_buf[i]
            /\ resp_buf'[Len(resp_buf) + 1] = tok
        BY <1>1, <1>2, <2>1, AppendFacts
      <3>2. \A i \in DOMAIN resp_buf' : i \in DOMAIN resp_buf \/ i = Len(resp_buf) + 1
        BY <3>1
      <3> QED
        BY <3>1, <3>2
    <2> QED
      BY <2>1
  <1>8. ASSUME resp_buf' = resp_buf \/ resp_buf' = Append(resp_buf, tok), Unheard
        PROVE  Unheard'
    <2>1. \A i \in DOMAIN out' : \E k \in DOMAIN out : out'[i] = out[k]
      BY <1>2
    <2> QED
      BY <1>1, <1>2, <1>5, <1>7, <1>8, <2>1 DEF Unheard
  <1>9. ASSUME resp_buf' = resp_buf \/ resp_buf' = Append(resp_buf, tok), Heard
        PROVE  Heard'
    <2>1. ASSUME NEW i \in DOMAIN out', out'[i] = Mark'
          PROVE  Sole /\ \A j \in i .. Len(out') : Mine(out'[j])
      <3>1. /\ i + 1 \in DOMAIN out /\ out[i + 1] = Mark /\ i \in Nat
        BY <1>2, <1>5, <2>1
      <3>2. Sole /\ \A j \in i + 1 .. Len(out) : Mine(out[j])
        BY <1>9, <3>1 DEF Heard
      <3>3. \A j \in i .. Len(out) - 1 : j + 1 \in i + 1 .. Len(out) /\ out'[j] = out[j + 1]
        BY <1>2, <2>1
      <3> QED
        BY <1>2, <3>2, <3>3
    <2>2. ASSUME resp_buf' # <<>>, resp_buf'[1] = Mark'
          PROVE  /\ Sole /\ \A i \in DOMAIN out' : Mine(out'[i])
                 /\ \A i \in DOMAIN resp_buf' : Mine(resp_buf'[i])
      <3>1. Sole /\ (\A i \in DOMAIN out : Mine(out[i])) /\ \A i \in DOMAIN resp_buf : Mine(resp_buf[i])
        <4>1. CASE resp_buf = <<>>
          <5>1. tok = Mark
            BY <1>5, <1>9, <2>2, <4>1
          <5>2. Sole /\ \A j \in 1 .. Len(out) : Mine(out[j])
            <6>1. 1 \in DOMAIN out /\ out[1] = Mark
              BY <1>2, <5>1
            <6> QED
              BY <1>9, <6>1 DEF Heard
          <5> QED
            BY <1>2, <4>1, <5>2
        <4>2. CASE resp_buf # <<>>
          <5>1. Len(resp_buf) \in Nat \ {0}
            BY <1>1, <4>2
          <5>2. resp_buf[1] = Mark
            BY <1>1, <1>2, <1>5, <1>9, <2>2, <5>1, AppendFacts
          <5> QED
            BY <1>9, <4>2, <5>2 DEF Heard
        <4> QED
          BY <4>1, <4>2
      <3>2. \A i \in DOMAIN out' : i + 1 \in DOMAIN out /\ out'[i] = out[i + 1]
        BY <1>2
      <3>3. Mine(tok)
        BY <1>2, <3>1
      <3> QED
        BY <1>7, <1>9, <3>1, <3>2, <3>3
    <2>3. (\A i \in DOMAIN todo : todo[i].of = req => i = Len(todo))'
      BY <1>1, <1>9 DEF Heard
    <2> QED
      BY <1>5, <1>6, <2>1, <2>2, <2>3 DEF Heard
  <1> QED
    BY <1>1, <1>3, <1>4, <1>5, <1>8, <1>9 DEF Own

LEMMA OwnStep ==
  ASSUME WInv, Own, [Next]_vars
  PROVE  Own'
  <1>0. Types
    BY DEF WInv
  <1> USE DEF chipVars, waitVars, callVars, histVars, Goto
  <1>1. CASE Module
    BY <1>0, <1>1, OwnEcho, OwnModule DEF Module
  <1>2. CASE UART0_Handler
    BY <1>2, OwnHandler
  <1>3. CASE \E text \in Texts : CmdBegin(text)
    <2>1. PICK text \in Texts : CmdBegin(text)
      BY <1>3
    <2>2. /\ pc' = "cmd_reset" /\ answer' = <<>> /\ resp_buf' = <<>>
          /\ UNCHANGED <<todo, out>>
      BY <2>1 DEF CmdBegin, Call, chipVars
    <2>3. ~repeated' => /\ \A i \in DOMAIN todo : todo[i].of # req'
                        /\ \A i \in DOMAIN out : out[i] # Tok("echo", req')
      BY <2>1 DEF CmdBegin
    <2>4. ~repeated' => Unheard'
      BY <2>2, <2>3 DEF Unheard, Mark, Tok
    <2>5. \A i \in DOMAIN answer' : Mine(answer[i])'
      BY <2>2
    <2> QED
      BY <2>2, <2>4, <2>5 DEF Own
  <1>4. CASE CmdWrite
    <2>1. /\ pc = "cmd_write" /\ pc' = "cmd_arm" /\ UNCHANGED <<out, resp_buf, req, answer, repeated>>
          /\ todo' = Append(todo, Request(FALSE)) /\ todo \in Seq(Entry)
      BY <1>0, <1>4 DEF CmdWrite, Types
    <2>2. Len(todo') = Len(todo) + 1 /\ DOMAIN todo' = 1 .. Len(todo) + 1 /\ Len(todo) \in Nat
          /\ DOMAIN todo = 1 .. Len(todo) /\ \A i \in 1 .. Len(todo) : todo'[i] = todo[i]
      <3>1. ASSUME NEW e \in Entry
            PROVE  /\ Len(todo) \in Nat /\ DOMAIN Append(todo, e) = 1 .. Len(todo) + 1
                   /\ Len(Append(todo, e)) = Len(todo) + 1 /\ DOMAIN todo = 1 .. Len(todo)
                   /\ \A k \in 1 .. Len(todo) : Append(todo, e)[k] = todo[k]
        BY <2>1, AppendFacts
      <3>2. Request(FALSE) \in Entry
        BY <1>0 DEF Types, Request, Entry
      <3> QED
        BY <2>1, <3>1, <3>2
    <2>3. ASSUME Unheard PROVE Heard'
      <3>1. ASSUME NEW i \in DOMAIN todo', todo'[i].of = req' PROVE i = Len(todo')
        <4>1. i \notin 1 .. Len(todo)
          BY <2>1, <2>2, <2>3, <3>1 DEF Unheard
        <4> QED
          BY <2>2, <4>1
      <3>2. (\A i \in DOMAIN out' : out'[i] # Mark') /\ \A i \in DOMAIN resp_buf' : resp_buf'[i] # Mark'
        BY <2>1, <2>3 DEF Unheard, Mark, Tok
      <3>3. ~(resp_buf' # <<>> /\ resp_buf'[1] = Mark')
        <4>1. resp_buf' # <<>> => 1 \in DOMAIN resp_buf'
          BY <1>0, <2>1 DEF Types
        <4> QED
          BY <3>2, <4>1
      <3> QED
        BY <3>1, <3>2, <3>3 DEF Heard
    <2> QED
      BY <2>1, <2>3 DEF Own, Mine
  <1>5. CASE CmdReturn
    <2>1. /\ pc = "cmd_return" /\ pc' \in {"idle", "process"}
          /\ UNCHANGED <<out, todo, resp_buf, req, repeated>>
          /\ answer' = IF Answered THEN Tail(resp_buf) ELSE <<>>
      BY <1>0, <1>5 DEF CmdReturn, Types
    <2>2. ASSUME ~repeated, NEW i \in DOMAIN answer' PROVE Mine(answer'[i])
      <3>1. Answered /\ answer' = Tail(resp_buf) /\ resp_buf # <<>> /\ resp_buf \in Seq(Token)
        BY <1>0, <2>1, <2>2 DEF Answered, Types
      <3>2. /\ resp_buf[1] = Mark /\ i + 1 \in DOMAIN resp_buf /\ answer'[i] = resp_buf[i + 1]
        BY <3>1, TailFacts DEF Answered, Mark
      <3> QED
        BY <2>1, <2>2, <3>1, <3>2 DEF Own, Heard
    <2> QED
      BY <2>1, <2>2 DEF Own, Mine
  <1>6. CASE SendBegin
    <2>1. pc' = "send_take" /\ answer' = <<>>
      BY <1>6 DEF SendBegin, Call
    <2> QED
      BY <2>1 DEF Own
  <1>7. CASE \/ CmdReset \/ CmdArm \/ CmdWake \/ TC0_Handler \/ UNCHANGED vars
    <2>1. /\ UNCHANGED <<out, todo, resp_buf, req, answer, repeated>>
          /\ \/ pc' = pc
             \/ pc = "cmd_reset" /\ pc' = "cmd_write"
             \/ /\ pc \in {"cmd_arm", "cmd_wait", "cmd_return"}
                /\ pc' \in {"cmd_arm", "cmd_wait", "cmd_return"}
      BY <1>7 DEF CmdReset, CmdArm, CmdWake, TC0_Handler, vars
    <2>2. /\ Unheard' <=> Unheard
          /\ Heard' <=> Heard
          /\ \A i : Mine(answer[i])' <=> Mine(answer[i])
      BY <2>1 DEF Unheard, Heard, Mark, Tok, Mine, Sole
    <2> QED
      BY <2>1, <2>2 DEF Own
  <1>8. CASE \/ SendTake \/ SendClear \/ SendWrite \/ SendArm \/ SendWake \/ SendCheck
             \/ SendRelease \/ Process \/ Ignore \/ Release
    <2>1. /\ UNCHANGED <<req, answer, repeated>>
          /\ pc' \notin {"cmd_reset", "cmd_write", "cmd_arm", "cmd_wait", "cmd_return"}
      BY <1>0, <1>8
      DEF SendTake, SendClear, SendWrite, SendArm, SendWake, SendCheck, SendRelease, Process,
          Ignore, Release, Types
    <2> QED
      BY <2>1 DEF Own, Mine
  <1> QED
    BY <1>1, <1>2, <1>3, <1>4, <1>5, <1>6, <1>7, <1>8 DEF Next, Main, wifi_send_cmd, wifi_send_data

\* However late the answers to earlier commands come, a caller of wifi_send_cmd
\* gets what the module said to its own command, if it was not one repeated
\* while it was unanswered.
THEOREM AnswersAreOwn == Spec => []OwnAnswer
  <1>1. Init => Own
    BY DEF Init, Own
  <1>2. WInv /\ Own /\ [Next]_vars => Own'
    BY OwnStep
  <1>3. Own /\ WInv => OwnAnswer
    BY DEF Own, OwnAnswer, Mine, WInv, Types
  <1> QED
    BY <1>1, <1>2, <1>3, WInvAlways, PTL DEF Spec
=============================================================================
