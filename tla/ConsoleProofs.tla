----------------------------- MODULE ConsoleProofs -----------------------------
(***************************************************************************)
(* Proofs about the command line, for lines and a buffer of any length,    *)
(* any characters, and a host that sends as much as it likes.              *)
(***************************************************************************)
EXTENDS Console, SequenceTheorems, TLAPS

(***************************************************************************)
(* Sequences.                                                              *)
(***************************************************************************)

LEMMA TailFacts ==
  ASSUME NEW S, NEW s \in Seq(S), s # <<>>
  PROVE  /\ Tail(s) \in Seq(S) /\ Head(s) \in S /\ Head(s) = s[1]
         /\ Len(s) \in Nat \ {0} /\ Len(Tail(s)) = Len(s) - 1
         /\ \A i \in 1 .. Len(s) - 1 : Tail(s)[i] = s[i + 1]
  OBVIOUS

LEMMA AppendFacts ==
  ASSUME NEW S, NEW s \in Seq(S), NEW e \in S
  PROVE  /\ Append(s, e) \in Seq(S) /\ Len(s) \in Nat
         /\ Len(Append(s, e)) = Len(s) + 1
         /\ \A i \in 1 .. Len(s) : Append(s, e)[i] = s[i]
         /\ Append(s, e)[Len(s) + 1] = e
  BY AppendProperties

LEMMA ShorterFacts ==
  ASSUME NEW S, NEW s \in Seq(S), s # <<>>
  PROVE  SubSeq(s, 1, Len(s) - 1) \in Seq(S)
  BY SubSeqProperties

(***************************************************************************)
(* The inductive invariant.                                                *)
(***************************************************************************)

Line == Seq(Chars \ {"NL"})

\* What one character, not the end of the line, makes of a line.
Edit(s, c) ==
  IF c \in {"BS", "DEL"} /\ s # <<>> THEN SubSeq(s, 1, Len(s) - 1)
  ELSE IF c \in Printable \cup {"DEL"} /\ Len(s) < CMD_BUF_SIZE - 1 THEN Append(s, c)
  ELSE s

\* The lines that w passes through from buf to result as the first n characters
\* of r are read.
Reading(w, buf, r, n, result) ==
  /\ w \in [0 .. n -> Line]
  /\ w[0] = buf /\ w[n] = result
  /\ \A i \in 1 .. n : r[i] # "NL" /\ w[i] = Edit(w[i - 1], r[i])

Types ==
  /\ rx \in Seq(Chars) /\ notified \in BOOLEAN /\ cmd_buf \in Line
  /\ cmd_buf_full \in BOOLEAN /\ pc \in {"idle", "running", "clear", "release"}
  /\ paced \in BOOLEAN /\ line \in Line /\ due \in Seq(Line)

\* The main loop is in a command only while the flag is set.
Flag == pc # "idle" => cmd_buf_full

\* The host types a line: what is in the buffer and what is still to be read
\* make together what it means.
Typing ==
  /\ ~cmd_buf_full /\ pc = "idle" /\ due = <<>> /\ (~notified => rx = <<>>)
  /\ \E w : Reading(w, cmd_buf, rx, Len(rx), line)

\* It has ended the line: the end comes last.
Ended ==
  /\ ~cmd_buf_full /\ pc = "idle" /\ line = <<>> /\ notified
  /\ rx # <<>> /\ rx[Len(rx)] = "NL"
  /\ \E s \in Line : due = <<s>> /\ \E w : Reading(w, cmd_buf, rx, Len(rx) - 1, s)

\* The line is in the buffer, and then it is run and the buffer cleared.
Waiting  == cmd_buf_full /\ pc = "idle" /\ line = <<>> /\ rx = <<>> /\ due = <<cmd_buf>>
Running  ==
  /\ cmd_buf_full /\ pc # "idle" /\ line = <<>> /\ rx = <<>> /\ due = <<>> /\ ~notified
  /\ pc = "release" => cmd_buf = <<>>

Paced == paced => Typing \/ Ended \/ Waiting \/ Running

CInv == Types /\ Flag /\ Paced

(***************************************************************************)
(* Characters.                                                             *)
(***************************************************************************)

LEMMA EditType ==
  ASSUME NEW s \in Line, NEW c \in Chars \ {"NL"}
  PROVE  Edit(s, c) \in Line
  BY ShorterFacts, AppendFacts DEF Edit, Line

\* The handler edits the buffer, and the end of the line leaves it.
LEMMA EditedIs ==
  ASSUME NEW c \in Chars
  PROVE  /\ c # "NL" => Edited(c) = Edit(cmd_buf, c)
         /\ c = "NL" => Edited(c) = cmd_buf
  BY ConsoleAssumption DEF Edited, Edit, Shorter

\* What the operator means is the same.
LEMMA TypedIs ==
  ASSUME NEW c \in Chars
  PROVE  /\ c # "NL" => Typed(c) = Edit(line, c)
         /\ c = "NL" => Typed(c) = <<>>
  <1>0. c \in Printable \cup {"BS", "DEL", "NL"} /\ Printable \cap {"BS", "DEL", "NL"} = {}
    BY ConsoleAssumption DEF Chars
  <1>1. CASE c = "BS"
    BY <1>0, <1>1 DEF Typed, Edit
  <1>2. CASE c = "DEL"
    <2>1. CASE line = <<>>
      BY <1>2, <2>1 DEF Typed, Edit
    <2>2. CASE line # <<>>
      BY <1>2, <2>2 DEF Typed, Edit
    <2> QED
      BY <2>1, <2>2
  <1>3. CASE c = "NL"
    BY <1>0, <1>3 DEF Typed, Edit
  <1>4. CASE c \in Printable
    <2>1. c \notin {"BS", "DEL", "NL"}
      BY <1>0, <1>4
    <2> QED
      BY <1>4, <2>1 DEF Typed, Edit
  <1> QED
    BY <1>0, <1>1, <1>2, <1>3, <1>4

\* One more character to read.
LEMMA ReadingMore ==
  ASSUME Types, NEW c \in Chars \ {"NL"}, NEW w, NEW s, Reading(w, cmd_buf, rx, Len(rx), s),
         rx' = Append(rx, c), cmd_buf' = cmd_buf
  PROVE  \E v : Reading(v, cmd_buf', rx', Len(rx'), Edit(s, c))
  <1> DEFINE n == Len(rx)
             v == [i \in 0 .. n + 1 |-> IF i = n + 1 THEN Edit(s, c) ELSE w[i]]
  <1>1. /\ n \in Nat /\ Len(rx') = n + 1 /\ rx'[n + 1] = c
        /\ \A i \in 1 .. n : rx'[i] = rx[i]
    BY AppendFacts DEF Types
  <1>2. /\ w \in [0 .. n -> Line] /\ w[0] = cmd_buf /\ w[n] = s
        /\ \A i \in 1 .. n : rx[i] # "NL" /\ w[i] = Edit(w[i - 1], rx[i])
    BY DEF Reading
  <1> HIDE DEF n
  <1>3. /\ s \in Line /\ Edit(s, c) \in Line
    BY <1>1, <1>2, EditType
  <1>4. v \in [0 .. n + 1 -> Line]
    BY <1>1, <1>2, <1>3
  <1>5. v[0] = cmd_buf' /\ v[n + 1] = Edit(s, c)
    BY <1>1, <1>2
  <1>6. ASSUME NEW i \in 1 .. n + 1
        PROVE  rx'[i] # "NL" /\ v[i] = Edit(v[i - 1], rx'[i])
    <2>1. CASE i = n + 1
      <3>1. i - 1 = n /\ v[n] = s /\ v[i] = Edit(s, c)
        BY <1>1, <1>2, <2>1
      <3> QED
        BY <1>1, <2>1, <3>1
    <2>2. CASE i # n + 1
      <3>1. i \in 1 .. n /\ v[i] = w[i] /\ v[i - 1] = w[i - 1]
        BY <1>1, <2>2
      <3> QED
        BY <1>1, <1>2, <3>1
    <2> QED
      BY <2>1, <2>2
  <1> HIDE DEF v
  <1> QED
    BY <1>1, <1>4, <1>5, <1>6 DEF Reading

\* One character has been read.
LEMMA ReadingLess ==
  ASSUME Types, NEW w, NEW n \in Nat \ {0}, n =< Len(rx), NEW s, Reading(w, cmd_buf, rx, n, s),
         rx' = Tail(rx), cmd_buf' = Edited(Head(rx))
  PROVE  /\ Head(rx) # "NL"
         /\ \E v : Reading(v, cmd_buf', rx', n - 1, s)
  <1> DEFINE v == [i \in 0 .. n - 1 |-> w[i + 1]]
  <1>1. rx # <<>> /\ rx \in Seq(Chars) /\ Len(rx) \in Nat
    BY DEF Types
  <1>2. /\ Head(rx) \in Chars /\ Head(rx) = rx[1]
        /\ \A i \in 1 .. n - 1 : rx'[i] = rx[i + 1]
    BY <1>1, TailFacts
  <1>3. /\ w \in [0 .. n -> Line] /\ w[0] = cmd_buf /\ w[n] = s
        /\ \A i \in 1 .. n : rx[i] # "NL" /\ w[i] = Edit(w[i - 1], rx[i])
    BY DEF Reading
  <1>4. v \in [0 .. n - 1 -> Line]
    BY <1>3
  <1>5. 1 \in 1 .. n /\ 0 \in 0 .. n - 1 /\ n - 1 \in 0 .. n - 1 /\ (n - 1) + 1 = n /\ 1 - 1 = 0
    OBVIOUS
  <1>6. rx[1] # "NL" /\ w[1] = Edit(w[0], rx[1])
    BY <1>3, <1>5
  <1>7. cmd_buf' = w[1]
    BY <1>2, <1>3, <1>6, EditedIs
  <1>8. v[0] = cmd_buf' /\ v[n - 1] = s
    BY <1>3, <1>5, <1>7
  <1>9. ASSUME NEW i \in 1 .. n - 1
        PROVE  rx'[i] # "NL" /\ v[i] = Edit(v[i - 1], rx'[i])
    <2>1. /\ i + 1 \in 1 .. n /\ (i + 1) - 1 = i /\ v[i] = w[i + 1] /\ v[i - 1] = w[i]
      OBVIOUS
    <2> QED
      BY <1>2, <1>3, <2>1
  <1> HIDE DEF v
  <1> QED
    BY <1>2, <1>4, <1>6, <1>8, <1>9 DEF Reading

(***************************************************************************)
(* Every step.                                                             *)
(***************************************************************************)

LEMMA CInit == Init => CInv
  <1> SUFFICES ASSUME Init PROVE CInv
    OBVIOUS
  <1>1. Types /\ Flag
    <2>1. <<>> \in Seq(Chars) /\ <<>> \in Line /\ <<>> \in Seq(Line)
      BY DEF Line
    <2> QED
      BY <2>1 DEF Init, Types, Flag
  <1>2. Typing
    <2> DEFINE w == [i \in 0 .. 0 |-> <<>>]
    <2>1. Len(rx) = 0 /\ <<>> \in Line
      BY DEF Init, Line
    <2>2. w \in [0 .. 0 -> Line] /\ w[0] = <<>>
      BY <2>1
    <2> HIDE DEF w
    <2>3. Reading(w, cmd_buf, rx, Len(rx), line)
      BY <2>1, <2>2 DEF Reading, Init
    <2> QED
      BY <2>3 DEF Typing, Init
  <1> QED
    BY <1>1, <1>2 DEF CInv, Paced

LEMMA TypesStep == CInv /\ [Next]_vars => Types' /\ Flag'
  <1> SUFFICES ASSUME Types, Flag, [Next]_vars PROVE Types' /\ Flag'
    BY DEF CInv
  <1> USE DEF Types, Flag
  <1>1. ASSUME NEW c \in Chars, Send(c) PROVE Types' /\ Flag'
    <2>1. rx' \in Seq(Chars)
      BY <1>1, AppendFacts DEF Send
    <2>2. line' \in Line
      <3>1. <<>> \in Line
        BY DEF Line
      <3>2. c # "NL" => Edit(line, c) \in Line
        BY EditType
      <3> QED
        BY <1>1, <3>1, <3>2, TypedIs DEF Send
    <2>3. due' \in Seq(Line)
      BY <1>1, AppendFacts DEF Send
    <2> QED
      BY <1>1, <2>1, <2>2, <2>3 DEF Send
  <1>2. CASE core_read_usb
    <2>1. rx' \in Seq(Chars) /\ UNCHANGED <<pc, paced, sent, line, due>>
      BY <1>2, TailFacts DEF core_read_usb
    <2>2. cmd_buf' \in {cmd_buf, <<>>} \/ \E c \in Chars : cmd_buf' = Edited(c)
      BY <1>2, TailFacts DEF core_read_usb, ReadChar, EchoGivenUp
    <2>3. cmd_buf' \in Line
      <3>1. <<>> \in Line
        BY DEF Line
      <3> QED
        BY <2>2, <3>1, EditedIs, EditType
    <2>4. /\ notified' \in BOOLEAN /\ cmd_buf_full' \in BOOLEAN
          /\ cmd_buf_full => cmd_buf_full'
      <3>1. CASE \E c \in Chars : ReadChar(c)
        <4>1. /\ notified' = FALSE \/ notified' = notified
              /\ cmd_buf_full' = cmd_buf_full \/ (~cmd_buf_full /\ cmd_buf_full' \in BOOLEAN)
          BY <3>1 DEF ReadChar
        <4>2. notified' \in BOOLEAN
          BY <4>1
        <4>3. cmd_buf_full' \in BOOLEAN /\ (cmd_buf_full => cmd_buf_full')
          BY <4>1
        <4> QED
          BY <4>2, <4>3
      <3>2. CASE notified' = FALSE /\ UNCHANGED cmd_buf_full
        BY <3>2
      <3>3. CASE \E c \in Chars : EchoGivenUp(c)
        BY <3>3 DEF EchoGivenUp
      <3> QED
        BY <1>2, <3>1, <3>2, <3>3, TailFacts DEF core_read_usb
    <2> QED
      BY <2>1, <2>3, <2>4
  <1>3. CASE core_usb_enable
    BY <1>3 DEF core_usb_enable, Line
  <1>4. CASE RunCommand
    <2>1. CASE StartCommand
      <3>1. due' \in Seq(Line)
        BY <2>1, TailFacts DEF StartCommand
      <3> QED
        BY <2>1, <3>1 DEF StartCommand, Main
    <2>2. CASE EndCommand
      BY <2>2 DEF EndCommand, Main
    <2>3. CASE ClearBuffer
      BY <2>3 DEF ClearBuffer, Main, Line
    <2>4. CASE Release
      BY <2>4 DEF Release, Main
    <2> QED
      BY <1>4, <2>1, <2>2, <2>3, <2>4 DEF RunCommand
  <1>5. CASE UNCHANGED vars
    BY <1>5 DEF vars
  <1> QED
    BY <1>1, <1>2, <1>3, <1>4, <1>5 DEF Next

\* The host sends: it goes on with its line, or begins one when all is done.
LEMMA SendPaced ==
  ASSUME Types, Paced, paced, NEW c \in Chars, Send(c)
  PROVE  Typing' \/ Ended'
  <1>1. /\ rx' = Append(rx, c) /\ notified' = TRUE /\ line' = Typed(c)
        /\ due' = (IF c = "NL" THEN Append(due, line) ELSE due)
        /\ UNCHANGED <<cmd_buf, cmd_buf_full, pc, paced>>
        /\ line = <<>> => Quiet
    BY DEF Send
  <1>2. Typing
    <2>1. ~Ended /\ ~Waiting /\ ~Running
      BY <1>1 DEF Ended, Waiting, Running, Quiet
    <2> QED
      BY <2>1 DEF Paced
  <1>3. PICK w : Reading(w, cmd_buf, rx, Len(rx), line)
    BY <1>2 DEF Typing
  <1>4. rx \in Seq(Chars) /\ Len(rx) \in Nat /\ rx' \in Seq(Chars) /\ Len(rx') = Len(rx) + 1
        /\ rx'[Len(rx) + 1] = c /\ \A i \in 1 .. Len(rx) : rx'[i] = rx[i]
    BY <1>1, AppendFacts DEF Types
  <1>5. CASE c # "NL"
    <2>1. \E v : Reading(v, cmd_buf', rx', Len(rx'), Edit(line, c))
      BY <1>1, <1>3, <1>5, ReadingMore
    <2>2. Typed(c) = Edit(line, c)
      BY <1>5, TypedIs
    <2> QED
      BY <1>1, <1>2, <1>5, <2>1, <2>2 DEF Typing
  <1>6. CASE c = "NL"
    <2>1. due' = <<line>> /\ line' = <<>> /\ line \in Line
      BY <1>1, <1>2, <1>6, TypedIs DEF Typing, Types
    <2>2. rx' # <<>> /\ rx'[Len(rx')] = "NL"
      BY <1>4, <1>6
    <2>3. Reading(w, cmd_buf', rx', Len(rx') - 1, line)
      <3>1. Len(rx') - 1 = Len(rx)
        BY <1>4
      <3> QED
        BY <1>1, <1>3, <1>4, <3>1 DEF Reading
    <2> QED
      BY <1>1, <1>2, <2>1, <2>2, <2>3 DEF Typing, Ended
  <1> QED
    BY <1>5, <1>6

\* A character is read: it is one of the line, or ends it.
LEMMA ReadPaced ==
  ASSUME Types, Paced, paced, core_read_usb
  PROVE  Paced'
  <1>1. /\ UNCHANGED <<pc, paced, line, due>> /\ rx \in Seq(Chars) /\ Len(rx) \in Nat
        /\ rx # <<>> => Len(rx) \in Nat \ {0}
    BY DEF core_read_usb, Types
  <1>2. CASE Typing /\ rx # <<>>
    <2>1. /\ ReadChar(Head(rx)) /\ rx' = Tail(rx) /\ Head(rx) \in Chars
          /\ Len(rx') = Len(rx) - 1
      BY <1>1, <1>2, TailFacts DEF core_read_usb, EchoGivenUp
    <2>2. /\ cmd_buf' = Edited(Head(rx)) /\ cmd_buf_full' = (Head(rx) = "NL")
          /\ notified' = notified /\ notified
      BY <1>2, <2>1 DEF ReadChar, Typing, core_read_usb
    <2>3. PICK w : Reading(w, cmd_buf, rx, Len(rx), line)
      BY <1>2 DEF Typing
    <2>4. Head(rx) # "NL" /\ \E v : Reading(v, cmd_buf', rx', Len(rx) - 1, line)
      BY <1>1, <1>2, <2>1, <2>2, <2>3, ReadingLess
    <2> QED
      BY <1>1, <1>2, <2>1, <2>2, <2>4 DEF Typing, Paced
  <1>3. CASE Ended /\ Len(rx) # 1
    <2>1. /\ ReadChar(Head(rx)) /\ rx' = Tail(rx) /\ Head(rx) \in Chars
          /\ Len(rx) \in Nat \ {0} /\ Len(rx') = Len(rx) - 1
          /\ \A i \in 1 .. Len(rx) - 1 : rx'[i] = rx[i + 1]
      BY <1>1, <1>3, TailFacts DEF core_read_usb, EchoGivenUp, Ended
    <2>2. /\ cmd_buf' = Edited(Head(rx)) /\ cmd_buf_full' = (Head(rx) = "NL")
          /\ notified' = notified /\ notified
      BY <1>3, <2>1 DEF ReadChar, Ended, core_read_usb
    <2>3. PICK s \in Line : due = <<s>> /\ \E w : Reading(w, cmd_buf, rx, Len(rx) - 1, s)
      BY <1>3 DEF Ended
    <2>4. Len(rx) - 1 \in Nat \ {0} /\ Len(rx) - 1 =< Len(rx) /\ (Len(rx) - 1) - 1 = Len(rx') - 1
      BY <1>3, <2>1
    <2>5. Head(rx) # "NL" /\ \E v : Reading(v, cmd_buf', rx', (Len(rx) - 1) - 1, s)
      BY <2>1, <2>2, <2>3, <2>4, ReadingLess
    <2>6. rx' # <<>> /\ rx'[Len(rx')] = "NL"
      <3>1. Len(rx') # 0 /\ rx'[Len(rx')] = rx[Len(rx)]
        BY <2>1, <2>4
      <3> QED
        BY <1>3, <3>1 DEF Ended
    <2>7. \E v : Reading(v, cmd_buf', rx', Len(rx') - 1, s)
      BY <2>4, <2>5
    <2>8. Ended'
      BY <1>1, <1>3, <2>2, <2>3, <2>5, <2>6, <2>7 DEF Ended
    <2> QED
      BY <2>8 DEF Paced
  <1>4. CASE Ended /\ Len(rx) = 1
    <2>1. /\ ReadChar(Head(rx)) /\ rx' = Tail(rx) /\ Head(rx) = "NL" /\ rx' = <<>>
      <3>1. rx # <<>> /\ ReadChar(Head(rx)) /\ rx' = Tail(rx) /\ Head(rx) = rx[1]
        BY <1>1, <1>4, TailFacts DEF core_read_usb, EchoGivenUp, Ended
      <3>2. Len(Tail(rx)) = 0 /\ Tail(rx) \in Seq(Chars)
        BY <1>1, <1>4, <3>1, TailFacts
      <3> QED
        BY <1>4, <3>1, <3>2, EmptySeq DEF Ended
    <2>2. "NL" \in Chars
      BY DEF Chars
    <2>3. cmd_buf' = cmd_buf /\ cmd_buf_full'
      BY <1>4, <2>1, <2>2, EditedIs DEF ReadChar, Ended
    <2>4. due = <<cmd_buf>>
      <3>1. PICK s \in Line : due = <<s>> /\ \E w : Reading(w, cmd_buf, rx, 0, s)
        BY <1>4 DEF Ended
      <3>2. s = cmd_buf
        BY <3>1 DEF Reading
      <3> QED
        BY <3>1, <3>2
    <2> QED
      BY <1>1, <1>4, <2>1, <2>3, <2>4 DEF Ended, Waiting, Paced
  <1>5. CASE rx = <<>>
    <2>1. notified' = FALSE /\ UNCHANGED <<rx, cmd_buf, cmd_buf_full>>
      BY <1>5 DEF core_read_usb
    <2> QED
      BY <1>1, <1>5, <2>1 DEF Paced, Typing, Ended, Waiting, Running
  <1> QED
    BY <1>2, <1>3, <1>4, <1>5 DEF Paced, Waiting, Running, Ended

LEMMA PacedStep ==
  ASSUME CInv, [Next]_vars
  PROVE  Paced'
  <1>0. Types /\ Flag /\ Paced
    BY DEF CInv
  <1>1. CASE \E c \in Chars : Send(c)
    <2>1. paced' = paced
      BY <1>1 DEF Send
    <2> QED
      BY <1>0, <1>1, <2>1, SendPaced DEF Paced
  <1>2. CASE core_read_usb
    <2>1. paced' = paced
      BY <1>2 DEF core_read_usb
    <2> QED
      BY <1>0, <1>2, <2>1, ReadPaced DEF Paced
  <1>3. CASE core_usb_enable
    <2>1. paced' => Quiet /\ Typing
      BY <1>0, <1>3 DEF core_usb_enable, Paced, Ended, Waiting, Running, Quiet
    <2>2. cmd_buf' = <<>> /\ line' = <<>> /\ UNCHANGED <<rx, notified, cmd_buf_full, pc, paced, due>>
      BY <1>3 DEF core_usb_enable
    <2>3. ASSUME Quiet PROVE \E w : Reading(w, <<>>, rx, Len(rx), <<>>)
      <3> DEFINE w == [i \in 0 .. 0 |-> <<>>]
      <3>1. Len(rx) = 0 /\ <<>> \in Line
        BY <2>3 DEF Quiet, Line
      <3>2. w \in [0 .. 0 -> Line] /\ w[0] = <<>>
        BY <3>1
      <3> HIDE DEF w
      <3>3. Reading(w, <<>>, rx, Len(rx), <<>>)
        BY <3>1, <3>2 DEF Reading
      <3> QED
        BY <3>3
    <2>4. paced' => Typing'
      BY <2>1, <2>2, <2>3 DEF Typing
    <2> QED
      BY <2>4 DEF Paced
  <1>4. CASE StartCommand
    <2>1. /\ pc = "idle" /\ pc' = "running" /\ cmd_buf_full /\ ~notified
          /\ due' = (IF due = <<>> THEN due ELSE Tail(due))
          /\ UNCHANGED <<rx, notified, cmd_buf, cmd_buf_full, paced, line>>
      BY <1>4 DEF StartCommand, Main
    <2>2. paced' => Running'
      BY <1>0, <2>1 DEF Paced, Typing, Ended, Waiting, Running
    <2> QED
      BY <2>2 DEF Paced
  <1>5. CASE EndCommand \/ ClearBuffer
    <2>1. /\ pc # "idle" /\ pc' \in {"clear", "release"} /\ (pc' = "release" => cmd_buf' = <<>>)
          /\ UNCHANGED <<rx, notified, cmd_buf_full, paced, line, due>>
      BY <1>5 DEF EndCommand, ClearBuffer, Main
    <2>2. paced' => Running'
      BY <1>0, <2>1 DEF Paced, Typing, Ended, Waiting, Running
    <2> QED
      BY <2>2 DEF Paced
  <1>6. CASE Release
    <2>1. /\ pc = "release" /\ pc' = "idle" /\ cmd_buf_full' = FALSE
          /\ UNCHANGED <<rx, notified, cmd_buf, paced, line, due>>
      BY <1>6 DEF Release, Main
    <2>2. paced => cmd_buf = <<>> /\ line = <<>> /\ rx = <<>> /\ due = <<>>
      BY <1>0, <2>1 DEF Paced, Typing, Ended, Waiting, Running
    <2>3. ASSUME paced PROVE \E w : Reading(w, cmd_buf, rx, Len(rx), line)
      <3> DEFINE w == [i \in 0 .. 0 |-> <<>>]
      <3>1. Len(rx) = 0 /\ <<>> \in Line
        BY <2>2, <2>3 DEF Line
      <3>2. w \in [0 .. 0 -> Line] /\ w[0] = <<>>
        BY <3>1
      <3> HIDE DEF w
      <3>3. Reading(w, cmd_buf, rx, Len(rx), line)
        BY <2>2, <2>3, <3>1, <3>2 DEF Reading
      <3> QED
        BY <3>3
    <2>4. paced' => Typing'
      BY <2>1, <2>2, <2>3 DEF Typing
    <2> QED
      BY <2>4 DEF Paced
  <1>7. CASE UNCHANGED vars
    BY <1>0, <1>7 DEF vars, Paced, Typing, Ended, Waiting, Running
  <1> QED
    BY <1>1, <1>2, <1>3, <1>4, <1>5, <1>6, <1>7 DEF Next, RunCommand

LEMMA CInvAlways == Spec => []CInv
  <1>1. CInv /\ [Next]_vars => CInv'
    BY TypesStep, PacedStep DEF CInv
  <1> QED
    BY <1>1, CInit, PTL DEF Spec

(***************************************************************************)
(* What the run checks, for every instance.                                *)
(***************************************************************************)

\* With a host that waits for a command to be done, what runcmd finds in the
\* buffer is the line the host has ended, as it meant it, however the reading
\* of characters and the main loop are interleaved.
THEOREM LinesRunAsSent == Spec => RanAsSent
  <1> DEFINE Step == paced /\ StartCommand => due # <<>> /\ cmd_buf = Head(due)
  <1>1. CInv => Step
    <2> SUFFICES ASSUME CInv, paced, StartCommand PROVE due # <<>> /\ cmd_buf = Head(due)
      OBVIOUS
    <2>1. Waiting
      BY DEF CInv, Paced, Typing, Ended, Running, StartCommand, Main
    <2>2. due = <<cmd_buf>>
      BY <2>1 DEF Waiting
    <2> QED
      BY <2>2
  <1>2. CInv /\ [Next]_vars => [Step]_vars
    BY <1>1
  <1> QED
    BY <1>2, CInvAlways, PTL DEF Spec, RanAsSent

\* No character, however fast the host sends, changes the words that a command
\* uses: the flag is set until the buffer has been cleared.
THEOREM WordsAlwaysStay == Spec => WordsStay
  <1> DEFINE Step == pc = "running" /\ cmd_buf' # cmd_buf => core_usb_enable
  <1>1. CInv /\ [Next]_vars => [Step]_vars
    <2> SUFFICES ASSUME CInv, [Next]_vars, pc = "running", cmd_buf' # cmd_buf
                 PROVE  core_usb_enable
      OBVIOUS
    <2>1. cmd_buf_full
      BY DEF CInv, Flag
    <2> QED
      BY <2>1
      DEF Next, Send, core_read_usb, ReadChar, EchoGivenUp, RunCommand, StartCommand, EndCommand,
          ClearBuffer, Release, Main, vars
  <1> QED
    BY <1>1, CInvAlways, PTL DEF Spec, WordsStay
=============================================================================
