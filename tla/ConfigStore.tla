------------------------------- MODULE ConfigStore -------------------------------
(***************************************************************************)
(* The configuration in memory and on the card (fs_read_config and         *)
(* fs_write_config in firmware/src/wemo_fs.c, config set, calibrate and    *)
(* the erase button in monitor.c).                                         *)
(*                                                                         *)
(* The text fields are arrays of LEN characters, one behind the other,     *)
(* with no place for a final zero when one is full; a number stands for    *)
(* the fields that are kept as numbers and written in decimal.  Behind the *)
(* last one, which is nilm_ip_addr, memory is taken to be zero: in the     *)
(* code ip_addr lies there, an address given at run time.  The file        *)
(* has one line per field, in a fixed order, and is overwritten from its   *)
(* beginning and never truncated.                                          *)
(*                                                                         *)
(* The file is shorter than a sector of the card, and FatFs gathers what   *)
(* is written to a file in the sector buffer of its FIL.  So the card      *)
(* changes in f_close only: first the sector, then the directory entry     *)
(* with the new length.  A file that is missing reads as an empty one.     *)
(***************************************************************************)
EXTENDS Integers, Sequences, SequencesExt

CONSTANTS
  TEXTS,                   \* number of text fields
  Erased,                  \* those that the button erases
  LEN,                     \* MAX_CONFIG_LEN
  BUF,                     \* length of buf in both functions (50)
  Chars,                   \* characters of the values that are set
  Times                    \* numbers that are set

MaxInt == 2147483647

ASSUME ConfigAssumption ==
  /\ TEXTS \in Nat \ {0} /\ Erased \subseteq 1 .. TEXTS
  /\ LEN \in Nat \ {0} /\ BUF \in Nat \ {0}
  /\ Chars \subseteq 32 .. 126       \* what can be typed
  /\ Times \subseteq 0 .. MaxInt

NUL    == 0
NL     == 10
Tag(i) == 255 + i                    \* "wifi_ssid: " and its like, as one character
Lines  == TEXTS + 1
Cell   == 1 .. TEXTS * LEN
Blank  == [text |-> [c \in Cell |-> NUL], num |-> 0]

VARIABLES
  config_pc, back,         \* next statement, and where fs_write_config returns to
  config,                  \* wemo_config: [text, num]
  image,                   \* sector buffer of the open file
  file,                    \* the file on the card
  saved,                   \* history: the configuration last written to the sector
  cut                      \* history: it made the file longer, the entry was not written

card       == <<file, saved, cut>>
configVars == <<config_pc, back, config, image, card>>

ConfigInit ==
  /\ config_pc = "boot" /\ back = "button"
  /\ config = Blank
  /\ image = <<>> /\ file = <<>>
  /\ saved = Blank /\ cut = FALSE

-----------------------------------------------------------------------------
(* Characters and arrays *)

\* The longest beginning of s with characters of C only.
Leading(s, C) ==
  LET stop == SelectInSeq(s, LAMBDA c : c \notin C)
  IN  IF stop = 0 THEN s ELSE SubSeq(s, 1, stop - 1)

\* printf's %d, for a number that is not negative.
Decimal(n) ==
  LET dec[k \in 0 .. n] ==
        IF k < 10 THEN <<48 + k>> ELSE Append(dec[k \div 10], 48 + (k % 10))
  IN  dec[n]

\* The value of the digits that s begins with.
atoi(s) ==
  LET value[k \in 0 .. Len(s)] == IF k = 0 THEN 0 ELSE 10 * value[k - 1] + (s[k] - 48)
  IN  value[Len(Leading(s, 48 .. 57))]

\* The string that begins at field i of t: it ends at the first zero, which a
\* full field does not have.  Behind the last field there is one.
Str(t, i) == Leading(SubSeq(t, (i - 1) * LEN + 1, TEXTS * LEN), Nat \ {NUL})

\* memcpy of s to the beginning of field i of t.
Copy(t, i, s) ==
  [c \in Cell |-> LET k == c - (i - 1) * LEN IN IF k \in 1 .. Len(s) THEN s[k] ELSE t[c]]

\* memset of field i of t.
Erase(t, i) == Copy(t, i, [k \in 1 .. LEN |-> NUL])

\* memset of every field that the button erases.
Wiped(t) ==
  [c \in Cell |-> IF \E i \in Erased : c - (i - 1) * LEN \in 1 .. LEN THEN NUL ELSE t[c]]

-----------------------------------------------------------------------------
(* Reading *)

\* f_gets at position p of f: up to the end of the line, BUF - 1 characters
\* or the end of the file.
Gets(f, p) ==
  LET rest == SubSeq(f, p, Len(f))
  IN  SubSeq(rest, 1, Min({Len(Leading(rest, Nat \ {NL})) + 1, Len(rest), BUF - 1}))

\* The line read in turn i of the loop.
Line(f, i) ==
  LET at[k \in 1 .. i] == IF k = 1 THEN 1 ELSE at[k - 1] + Len(Gets(f, at[k - 1]))
  IN  Gets(f, at[i])

Found(f, i) == LET s == Line(f, i) IN s # <<>> /\ s[1] = Tag(i)

\* What stands between the tag and the last character, which the code takes
\* to be the end of the line.
Value(f, i) == LET s == Line(f, i) IN SubSeq(s, 2, Len(s) - 1)

\* The length of the copy is negative, that is, far too large: the line ends
\* with its tag.
Overruns(f) == \E i \in 1 .. Lines : Found(f, i) /\ Len(Line(f, i)) = 1

\* What the loop makes of blank memory, and the conversion behind it.
Read(f) ==
  LET text[i \in 0 .. TEXTS] ==
        IF i = 0 THEN Blank.text
        ELSE IF Found(f, i) THEN Copy(text[i - 1], i, Value(f, i)) ELSE text[i - 1]
  IN  [text |-> text[TEXTS], num |-> IF Found(f, Lines) THEN atoi(Value(f, Lines)) ELSE 0]

\* Any error of f_open replaces the configuration by an empty one.
fs_read_config ==
  /\ config_pc = "boot" /\ back' = "button"
  /\ \/ config_pc' = "save" /\ config' = Blank
     \/ IF Overruns(file) THEN config_pc' = "lost" /\ UNCHANGED config
                          ELSE config_pc' = "button" /\ config' = Read(file)
  /\ UNCHANGED <<image, card>>

-----------------------------------------------------------------------------
(* Writing *)

\* Mutant of Record: the end of the line is written only behind a value.
RecordBare(m, i) ==
  LET value == IF i = Lines THEN Decimal(m.num) ELSE Str(m.text, i)
  IN  <<Tag(i)>> \o value \o (IF Len(value) = 0 THEN <<>> ELSE <<NL>>)

\* The sprintf of line i of the configuration m.
Record(m, i) ==
  <<Tag(i)>> \o (IF i = Lines THEN Decimal(m.num) ELSE Str(m.text, i)) \o <<NL>>

Image(m) == FlattenSeq([i \in 1 .. Lines |-> Record(m, i)])

\* f_open may fail, and then nothing is saved.  A line that is too long for
\* buf overwrites what lies behind it.
fs_write_config ==
  /\ config_pc = "save"
  /\ \/ config_pc' = back /\ UNCHANGED image
     \/ IF \E i \in 1 .. Lines : Len(Record(config, i)) >= BUF
          THEN config_pc' = "lost" /\ UNCHANGED image
          ELSE config_pc' = "close" /\ image' = Image(config)
  /\ UNCHANGED <<back, config, card>>

\* Mutant of WriteSector: the file was opened at its end, as the log is.
WriteSectorAtEnd ==
  /\ config_pc = "close" /\ config_pc' = "entry"
  /\ image' = file \o image /\ UNCHANGED file
  /\ saved' = config /\ cut' = TRUE
  /\ UNCHANGED <<back, config>>

\* f_close writes the sector: the image over the beginning of the old file.
WriteSector ==
  /\ config_pc = "close" /\ config_pc' = "entry"
  /\ file' = [k \in 1 .. Len(file) |-> IF k <= Len(image) THEN image[k] ELSE file[k]]
  /\ saved' = config
  /\ cut' = (Len(image) > Len(file))
  /\ UNCHANGED <<back, config, image>>

\* f_close writes the directory entry: the file gets the rest of the image.
WriteEntry ==
  /\ config_pc = "entry" /\ config_pc' = back
  /\ file' = file \o SubSeq(image, Len(file) + 1, Len(image))
  /\ cut' = FALSE /\ image' = <<>>
  /\ UNCHANGED <<back, config, saved>>

\* One of the two fails; f_close's result is ignored.
CloseFails ==
  /\ config_pc \in {"close", "entry"} /\ config_pc' = back
  /\ image' = <<>>
  /\ UNCHANGED <<back, config, card>>

-----------------------------------------------------------------------------
(* Who changes the configuration *)

\* monitor() looks at the button once and erases the network and the NILM; the
\* serial number, standalone and mgr_url stay.
Button ==
  /\ config_pc = "button" /\ back' = "run"
  /\ \/ config_pc' = "run" /\ UNCHANGED config
     \/ /\ config_pc' = "save"
        /\ config' = [config EXCEPT !.text = Wiped(@)]
  /\ UNCHANGED <<image, card>>

\* config set: a value that is too long is refused.
ConfigSet(i, s) ==
  /\ config_pc = "run" /\ Len(s) <= LEN
  /\ config_pc' = "save"
  /\ config' = [config EXCEPT !.text = Copy(Erase(@, i), i, s)]
  /\ UNCHANGED <<back, image, card>>

\* mon_calibrate saves what it has set.
Calibrate(n) ==
  /\ config_pc = "run" /\ config_pc' = "save"
  /\ config' = [config EXCEPT !.num = n]
  /\ UNCHANGED <<back, image, card>>

\* Power fails, or the plug is restarted, at any step.
Restart ==
  /\ config_pc' = "boot" /\ back' = "button"
  /\ config' = Blank /\ image' = <<>>
  /\ UNCHANGED card

ConfigNext ==
  \/ fs_read_config
  \/ fs_write_config \/ WriteSector \/ WriteEntry \/ CloseFails
  \/ Button
  \/ \E i \in 1 .. TEXTS, s \in BoundedSeq(Chars, LEN + 1) : ConfigSet(i, s)
  \/ \E n \in Times : Calibrate(n)
  \/ Restart

ConfigSpec == ConfigInit /\ [][ConfigNext]_configVars
-----------------------------------------------------------------------------
(* Properties *)

\* What a restart would read is what was written last, in every state, also
\* in the middle of the next save: although the file is overwritten in place
\* and keeps the end of longer ones, and although a full field runs on into
\* the next.  The exception is a save that made the file longer and was cut
\* short between its last two writes.
ReadsBack == ~cut => ~Overruns(file) /\ Read(file) = saved

\* The numbers that the leading digits of n stand for, and none of them.
Leads(n) ==
  {0} \cup {n \div p : p \in {1, 10, 100, 1000, 10000, 100000, 1000000, 10000000,
                             100000000, 1000000000}}

\* And then each field is read as it was written, or it has lost its end: no
\* field ever holds a mixture of two values, and a number is one of its own
\* leading parts.  (Or the file ends behind a tag, and the plug does not start.)
CutKeepsBeginning ==
  cut /\ ~Overruns(file) =>
    /\ \A c \in Cell : Read(file).text[c] \in {saved.text[c], NUL}
    /\ Read(file).num \in Leads(saved.num)
=============================================================================
