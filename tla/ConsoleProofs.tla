--------------------------- MODULE ConsoleProofs ---------------------------
(***************************************************************************)
(* Theorems about Console, for every size of the ring, of the screen, of   *)
(* the line and of argv: what is on the screen is the line that is going   *)
(* to be executed (EchoExact), the line is split into its words            *)
(* (ArgvExact), and the console implements Typewriter.                     *)
(*                                                                         *)
(* parse() and the fold over scan codes are recursions of the library over *)
(* sets of positions: a function that obeys the recursion is built by      *)
(* induction on the number of positions, and what holds for a prefix is    *)
(* carried from character to character.                                    *)
(***************************************************************************)
EXTENDS Console, TLAPS, WellFoundedInduction, NaturalsInduction, FiniteSetTheorems, SequenceTheorems

Chars == {NO, "a", "d", "A", "D", "CtlA", "CtlD", "SP", "BS", "NL", "CR", "DOT", "DEL", "PROMPT"}
         \cup LineChars

LEMMA CharsAre ==
  /\ "SP" \in Chars /\ "PROMPT" \in Chars /\ "NL" \in Chars /\ "BS" \in Chars /\ NO \in Chars
BY DEF Chars, NO

(* The cells up to the cursor are the line; the cursor does not leave the  *)
(* screen, and the whole line fits on it above the cursor, so that neither *)
(* erasing stops at the top nor scrolling takes a character of it away.    *)
Shown(cells, pos, text) ==
    /\ Len(text) <= pos
    /\ \A k \in 1 .. Len(text) : cells[pos - Len(text) + k - 1] = text[k]

ScreenType(cells, pos) ==
    /\ cells \in [0 .. CRT_SIZE - 1 -> Chars]
    /\ pos \in 0 .. CRT_SIZE - 1

EInv ==
    /\ scenario \in Scenarios /\ com1 \in Chars
    /\ buf \in [0 .. CONSBUFSIZE - 1 -> Chars]
    /\ rpos \in 0 .. CONSBUFSIZE - 1 /\ wpos \in 0 .. CONSBUFSIZE - 1
    /\ ScreenType(crt_buf, crt_pos)
    /\ line \in Seq(Chars) /\ Len(line) < BUFLEN
    /\ mode \in {"serial", "kbd"} => Shown(crt_buf, crt_pos, line)

LEMMA ScreenSize ==
  /\ CRT_SIZE \in Nat /\ CRT_COLS \in Nat /\ 0 < CRT_COLS /\ BUFLEN \in Nat /\ 0 < BUFLEN
  /\ BUFLEN + CRT_COLS <= CRT_SIZE
BY ConsoleAssumption DEF CRT_SIZE

(* Scrolling, and the characters that are not control characters.          *)
Up(cells) == [k \in 0 .. CRT_SIZE - 1 |-> IF k < CRT_SIZE - CRT_COLS THEN cells[k + CRT_COLS] ELSE "SP"]

LEMMA Scrolled ==
  ASSUME NEW cells, NEW pos, ~(pos < CRT_SIZE)
  PROVE  Scroll([pos |-> pos, cells |-> cells]) = [pos |-> pos - CRT_COLS, cells |-> Up(cells)]
BY DEF Scroll, Up

LEMMA ScrollKeeps ==
  ASSUME NEW cells \in [0 .. CRT_SIZE - 1 -> Chars], NEW pos \in Nat, pos < CRT_SIZE + CRT_COLS
  PROVE  LET s == Scroll([pos |-> pos, cells |-> cells])
         IN  ScreenType(s.cells, s.pos)
<1>1. CASE pos < CRT_SIZE
  BY <1>1, ScreenSize DEF Scroll, ScreenType
<1>2. CASE ~(pos < CRT_SIZE)
  <2>1. Scroll([pos |-> pos, cells |-> cells]) = [pos |-> pos - CRT_COLS, cells |-> Up(cells)]
    BY <1>2, Scrolled
  <2>2. Up(cells) \in [0 .. CRT_SIZE - 1 -> Chars]
    <3>1. ASSUME NEW k \in 0 .. CRT_SIZE - 1 PROVE Up(cells)[k] \in Chars
      BY ScreenSize, CharsAre DEF Up
    <3> QED BY <3>1 DEF Up
  <2>3. pos - CRT_COLS \in 0 .. CRT_SIZE - 1
    BY <1>2, ScreenSize
  <2> QED BY <2>1, <2>2, <2>3 DEF ScreenType
<1> QED BY <1>1, <1>2

LEMMA PutType ==
  ASSUME NEW cells, NEW pos, ScreenType(cells, pos), NEW c \in Chars
  PROVE  LET s == cga_putc([pos |-> pos, cells |-> cells], c)
         IN  ScreenType(s.cells, s.pos)
<1> DEFINE old == [pos |-> pos, cells |-> cells]
<1>0. cells \in [0 .. CRT_SIZE - 1 -> Chars] /\ pos \in Nat /\ pos < CRT_SIZE
  BY ScreenSize DEF ScreenType
<1>1. CASE c = "BS"
  <2>1. CASE pos = 0
    BY <1>1, <2>1 DEF cga_putc
  <2>2. CASE pos # 0
    <3>1. cga_putc(old, c) = [pos |-> pos - 1, cells |-> [cells EXCEPT ![pos - 1] = "SP"]]
      BY <1>1, <2>2 DEF cga_putc
    <3>2. [cells EXCEPT ![pos - 1] = "SP"] \in [0 .. CRT_SIZE - 1 -> Chars] /\ pos - 1 \in 0 .. CRT_SIZE - 1
      BY <1>0, <2>2, CharsAre, ScreenSize
    <3>3. PICK more, up : more = [cells EXCEPT ![pos - 1] = "SP"] /\ up = pos - 1
      OBVIOUS
    <3>4. cga_putc(old, c) = [pos |-> up, cells |-> more]
      BY <3>1, <3>3
    <3>5. ScreenType(more, up)
      BY <3>2, <3>3 DEF ScreenType
    <3> QED BY <3>4, <3>5
  <2> QED BY <2>1, <2>2
<1>2. CASE c = "NL"
  <2> DEFINE q == pos + CRT_COLS - (pos % CRT_COLS)
  <2>1. cga_putc(old, c) = Scroll([pos |-> q, cells |-> cells])
    BY <1>2 DEF cga_putc
  <2>2. q \in Nat /\ q < CRT_SIZE + CRT_COLS
    <3>1. pos % CRT_COLS \in 0 .. CRT_COLS - 1
      BY <1>0, ScreenSize
    <3> QED BY <3>1, <1>0, ScreenSize
  <2> HIDE DEF q
  <2> QED BY <2>1, <2>2, <1>0, ScrollKeeps
<1>3. CASE c # "BS" /\ c # "NL"
  <2> DEFINE d == [cells EXCEPT ![pos] = c]
  <2>1. cga_putc(old, c) = Scroll([pos |-> pos + 1, cells |-> d])
    BY <1>3 DEF cga_putc
  <2>2. d \in [0 .. CRT_SIZE - 1 -> Chars] /\ pos + 1 \in Nat /\ pos + 1 < CRT_SIZE + CRT_COLS
    BY <1>0, ScreenSize
  <2> HIDE DEF d
  <2> QED BY <2>1, <2>2, ScrollKeeps
<1> QED BY <1>1, <1>2, <1>3

(* A character that is typed is seen behind the line.                      *)
LEMMA TypedIsShown ==
  ASSUME NEW cells, NEW pos, ScreenType(cells, pos), NEW c \in Chars, c # "BS", c # "NL",
         NEW text \in Seq(Chars), Len(text) < BUFLEN - 1, Shown(cells, pos, text)
  PROVE  LET s == cga_putc([pos |-> pos, cells |-> cells], c)
         IN  Shown(s.cells, s.pos, Append(text, c))
<1> DEFINE d == [cells EXCEPT ![pos] = c]
           more == Append(text, c)
           n == Len(text)
<1>0. /\ cells \in [0 .. CRT_SIZE - 1 -> Chars] /\ pos \in Nat /\ pos < CRT_SIZE
      /\ n \in Nat /\ n <= pos
  BY ScreenSize DEF ScreenType, Shown
<1>1. cga_putc([pos |-> pos, cells |-> cells], c) = Scroll([pos |-> pos + 1, cells |-> d])
  BY DEF cga_putc
<1>2. Len(more) = n + 1 /\ more[n + 1] = c /\ \A k \in 1 .. n : more[k] = text[k]
  BY AppendProperties
<1>3. /\ DOMAIN d = 0 .. CRT_SIZE - 1 /\ d[pos] = c
      /\ \A k \in 1 .. n : d[pos - n + k - 1] = text[k]
  <2>1. ASSUME NEW k \in 1 .. n PROVE d[pos - n + k - 1] = text[k]
    <3>0. pos - n + k - 1 \in Nat /\ pos - n + k - 1 < pos
      BY <1>0
    <3>1. PICK i \in Nat : i = pos - n + k - 1 /\ i < pos
      BY <3>0
    <3>2. d[i] = cells[i] /\ cells[i] = text[k]
      BY <3>1, <1>0, ScreenSize DEF Shown
    <3> QED BY <3>1, <3>2
  <2>2. DOMAIN d = 0 .. CRT_SIZE - 1 /\ d[pos] = c
    BY <1>0, ScreenSize
  <2> QED BY <2>1, <2>2
<1> HIDE DEF d, more, n
<1>4. ASSUME NEW k \in 1 .. n + 1 PROVE d[pos - n + k - 1] = more[k]
  <2>1. CASE k = n + 1
    BY <2>1, <1>0, <1>2, <1>3
  <2>2. CASE k # n + 1
    BY <2>2, <1>0, <1>2, <1>3
  <2> QED BY <2>1, <2>2
<1>5. CASE pos + 1 < CRT_SIZE
  <2>1. cga_putc([pos |-> pos, cells |-> cells], c) = [pos |-> pos + 1, cells |-> d]
    BY <1>1, <1>5 DEF Scroll
  <2>2. Shown(d, pos + 1, more)
    BY <1>0, <1>2, <1>4 DEF Shown
  <2> QED BY <2>1, <2>2 DEF more
<1>6. CASE ~(pos + 1 < CRT_SIZE)
  <2>1. PICK up \in Nat : up = pos + 1 - CRT_COLS /\ n + 1 <= up /\ up = CRT_SIZE - CRT_COLS
    <3>1. pos + 1 = CRT_SIZE /\ n + 1 < BUFLEN
      BY <1>0, <1>6, ScreenSize DEF n
    <3>2. /\ pos + 1 - CRT_COLS \in Nat /\ n + 1 <= pos + 1 - CRT_COLS
          /\ pos + 1 - CRT_COLS = CRT_SIZE - CRT_COLS
      BY <3>1, <1>0, ScreenSize
    <3> QED BY <3>2
  <2>2. cga_putc([pos |-> pos, cells |-> cells], c) = [pos |-> up, cells |-> Up(d)]
    <3>1. PICK q \in Nat : q = pos + 1
      BY <1>0
    <3>2. Scroll([pos |-> q, cells |-> d]) = [pos |-> q - CRT_COLS, cells |-> Up(d)]
      BY <3>1, <1>6, Scrolled
    <3>3. Scroll([pos |-> pos + 1, cells |-> d]) = [pos |-> q - CRT_COLS, cells |-> Up(d)]
      BY <3>1, <3>2
    <3>4. q - CRT_COLS = up
      BY <3>1, <2>1, <1>0, ScreenSize
    <3> QED BY <3>3, <3>4, <1>1
  <2>3. ASSUME NEW k \in 1 .. Len(more) PROVE Up(d)[up - Len(more) + k - 1] = more[k]
    <3>1. PICK i \in Nat : i = up - Len(more) + k - 1 /\ i < up /\ i + CRT_COLS = pos - n + k - 1
      <4>1. /\ up - Len(more) + k - 1 \in Nat /\ up - Len(more) + k - 1 < up
            /\ up - Len(more) + k - 1 + CRT_COLS = pos - n + k - 1
        BY <2>1, <1>0, <1>2, ScreenSize
      <4> QED BY <4>1
    <3>2. i \in 0 .. CRT_SIZE - 1 /\ i < CRT_SIZE - CRT_COLS
      <4>1. i < up /\ up = CRT_SIZE - CRT_COLS
        BY <3>1, <2>1
      <4> QED BY <4>1, ScreenSize
    <3>2a. Up(d)[i] = d[i + CRT_COLS]
      BY <3>2 DEF Up
    <3>3. d[i + CRT_COLS] = more[k]
      BY <3>1, <1>4, <1>2
    <3> QED BY <3>1, <3>2a, <3>3
  <2>5. Shown(Up(d), up, more)
    BY <2>1, <2>3, <1>2 DEF Shown
  <2> QED BY <2>2, <2>5 DEF more
<1> QED BY <1>5, <1>6, <1>0

LEMMA FrontOfLine ==
  ASSUME NEW text \in Seq(Chars), text # <<>>
  PROVE  Front(text) \in Seq(Chars) /\ Len(Front(text)) = Len(text) - 1
<1>0. Len(text) \in Nat /\ 1 <= Len(text)
  BY EmptySeq
<1>1. PICK e \in Nat : e = Len(text) - 1
  BY <1>0
<1>2. \A k \in 1 .. e : text[k] \in Chars
  BY <1>1, <1>0, ElementOfSeq
<1>3. SubSeq(text, 1, e) \in Seq(Chars) /\ Len(SubSeq(text, 1, e)) = IF 1 <= e THEN e - 1 + 1 ELSE 0
  BY <1>2, SubSeqProperties
<1>4. SubSeq(text, 1, e) \in Seq(Chars) /\ Len(SubSeq(text, 1, e)) = e
  BY <1>3
<1> QED BY <1>1, <1>4 DEF Front

(* A character that is erased is gone from both.                           *)
LEMMA ErasedIsGone ==
  ASSUME NEW cells, NEW pos, ScreenType(cells, pos),
         NEW text \in Seq(Chars), text # <<>>, Shown(cells, pos, text)
  PROVE  LET s == cga_putc([pos |-> pos, cells |-> cells], "BS")
         IN  Shown(s.cells, s.pos, Front(text))
<1> DEFINE n == Len(text)
           d == [cells EXCEPT ![pos - 1] = "SP"]
<1>0. /\ cells \in [0 .. CRT_SIZE - 1 -> Chars] /\ pos \in Nat /\ pos < CRT_SIZE
      /\ n \in Nat /\ 1 <= n /\ n <= pos
  BY ScreenSize, EmptySeq DEF ScreenType, Shown
<1>1. cga_putc([pos |-> pos, cells |-> cells], "BS") = [pos |-> pos - 1, cells |-> d]
  BY <1>0 DEF cga_putc
<1>2. Len(Front(text)) = n - 1 /\ \A k \in 1 .. n - 1 : Front(text)[k] = text[k]
  <2>0. PICK e \in Nat : e = n - 1
    BY <1>0
  <2>1. \A k \in 1 .. e : text[k] \in Chars
    BY <2>0, <1>0, ElementOfSeq
  <2>2. Len(SubSeq(text, 1, e)) = IF 1 <= e THEN e - 1 + 1 ELSE 0
    BY <2>1, SubSeqProperties
  <2>3. \A k \in 1 .. e - 1 + 1 : SubSeq(text, 1, e)[k] = text[1 + k - 1]
    BY <2>1, SubSeqProperties
  <2>4. Len(SubSeq(text, 1, e)) = e /\ \A k \in 1 .. e : SubSeq(text, 1, e)[k] = text[k]
    BY <2>2, <2>3
  <2> QED BY <2>0, <2>4 DEF Front
<1>3. \A k \in 1 .. n - 1 : d[pos - 1 - (n - 1) + k - 1] = text[k]
  BY <1>0 DEF Shown
<1> HIDE DEF n, d
<1>4. Shown(d, pos - 1, Front(text))
  BY <1>0, <1>2, <1>3 DEF Shown
<1> QED BY <1>1, <1>4
-----------------------------------------------------------------------------
(* The invariant.                                                          *)

LEMMA KeysAreChars ==
  ASSUME NEW s, NEW data
  PROVE  kbd_proc_data(s, data).c \in Chars
<1>1. \A d : normalmap(d) \in Chars
  BY ZenonT(30) DEF normalmap, Chars, NO
<1>2. \A d : shiftmap(d) \in Chars
  BY <1>1, Zenon DEF shiftmap, Chars
<1>3. \A d : ctlmap(d) \in Chars
  BY Zenon DEF ctlmap, Chars, NO
<1>4. \A t, d : charcode(t, d) \in Chars
  BY <1>1, <1>2, <1>3 DEF charcode
<1>5. \A c \in Chars : SwapCase(c) \in Chars
  BY ZenonT(30) DEF SwapCase, Chars
<1>6. NO \in Chars
  BY CharsAre
<1> QED BY <1>4, <1>5, <1>6, ZenonT(30) DEF kbd_proc_data

LEMMA RingKeeps ==
  ASSUME EInv, NEW c \in Chars, cons_intr(c)
  PROVE  /\ buf' \in [0 .. CONSBUFSIZE - 1 -> Chars]
         /\ rpos' \in 0 .. CONSBUFSIZE - 1 /\ wpos' \in 0 .. CONSBUFSIZE - 1
<1>1. CASE c = NO
  BY <1>1 DEF EInv, cons_intr, cons
<1>2. CASE c # NO
  <2>1. (wpos + 1) % CONSBUFSIZE \in 0 .. CONSBUFSIZE - 1
    BY ConsoleAssumption DEF EInv
  <2> QED BY <2>1, <1>2 DEF EInv, cons_intr
<1> QED BY <1>1, <1>2

LEMMA InitEcho == Init => EInv
<1> SUFFICES ASSUME Init PROVE EInv
  OBVIOUS
<1>1. crt_pos \in 0 .. CRT_SIZE - 1
  BY ScreenSize DEF Init
<1>2. crt_buf \in [0 .. CRT_SIZE - 1 -> Chars]
  BY CharsAre DEF Init
<1>3. buf \in [0 .. CONSBUFSIZE - 1 -> Chars] /\ 0 \in 0 .. CONSBUFSIZE - 1
  BY CharsAre, ConsoleAssumption DEF Init
<1>4. line \in Seq(Chars) /\ Len(line) = 0 /\ mode \notin {"serial", "kbd"}
  BY DEF Init
<1> QED BY <1>1, <1>2, <1>3, <1>4, CharsAre, ScreenSize DEF Init, EInv, ScreenType

LEMMA EditKeeps ==
  ASSUME EInv, mode = "kbd", NEW c \in Chars, edit(c)
  PROVE  /\ ScreenType(crt_buf', crt_pos')
         /\ line' \in Seq(Chars) /\ Len(line') < BUFLEN
         /\ mode' \in {"serial", "kbd"} => Shown(crt_buf', crt_pos', line')
<1>1. /\ ScreenType(crt_buf, crt_pos) /\ line \in Seq(Chars) /\ Len(line) < BUFLEN
      /\ Shown(crt_buf, crt_pos, line)
  BY DEF EInv
<1>2. Len(line) \in Nat /\ BUFLEN \in Nat
  BY <1>1, LenProperties, ScreenSize
<1>3. CASE Erases(c) /\ cputchar("BS") /\ line' = Front(line) /\ mode' = "serial"
  <2>1. line # <<>>
    BY <1>3 DEF Erases
  <2>2. ScreenType(crt_buf', crt_pos')
    BY <1>3, <1>1, CharsAre, PutType DEF cputchar
  <2>3. Shown(crt_buf', crt_pos', line')
    BY <1>3, <1>1, <2>1, ErasedIsGone DEF cputchar
  <2>4. line' \in Seq(Chars) /\ Len(line') < BUFLEN
    BY <1>3, <1>1, <1>2, <2>1, FrontOfLine
  <2> QED BY <2>2, <2>3, <2>4
<1>4. CASE Inserts(c) /\ cputchar(c) /\ line' = Append(line, c) /\ mode' = "serial"
  <2>1. Len(line) < BUFLEN - 1 /\ c # "BS" /\ c # "NL"
    BY <1>4 DEF Inserts, Control
  <2>2. ScreenType(crt_buf', crt_pos')
    BY <1>4, <1>1, PutType DEF cputchar
  <2>3. Shown(crt_buf', crt_pos', line')
    BY <1>4, <1>1, <2>1, TypedIsShown DEF cputchar
  <2>4. line' \in Seq(Chars) /\ Len(line') = Len(line) + 1
    BY <1>4, <1>1, AppendProperties
  <2> QED BY <2>1, <2>2, <2>3, <2>4, <1>2
<1>5. CASE Ends(c) /\ cputchar("NL") /\ mode' = "run" /\ UNCHANGED line
  <2>1. ScreenType(crt_buf', crt_pos')
    BY <1>5, <1>1, CharsAre, PutType DEF cputchar
  <2> QED BY <2>1, <1>1, <1>5
<1>6. CASE mode' = "serial" /\ UNCHANGED <<line, screen>>
  BY <1>6, <1>1 DEF screen
<1> QED BY <1>3, <1>4, <1>5, <1>6 DEF edit

LEMMA NextEcho == EInv /\ [Next]_vars => EInv'
<1> SUFFICES ASSUME EInv, [Next]_vars PROVE EInv'
  OBVIOUS
<1>1. CASE User
  <2>1. Outside /\ com1' \in Chars
    <3>1. ASSUME NEW c \in scenario.line, Arrive(c) PROVE Outside /\ com1' \in Chars
      <4>1. c \in LineChars
        BY <3>1, ConsoleAssumption DEF EInv
      <4> QED BY <3>1, <4>1 DEF Arrive, Chars
    <3> QED BY <1>1, <3>1 DEF User, Strike, Release, Press, LetGo, EInv
  <2> QED BY <2>1 DEF Outside, EInv, cons, screen, ScreenType, Shown
<1>2. CASE serial_intr
  <2>1. /\ buf' \in [0 .. CONSBUFSIZE - 1 -> Chars]
        /\ rpos' \in 0 .. CONSBUFSIZE - 1 /\ wpos' \in 0 .. CONSBUFSIZE - 1
    BY <1>2, RingKeeps DEF serial_intr, EInv
  <2>2. com1' \in Chars /\ mode \in {"serial", "kbd"}
    BY <1>2, CharsAre DEF serial_intr
  <2> QED BY <1>2, <2>1, <2>2 DEF serial_intr, EInv, screen, ScreenType, Shown
<1>3. CASE kbd_intr
  <2>1. /\ buf' \in [0 .. CONSBUFSIZE - 1 -> Chars]
        /\ rpos' \in 0 .. CONSBUFSIZE - 1 /\ wpos' \in 0 .. CONSBUFSIZE - 1
    BY <1>3, KeysAreChars, RingKeeps DEF kbd_intr
  <2>2. mode \in {"serial", "kbd"}
    BY <1>3 DEF kbd_intr
  <2> QED BY <1>3, <2>1, <2>2 DEF kbd_intr, EInv, screen, ScreenType, Shown
<1>4. CASE Nothing
  BY <1>4 DEF Nothing, EInv, devices, cons, screen, ScreenType, Shown
<1>5. CASE readline
  <2>1. buf[rpos] \in Chars
    BY DEF EInv
  <2>2. /\ ScreenType(crt_buf', crt_pos')
        /\ line' \in Seq(Chars) /\ Len(line') < BUFLEN
        /\ mode' \in {"serial", "kbd"} => Shown(crt_buf', crt_pos', line')
    BY <1>5, <2>1, EditKeeps DEF readline
  <2>3. rpos' \in 0 .. CONSBUFSIZE - 1
    BY <1>5, ConsoleAssumption DEF readline, EInv
  <2> QED BY <1>5, <2>2, <2>3 DEF readline, EInv, devices
<1>6. CASE monitor
  <2>1. CASE mode' = "returned" /\ UNCHANGED <<screen, line>>
    BY <1>6, <2>1 DEF monitor, EInv, devices, cons, screen, ScreenType
  <2>2. CASE mode' = "serial" /\ line' = <<>> /\ cputchar("PROMPT")
    <3>1. ScreenType(crt_buf', crt_pos')
      BY <2>2, CharsAre, PutType DEF cputchar, EInv
    <3>2. line' \in Seq(Chars) /\ Len(line') = 0
      BY <2>2
    <3>3. Shown(crt_buf', crt_pos', line')
      BY <3>1, <3>2, ScreenSize DEF Shown, ScreenType
    <3> QED BY <1>6, <3>1, <3>2, <3>3, ScreenSize DEF monitor, EInv, devices, cons
  <2> QED BY <1>6, <2>1, <2>2 DEF monitor
<1>7. CASE UNCHANGED vars
  BY <1>7 DEF vars, EInv, devices, cons, screen, ScreenType, Shown
<1> QED BY <1>1, <1>2, <1>3, <1>4, <1>5, <1>6, <1>7 DEF Next, Kernel

(* Ring, screen and line stay within their bounds, and the cells before    *)
(* the cursor are the line, whatever is typed.                             *)
THEOREM ConsoleInvariant == Spec => []EInv
<1> QED BY InitEcho, NextEcho, PTL DEF Spec

(* What is seen is what is going to be executed.                           *)
THEOREM ScreenShowsTheLine == Spec => []EchoExact
<1>1. EInv => EchoExact
  BY DEF EInv, EchoExact, ScreenType, Shown
<1> QED BY <1>1, ConsoleInvariant, PTL
-----------------------------------------------------------------------------
(* Folding a function over a sequence.  The induction is that of the       *)
(* library in the form without an operator: a set of naturals has a least  *)
(* element (WFMin).                                                        *)

LEMMA Induction ==
  ASSUME NEW T, 0 \in T, \A n \in Nat : n \in T => n + 1 \in T
  PROVE  Nat \subseteq T
<1> DEFINE R == {q \in Nat \X Nat : q[1] < q[2]}
           U == Nat \ T
<1>1. IsWellFoundedOn(R, Nat)
  BY NatLessThanWellFounded DEF OpToRel
<1>2. SUFFICES ASSUME U # {} PROVE FALSE
  OBVIOUS
<1>3. PICK x \in U : \A y \in U : ~ (<<y, x>> \in R)
  BY <1>1, <1>2, WFMin
<1>4. x # 0 /\ x \in Nat
  OBVIOUS
<1>5. x - 1 \in Nat /\ x - 1 < x
  BY <1>4
<1>6. x - 1 \in T
  BY <1>3, <1>5
<1>7. x \in T
  BY <1>6, <1>5
<1> QED
  BY <1>7

(* The last of some positions.                                             *)
LEMMA LastOne ==
  ASSUME NEW n \in Nat, NEW s \in SUBSET (1 .. n), s # {}
  PROVE  Max(s) \in s /\ \A y \in s : y <= Max(s)
<1> DEFINE HasMax(m) == \A t \in SUBSET (1 .. m) : t # {} => \E x \in t : \A y \in t : x >= y
           T == {m \in Nat : HasMax(m)}
<1>1. 0 \in T
  <2>1. 1 .. 0 = {}
    OBVIOUS
  <2>2. HasMax(0)
    BY <2>1
  <2> QED BY <2>2
<1>2. ASSUME NEW m \in Nat, m \in T PROVE m + 1 \in T
  <2>1. ASSUME NEW t \in SUBSET (1 .. m + 1), t # {} PROVE \E x \in t : \A y \in t : x >= y
    <3>1. CASE m + 1 \in t
      BY <3>1
    <3>2. CASE m + 1 \notin t
      <4>1. t \in SUBSET (1 .. m)
        BY <3>2
      <4> QED BY <4>1, <2>1, <1>2
    <3> QED BY <3>1, <3>2
  <2> QED BY <2>1
<1>3. Nat \subseteq T
  <2> HIDE DEF T
  <2> QED BY <1>1, <1>2, Induction
<1>4. \E x \in s : \A y \in s : x >= y
  BY <1>3
<1>5. Max(s) \in s /\ \A y \in s : Max(s) >= y
  BY <1>4, Zenon DEF Max
<1> QED BY <1>5

LEMMA WithoutLast ==
  ASSUME NEW n \in Nat, NEW s \in SUBSET (1 .. n + 1), s # {}
  PROVE  Max(s) \in 1 .. n + 1 /\ s \ {Max(s)} \in SUBSET (1 .. n)
<1>1. n + 1 \in Nat
  OBVIOUS
<1>2. Max(s) \in s /\ \A y \in s : y <= Max(s)
  BY <1>1, LastOne
<1>3. PICK x \in 1 .. n + 1 : x = Max(s)
  BY <1>2
<1>4. ASSUME NEW y \in s \ {x} PROVE y \in 1 .. n
  <2>1. y \in 1 .. n + 1 /\ y <= x /\ y # x
    BY <1>2, <1>3
  <2> QED BY <2>1
<1> QED BY <1>3, <1>4

(* There is a function as MapThenFoldSet chooses it: st is one step of the *)
(* fold, v the sequence.                                                   *)
Folds1(g, st, base, v, n) ==
    \A s \in SUBSET (1 .. n) : g[s] = IF s = {} THEN base ELSE st[<<g[s \ {Max(s)}], v[Max(s)]>>]

LEMMA FoldExists ==
  ASSUME NEW D, NEW C, NEW st \in [D \X C -> D], NEW base \in D, NEW v \in Seq(C)
  PROVE  \E g \in [SUBSET (1 .. Len(v)) -> D] : Folds1(g, st, base, v, Len(v))
<1> DEFINE Exists(n) == n <= Len(v) => \E g \in [SUBSET (1 .. n) -> D] : Folds1(g, st, base, v, n)
           T == {n \in Nat : Exists(n)}
<1>0. Len(v) \in Nat /\ \A i \in 1 .. Len(v) : v[i] \in C
  BY ElementOfSeq, LenProperties
<1>1. 0 \in T
  <2> DEFINE g == [s \in SUBSET (1 .. 0) |-> base]
  <2>1. g \in [SUBSET (1 .. 0) -> D] /\ Folds1(g, st, base, v, 0)
    BY DEF Folds1
  <2> QED BY <2>1
<1>2. ASSUME NEW n \in Nat, Exists(n), n + 1 <= Len(v)
      PROVE  \E g \in [SUBSET (1 .. n + 1) -> D] : Folds1(g, st, base, v, n + 1)
  <2>0. n <= Len(v)
    BY <1>0, <1>2
  <2>1. PICK g \in [SUBSET (1 .. n) -> D] : Folds1(g, st, base, v, n)
    BY <1>2, <2>0
  <2> DEFINE h == [s \in SUBSET (1 .. n + 1) |->
                      IF s = {} THEN base ELSE st[<<g[s \ {Max(s)}], v[Max(s)]>>]]
  <2>2. ASSUME NEW s \in SUBSET (1 .. n + 1), s # {}
        PROVE  s \ {Max(s)} \in SUBSET (1 .. n) /\ v[Max(s)] \in C
    <3>1. Max(s) \in 1 .. n + 1 /\ s \ {Max(s)} \in SUBSET (1 .. n)
      BY <2>2, WithoutLast
    <3>2. PICK x \in 1 .. n + 1 : x = Max(s)
      BY <3>1
    <3>3. x \in 1 .. Len(v)
      BY <1>0, <1>2
    <3> QED BY <3>1, <3>2, <3>3, <1>0
  <2>3. h \in [SUBSET (1 .. n + 1) -> D]
    <3>1. ASSUME NEW s \in SUBSET (1 .. n + 1) PROVE h[s] \in D
      <4>1. CASE s = {}
        BY <4>1
      <4>2. CASE s # {}
        <5>1. g[s \ {Max(s)}] \in D
          BY <4>2, <2>2, <2>1
        <5> QED BY <5>1, <4>2, <2>2
      <4> QED BY <4>1, <4>2
    <3> QED BY <3>1
  <2>4. ASSUME NEW s \in SUBSET (1 .. n) PROVE h[s] = g[s]
    <3>1. s \in SUBSET (1 .. n + 1)
      OBVIOUS
    <3> QED BY <3>1, <2>1 DEF Folds1
  <2>5. Folds1(h, st, base, v, n + 1)
    <3>1. ASSUME NEW s \in SUBSET (1 .. n + 1)
          PROVE  h[s] = IF s = {} THEN base ELSE st[<<h[s \ {Max(s)}], v[Max(s)]>>]
      <4>1. CASE s = {}
        BY <4>1
      <4>2. CASE s # {}
        <5>1. h[s \ {Max(s)}] = g[s \ {Max(s)}]
          BY <4>2, <2>2, <2>4
        <5> QED BY <5>1, <4>2
      <4> QED BY <4>1, <4>2
    <3> HIDE DEF h
    <3> QED BY <3>1 DEF Folds1
  <2> HIDE DEF h
  <2> QED BY <2>3, <2>5
<1>3. Nat \subseteq T
  <2>0. \A n \in Nat : Exists(n) /\ n + 1 <= Len(v) => Exists(n + 1)
    BY <1>2
  <2>1. \A n \in Nat : Exists(n) => Exists(n + 1)
    BY <2>0
  <2> HIDE DEF Exists
  <2>2. \A n \in Nat : n \in T => n + 1 \in T
    BY <2>1
  <2> HIDE DEF T
  <2> QED BY <1>1, <2>2, Induction
<1>4. Exists(Len(v))
  <2> HIDE DEF Exists
  <2> QED BY <1>0, <1>3
<1>5. Len(v) <= Len(v)
  BY <1>0
<1> QED BY <1>4, <1>5, Zenon

(* The values on the prefixes.                                             *)
LEMMA LastOfPrefix ==
  ASSUME NEW k \in Nat, k # 0
  PROVE  1 .. k # {} /\ Max(1 .. k) = k /\ (1 .. k) \ {Max(1 .. k)} = 1 .. k - 1
<1>2. k \in 1 .. k
  OBVIOUS
<1>1. Max(1 .. k) \in 1 .. k /\ \A y \in 1 .. k : y <= Max(1 .. k)
  <2>1. PICK s : s = 1 .. k
    OBVIOUS
  <2>2. s \in SUBSET (1 .. k) /\ s # {}
    BY <2>1, <1>2
  <2>3. Max(s) \in s /\ \A y \in s : y <= Max(s)
    BY <2>2, LastOne
  <2> QED BY <2>1, <2>3
<1>3. Max(1 .. k) = k
  BY <1>1, <1>2
<1>4. (1 .. k) \ {k} = 1 .. k - 1
  OBVIOUS
<1> QED BY <1>2, <1>3, <1>4

-----------------------------------------------------------------------------
(* The words of a line.                                                    *)

Start == [argv |-> <<>>, inside |-> FALSE, many |-> FALSE]

Parsed == {a \in [argv : Seq(Seq(Chars)), inside : BOOLEAN, many : BOOLEAN] :
              a.inside => a.argv # <<>>}

LEMMA ScanParsed ==
  ASSUME NEW a \in Parsed, NEW c \in Chars
  PROVE  scan(a, c) \in Parsed
<1>1. /\ a = [argv |-> a.argv, inside |-> a.inside, many |-> a.many]
      /\ a.argv \in Seq(Seq(Chars)) /\ a.inside \in BOOLEAN /\ a.many \in BOOLEAN
      /\ a.inside => a.argv # <<>>
  BY DEF Parsed
<1>2. CASE a.many
  BY <1>2 DEF scan
<1>3. CASE ~a.many /\ c \in WHITESPACE
  <2>1. scan(a, c) = [argv |-> a.argv, inside |-> FALSE, many |-> a.many]
    BY <1>1, <1>3 DEF scan
  <2> QED BY <2>1, <1>1 DEF Parsed
<1>4. CASE ~a.many /\ c \notin WHITESPACE /\ a.inside
  <2> DEFINE n == Len(a.argv)
             more == [a.argv EXCEPT ![n] = Append(a.argv[n], c)]
  <2>1. scan(a, c) = [argv |-> more, inside |-> a.inside, many |-> a.many]
    BY <1>1, <1>4 DEF scan
  <2>2. n \in 1 .. Len(a.argv)
    BY <1>1, <1>4, EmptySeq, LenProperties
  <2>3. Append(a.argv[n], c) \in Seq(Chars)
    BY <2>2, <1>1, ElementOfSeq, AppendProperties
  <2>4. more \in Seq(Seq(Chars)) /\ Len(more) = n
    BY <2>2, <2>3, <1>1, ExceptSeq
  <2>5. more # <<>>
    BY <2>2, <2>4
  <2> HIDE DEF more
  <2> QED BY <2>1, <2>4, <2>5, <1>1 DEF Parsed
<1>5. CASE ~a.many /\ c \notin WHITESPACE /\ ~a.inside /\ Len(a.argv) = MAXARGS - 1
  <2>1. scan(a, c) = [argv |-> a.argv, inside |-> a.inside, many |-> TRUE]
    BY <1>1, <1>5 DEF scan
  <2> QED BY <2>1, <1>1 DEF Parsed
<1>6. CASE ~a.many /\ c \notin WHITESPACE /\ ~a.inside /\ Len(a.argv) # MAXARGS - 1
  <2>1. scan(a, c) = [argv |-> Append(a.argv, <<c>>), inside |-> TRUE, many |-> a.many]
    BY <1>1, <1>6 DEF scan
  <2>2. <<c>> \in Seq(Chars)
    OBVIOUS
  <2>3. Append(a.argv, <<c>>) \in Seq(Seq(Chars)) /\ Append(a.argv, <<c>>) # <<>>
    <3>1. /\ Append(a.argv, <<c>>) \in Seq(Seq(Chars)) /\ Append(a.argv, <<c>>) # <<>>
      <4>1. PICK w \in Seq(Chars), r \in Seq(Seq(Chars)) : w = <<c>> /\ r = a.argv
        BY <2>2, <1>1
      <4>2. Append(r, w) \in Seq(Seq(Chars)) /\ Append(r, w) # <<>>
        BY AppendProperties
      <4> QED BY <4>1, <4>2
    <3> QED BY <3>1
  <2> QED BY <2>1, <2>3, <1>1 DEF Parsed
<1> QED BY <1>2, <1>3, <1>4, <1>5, <1>6

(* parse() goes over the line from left to right: f[k] is what it knows of *)
(* the first k characters.                                                 *)
Scans(f, text) ==
    /\ f \in [0 .. Len(text) -> Parsed] /\ f[0] = Start
    /\ \A k \in 1 .. Len(text) : f[k] = scan(f[k - 1], text[k])

ScanRecursion(g, text) ==
    g = [s \in SUBSET DOMAIN text |->
            IF s = {} THEN Start ELSE scan(g[s \ {Max(s)}], text[Max(s)])]

LEMMA ParseDef ==
  ASSUME NEW text
  PROVE  parse(text) = (CHOOSE g : ScanRecursion(g, text))[DOMAIN text]
BY DEF parse, FoldLeft, MapThenFoldSet, ScanRecursion, Start

LEMMA ParseScans ==
  ASSUME NEW text \in Seq(Chars)
  PROVE  \E f : Scans(f, text) /\ parse(text) = f[Len(text)]
<1> DEFINE n == Len(text)
           st == [p \in Parsed \X Chars |-> scan(p[1], p[2])]
           g == CHOOSE g : ScanRecursion(g, text)
           f == [k \in 0 .. n |-> g[1 .. k]]
<1>0. n \in Nat /\ DOMAIN text = 1 .. n /\ \A i \in 1 .. n : text[i] \in Chars
  BY ElementOfSeq, LenProperties
<1>1. Start \in Parsed
  BY DEF Start, Parsed
<1>2. ScanRecursion(g, text)
  <2>1. st \in [Parsed \X Chars -> Parsed]
    BY ScanParsed
  <2>2. PICK h \in [SUBSET (1 .. n) -> Parsed] : Folds1(h, st, Start, text, n)
    <3> HIDE DEF st
    <3> QED BY <1>1, <2>1, FoldExists
  <2>3. ASSUME NEW s \in SUBSET (1 .. n)
        PROVE  h[s] = IF s = {} THEN Start ELSE scan(h[s \ {Max(s)}], text[Max(s)])
    <3>1. CASE s = {}
      BY <3>1, <2>2 DEF Folds1
    <3>2. CASE s # {}
      <4>1. Max(s) \in 1 .. n /\ s \ {Max(s)} \in SUBSET (1 .. n)
        BY <3>2, <1>0, LastOne
      <4>2. <<h[s \ {Max(s)}], text[Max(s)]>> \in Parsed \X Chars
        BY <4>1, <2>2, <1>0
      <4>3. h[s] = st[<<h[s \ {Max(s)}], text[Max(s)]>>]
        BY <3>2, <2>2 DEF Folds1
      <4> QED BY <4>2, <4>3, <3>2
    <3> QED BY <3>1, <3>2
  <2>4. ScanRecursion(h, text)
    BY <2>2, <2>3, <1>0, Zenon DEF ScanRecursion
  <2> QED BY <2>4, Zenon
<1>3. parse(text) = g[1 .. n]
  BY <1>0, ParseDef
<1> HIDE DEF g
<1>4. \A s \in SUBSET (1 .. n) : g[s] = IF s = {} THEN Start ELSE scan(g[s \ {Max(s)}], text[Max(s)])
  BY <1>2, <1>0, Zenon DEF ScanRecursion
<1>5. f[0] = Start
  <2>1. 1 .. 0 = {} /\ 0 \in 0 .. n
    BY <1>0
  <2>2. g[{}] = Start
    BY <1>4
  <2> QED BY <2>1, <2>2
<1>6. ASSUME NEW k \in 1 .. n PROVE f[k] = scan(f[k - 1], text[k])
  <2>1. 1 .. k # {} /\ Max(1 .. k) = k /\ (1 .. k) \ {Max(1 .. k)} = 1 .. k - 1
    <3>1. k \in Nat /\ k # 0
      BY <1>0
    <3> QED BY <3>1, LastOfPrefix, Zenon
  <2>2. 1 .. k \in SUBSET (1 .. n)
    BY <1>0
  <2>3. g[1 .. k] = scan(g[1 .. k - 1], text[k])
    BY <2>1, <2>2, <1>4
  <2>4. f[k] = g[1 .. k] /\ f[k - 1] = g[1 .. k - 1]
    BY <1>0
  <2> QED BY <2>3, <2>4
<1>7. f \in [0 .. n -> Parsed]
  <2> DEFINE T == {k \in Nat : k <= n => f[k] \in Parsed}
  <2> HIDE DEF f
  <2>1. 0 \in T
    BY <1>1, <1>5
  <2>2. ASSUME NEW k \in Nat, k \in T PROVE k + 1 \in T
    <3>1. SUFFICES ASSUME k + 1 <= n PROVE f[k + 1] \in Parsed
      OBVIOUS
    <3>2. f[k] \in Parsed /\ text[k + 1] \in Chars /\ k + 1 \in 1 .. n
      BY <2>2, <3>1, <1>0
    <3>3. f[k + 1] = scan(f[k], text[k + 1])
      BY <3>2, <1>6
    <3> QED BY <3>2, <3>3, ScanParsed
  <2>3. Nat \subseteq T
    <3> HIDE DEF T
    <3> QED BY <2>1, <2>2, Induction
  <2>4. \A k \in 0 .. n : f[k] \in Parsed
    BY <2>3, <1>0
  <2> QED BY <2>4 DEF f
<1>8. parse(text) = f[n]
  BY <1>3, <1>0
<1> HIDE DEF f
<1> QED BY <1>5, <1>6, <1>7, <1>8 DEF Scans

(* The number of words that begin at or before character k.                *)
Rank(text, k) == Cardinality({j \in WordStarts(text) : j <= k})

(* The word that begins at i, as far as the first k characters show it: it *)
(* is open while its end has not been seen.                                *)
Word(w, text, i, k, open) ==
    /\ \A m \in 1 .. Len(w) : w[m] = text[i + m - 1] /\ w[m] \notin WHITESPACE
    /\ open  => i + Len(w) = k + 1
    /\ ~open => i + Len(w) <= k /\ text[i + Len(w)] \in WHITESPACE

Words(argv, text, k, inside) ==
    /\ Len(argv) = Rank(text, k)
    /\ \A i \in WordStarts(text) :
          i <= k => Word(argv[Rank(text, i)], text, i, k, inside /\ Rank(text, i) = Rank(text, k))

Known(argv, inside, many, text, k) ==
    /\ many <=> MAXARGS <= Rank(text, k)
    /\ ~many => /\ inside <=> (k # 0 /\ text[k] \notin WHITESPACE)
                /\ Words(argv, text, k, inside)

Progress(a, text, k) == Known(a.argv, a.inside, a.many, text, k)

LEMMA RankNat ==
  ASSUME NEW text \in Seq(Chars)
  PROVE  /\ \A k \in Nat : Rank(text, k) \in Nat /\ IsFiniteSet({j \in WordStarts(text) : j <= k})
         /\ Rank(text, 0) = 0
         /\ \A i, k \in Nat : i <= k => Rank(text, i) <= Rank(text, k)
         /\ \A i \in WordStarts(text) : i \in 1 .. Len(text) /\ 1 <= Rank(text, i)
<1>0. Len(text) \in Nat
  BY LenProperties
<1>1. IsFiniteSet(WordStarts(text))
  <2>1. IsFiniteSet(1 .. Len(text)) /\ WordStarts(text) \subseteq 1 .. Len(text)
    BY <1>0, FS_Interval DEF WordStarts
  <2> QED BY <2>1, FS_Subset
<1>2. ASSUME NEW k \in Nat
      PROVE  Rank(text, k) \in Nat /\ IsFiniteSet({j \in WordStarts(text) : j <= k})
  <2>1. IsFiniteSet({j \in WordStarts(text) : j <= k})
    BY <1>1, FS_Subset
  <2> QED BY <2>1, FS_CardinalityType DEF Rank
<1>3. Rank(text, 0) = 0
  <2>1. {j \in WordStarts(text) : j <= 0} = {}
    BY <1>0 DEF WordStarts
  <2> QED BY <2>1, FS_EmptySet DEF Rank
<1>4. ASSUME NEW i \in Nat, NEW k \in Nat, i <= k PROVE Rank(text, i) <= Rank(text, k)
  <2>1. WordStarts(text) \subseteq Nat
    BY <1>0 DEF WordStarts
  <2>2. {j \in WordStarts(text) : j <= i} \subseteq {j \in WordStarts(text) : j <= k}
    BY <1>4, <2>1
  <2> QED BY <2>2, <1>2, FS_Subset DEF Rank
<1>5. ASSUME NEW i \in WordStarts(text) PROVE i \in 1 .. Len(text) /\ 1 <= Rank(text, i)
  <2>1. i \in 1 .. Len(text) /\ i \in Nat
    BY <1>0 DEF WordStarts
  <2>2. i \in {j \in WordStarts(text) : j <= i}
    BY <2>1
  <2>3. {j \in WordStarts(text) : j <= i} # {} /\ IsFiniteSet({j \in WordStarts(text) : j <= i})
    BY <2>1, <2>2, <1>2
  <2>4. Rank(text, i) # 0
    BY <2>3, FS_EmptySet DEF Rank
  <2>5. Rank(text, i) \in Nat
    BY <1>2, <2>1
  <2> QED BY <2>1, <2>4, <2>5
<1> QED BY <1>2, <1>3, <1>4, <1>5

LEMMA RankStep ==
  ASSUME NEW text \in Seq(Chars), NEW k \in Nat
  PROVE  Rank(text, k + 1) = IF k + 1 \in WordStarts(text) THEN Rank(text, k) + 1 ELSE Rank(text, k)
<1> DEFINE S == {j \in WordStarts(text) : j <= k}
           T == {j \in WordStarts(text) : j <= k + 1}
<1>0. \A j \in WordStarts(text) : j \in Nat
  BY LenProperties DEF WordStarts
<1>1. IsFiniteSet(S)
  BY RankNat
<1>2. CASE k + 1 \in WordStarts(text)
  <2>1. T = S \cup {k + 1} /\ k + 1 \notin S
    BY <1>0, <1>2
  <2>2. Cardinality(S \cup {k + 1}) = Cardinality(S) + 1
    BY <2>1, <1>1, FS_AddElement
  <2> QED BY <2>1, <2>2, <1>2 DEF Rank
<1>3. CASE k + 1 \notin WordStarts(text)
  <2>1. T = S
    BY <1>0, <1>3
  <2> QED BY <2>1, <1>3 DEF Rank
<1> QED BY <1>2, <1>3

(* A word ends.                                                            *)
LEMMA WordEnds ==
  ASSUME NEW text \in Seq(Chars), NEW k \in Nat, k < Len(text), text[k + 1] \in WHITESPACE,
         NEW argv \in Seq(Seq(Chars)), NEW inside \in BOOLEAN, Words(argv, text, k, inside)
  PROVE  Words(argv, text, k + 1, FALSE) /\ Rank(text, k + 1) = Rank(text, k)
<1>1. k + 1 \notin WordStarts(text)
  BY DEF WordStarts
<1>2. Rank(text, k + 1) = Rank(text, k)
  BY <1>1, RankStep
<1>3. ASSUME NEW i \in WordStarts(text), i <= k + 1
      PROVE  Word(argv[Rank(text, i)], text, i, k + 1, FALSE)
  <2>0. i \in Nat /\ i # k + 1 /\ i <= k /\ Rank(text, i) \in 1 .. Len(argv)
    <3>1. i \in Nat /\ i # k + 1 /\ i <= k
      BY <1>1, <1>3, RankNat, LenProperties
    <3>2. 1 <= Rank(text, i) /\ Rank(text, i) <= Rank(text, k) /\ Rank(text, i) \in Nat
          /\ Rank(text, k) \in Nat
      BY <3>1, RankNat
    <3> QED BY <3>1, <3>2 DEF Words
  <2>1. PICK w \in Seq(Chars) : w = argv[Rank(text, i)]
    BY <2>0, ElementOfSeq
  <2>2. PICK open \in BOOLEAN : open = (inside /\ Rank(text, i) = Rank(text, k))
    OBVIOUS
  <2>3. Word(w, text, i, k, open) /\ Len(w) \in Nat
    BY <2>0, <2>1, <2>2, LenProperties DEF Words
  <2>4. Word(w, text, i, k + 1, FALSE)
    BY <2>0, <2>3 DEF Word
  <2> QED BY <2>1, <2>4
<1>4. \A i \in WordStarts(text) : i <= k + 1 =>
         Word(argv[Rank(text, i)], text, i, k + 1, FALSE /\ Rank(text, i) = Rank(text, k + 1))
  BY <1>3, Zenon
<1>5. Len(argv) = Rank(text, k + 1)
  BY <1>2 DEF Words
<1> QED BY <1>2, <1>4, <1>5 DEF Words

(* A word goes on.                                                         *)
LEMMA WordGoesOn ==
  ASSUME NEW text \in Seq(Chars), NEW k \in Nat, k < Len(text), text[k + 1] \notin WHITESPACE,
         k # 0, text[k] \notin WHITESPACE,
         NEW argv \in Seq(Seq(Chars)), argv # <<>>, Words(argv, text, k, TRUE)
  PROVE  LET n == Len(argv)
         IN  /\ Words([argv EXCEPT ![n] = Append(argv[n], text[k + 1])], text, k + 1, TRUE)
             /\ Rank(text, k + 1) = Rank(text, k)
<1> DEFINE n == Len(argv)
           c == text[k + 1]
           more == [argv EXCEPT ![n] = Append(argv[n], c)]
<1>1. k + 1 \notin WordStarts(text)
  BY DEF WordStarts
<1>2. Rank(text, k + 1) = Rank(text, k) /\ n = Rank(text, k) /\ n \in 1 .. Len(argv)
  <2>1. Rank(text, k + 1) = Rank(text, k) /\ n = Rank(text, k)
    BY <1>1, RankStep DEF Words
  <2>2. n \in Nat /\ n # 0
    BY EmptySeq, LenProperties
  <2> QED BY <2>1, <2>2
<1>3. c \in Chars /\ argv[n] \in Seq(Chars)
  <2>1. k + 1 \in 1 .. Len(text)
    BY LenProperties
  <2> QED BY <2>1, <1>2, ElementOfSeq
<1>4. Append(argv[n], c) \in Seq(Chars)
  BY <1>3, AppendProperties
<1>5. /\ Len(more) = n
      /\ \A j \in 1 .. Len(argv) : more[j] = IF j = n THEN Append(argv[n], c) ELSE argv[j]
  BY <1>2, <1>4, ExceptSeq
<1>6. ASSUME NEW i \in WordStarts(text), i <= k + 1
      PROVE  Word(more[Rank(text, i)], text, i, k + 1, Rank(text, i) = n)
  <2>0. i \in Nat /\ i # k + 1 /\ i <= k /\ Rank(text, i) \in 1 .. Len(argv)
    <3>1. i \in Nat /\ i # k + 1 /\ i <= k
      BY <1>1, <1>6, RankNat, LenProperties
    <3>2. 1 <= Rank(text, i) /\ Rank(text, i) <= Rank(text, k) /\ Rank(text, i) \in Nat
          /\ Rank(text, k) \in Nat
      BY <3>1, RankNat
    <3> QED BY <3>1, <3>2, <1>2
  <2>1. PICK w \in Seq(Chars) : w = argv[Rank(text, i)]
    BY <2>0, ElementOfSeq
  <2>2. Word(w, text, i, k, TRUE /\ Rank(text, i) = n) /\ Len(w) \in Nat
    BY <2>0, <2>1, <1>2, LenProperties DEF Words
  <2>3. CASE Rank(text, i) = n
    <3>1. more[Rank(text, i)] = Append(w, c)
      BY <2>3, <2>0, <2>1, <1>5
    <3>2. /\ Len(Append(w, c)) = Len(w) + 1 /\ Append(w, c)[Len(w) + 1] = c
          /\ \A m \in 1 .. Len(w) : Append(w, c)[m] = w[m]
      BY <1>3, AppendProperties
    <3>3. i + Len(w) = k + 1 /\ \A m \in 1 .. Len(w) : w[m] = text[i + m - 1] /\ w[m] \notin WHITESPACE
      BY <2>2, <2>3 DEF Word
    <3> HIDE DEF c
    <3>4. PICK v : v = Append(w, c)
      OBVIOUS
    <3>5. ASSUME NEW m \in 1 .. Len(v) PROVE v[m] = text[i + m - 1] /\ v[m] \notin WHITESPACE
      <4>1. CASE m = Len(w) + 1
        <5>1. i + m - 1 = k + 1 /\ v[m] = c
          BY <4>1, <3>2, <3>3, <3>4, <2>0, <2>2
        <5> QED BY <5>1 DEF c
      <4>2. CASE m # Len(w) + 1
        <5>1. m \in 1 .. Len(w)
          BY <4>2, <3>2, <3>4, <2>2
        <5> QED BY <5>1, <3>2, <3>3, <3>4
      <4> QED BY <4>1, <4>2
    <3>6. i + Len(v) = k + 1 + 1
      <4>1. Len(v) = Len(w) + 1
        BY <3>2, <3>4
      <4> QED BY <4>1, <3>3, <2>2, <2>0, SMTT(30)
    <3>7. Word(v, text, i, k + 1, TRUE)
      BY <3>5, <3>6 DEF Word
    <3> QED BY <3>1, <3>4, <3>7, <2>3
  <2>4. CASE Rank(text, i) # n
    <3>1. more[Rank(text, i)] = w
      BY <2>4, <2>0, <2>1, <1>5
    <3>2. Word(w, text, i, k, FALSE)
      BY <2>2, <2>4
    <3>3. Word(w, text, i, k + 1, FALSE)
      BY <3>2, <2>0, <2>2 DEF Word
    <3> QED BY <3>1, <3>3, <2>4
  <2> QED BY <2>3, <2>4
<1> HIDE DEF more, n
<1>7. Words(more, text, k + 1, TRUE)
  BY <1>2, <1>5, <1>6 DEF Words
<1> QED BY <1>2, <1>7 DEF more, n

(* A word begins.                                                          *)
LEMMA WordBegins ==
  ASSUME NEW text \in Seq(Chars), NEW k \in Nat, k < Len(text), text[k + 1] \notin WHITESPACE,
         k = 0 \/ text[k] \in WHITESPACE,
         NEW argv \in Seq(Seq(Chars)), Words(argv, text, k, FALSE)
  PROVE  /\ Words(Append(argv, <<text[k + 1]>>), text, k + 1, TRUE)
         /\ Rank(text, k + 1) = Rank(text, k) + 1
<1> DEFINE n == Len(argv)
           c == text[k + 1]
           more == Append(argv, <<c>>)
<1>1. k + 1 \in WordStarts(text)
  BY LenProperties DEF WordStarts
<1>2. Rank(text, k + 1) = n + 1 /\ n = Rank(text, k) /\ n \in Nat
  BY <1>1, RankStep, LenProperties DEF Words
<1>3. c \in Chars
  <2>1. k + 1 \in 1 .. Len(text)
    BY LenProperties
  <2> QED BY <2>1, ElementOfSeq
<1>4. PICK v \in Seq(Chars) : v = <<c>> /\ Len(v) = 1 /\ v[1] = c
  <2>1. <<c>> \in Seq(Chars) /\ Len(<<c>>) = 1 /\ <<c>>[1] = c
    BY <1>3
  <2> QED BY <2>1
<1>5. /\ Len(more) = n + 1 /\ more[n + 1] = v
      /\ \A j \in 1 .. n : more[j] = argv[j]
  <2>1. PICK r \in Seq(Seq(Chars)) : r = argv
    OBVIOUS
  <2>2. /\ Len(Append(r, v)) = Len(r) + 1 /\ Append(r, v)[Len(r) + 1] = v
        /\ \A j \in 1 .. Len(r) : Append(r, v)[j] = r[j]
    BY AppendProperties
  <2> QED BY <2>1, <2>2, <1>4
<1>6. ASSUME NEW i \in WordStarts(text), i <= k + 1
      PROVE  Word(more[Rank(text, i)], text, i, k + 1, Rank(text, i) = n + 1)
  <2>1. CASE i = k + 1
    <3>1. more[Rank(text, i)] = v /\ Rank(text, i) = n + 1
      BY <2>1, <1>2, <1>5
    <3>2. Word(v, text, i, k + 1, TRUE)
      BY <2>1, <1>4 DEF Word
    <3> QED BY <3>1, <3>2
  <2>2. CASE i # k + 1
    <3>0. i \in Nat /\ i <= k /\ Rank(text, i) \in 1 .. n
      <4>1. i \in Nat /\ i <= k
        BY <1>6, <2>2, RankNat, LenProperties
      <4>2. 1 <= Rank(text, i) /\ Rank(text, i) <= Rank(text, k) /\ Rank(text, i) \in Nat
        BY <4>1, RankNat
      <4> QED BY <4>1, <4>2, <1>2
    <3>1. PICK w \in Seq(Chars) : w = argv[Rank(text, i)]
      BY <3>0, ElementOfSeq
    <3>2. Word(w, text, i, k, FALSE /\ Rank(text, i) = Rank(text, k)) /\ Len(w) \in Nat
      BY <3>0, <3>1, LenProperties DEF Words
    <3>3. Word(w, text, i, k, FALSE)
      BY <3>2, Zenon
    <3>4. Word(w, text, i, k + 1, FALSE)
      BY <3>2, <3>3, <3>0 DEF Word
    <3>5. more[Rank(text, i)] = w /\ Rank(text, i) # n + 1
      BY <3>0, <3>1, <1>2, <1>5
    <3> QED BY <3>4, <3>5
  <2> QED BY <2>1, <2>2
<1> HIDE DEF more, n
<1>7. Words(more, text, k + 1, TRUE)
  BY <1>2, <1>5, <1>6 DEF Words
<1> QED BY <1>2, <1>7 DEF more, n

LEMMA ProgressOf ==
  ASSUME NEW argv, NEW inside, NEW many, NEW text, NEW k, Known(argv, inside, many, text, k)
  PROVE  Progress([argv |-> argv, inside |-> inside, many |-> many], text, k)
BY DEF Progress

LEMMA ScanProgress ==
  ASSUME NEW text \in Seq(Chars), NEW k \in Nat, k < Len(text),
         NEW a \in Parsed, Progress(a, text, k)
  PROVE  Progress(scan(a, text[k + 1]), text, k + 1)
<1> DEFINE c == text[k + 1]
<1>0. PICK argv \in Seq(Seq(Chars)), inside \in BOOLEAN, many \in BOOLEAN :
         /\ a = [argv |-> argv, inside |-> inside, many |-> many]
         /\ inside => argv # <<>>
  BY DEF Parsed
<1>0a. a.argv = argv /\ a.inside = inside /\ a.many = many
  BY <1>0
<1>0b. Known(argv, inside, many, text, k)
  BY <1>0a DEF Progress
<1>1. MAXARGS \in Nat /\ Rank(text, k) \in Nat /\ Rank(text, k + 1) \in Nat
      /\ Rank(text, k) <= Rank(text, k + 1)
  <2>1. k + 1 \in Nat /\ k <= k + 1
    OBVIOUS
  <2> QED BY <2>1, RankNat, ConsoleAssumption
<1>1a. k + 1 # 0
  OBVIOUS
<1>2. CASE many
  <2>1. scan(a, c) = a
    BY <1>2, <1>0a DEF scan
  <2>2. Known(argv, inside, many, text, k + 1)
    BY <1>0b, <1>1, <1>2 DEF Known
  <2> QED BY <2>1, <2>2, <1>0a DEF Progress
<1>3. CASE ~many /\ c \in WHITESPACE
  <2>1. scan(a, c) = [argv |-> argv, inside |-> FALSE, many |-> FALSE]
    BY <1>0, <1>3 DEF scan
  <2>2. Words(argv, text, k, inside) /\ ~(MAXARGS <= Rank(text, k))
    BY <1>3, <1>0b, Zenon DEF Known
  <2>3. Words(argv, text, k + 1, FALSE) /\ Rank(text, k + 1) = Rank(text, k)
    BY <1>3, <2>2, WordEnds
  <2>4. Known(argv, FALSE, FALSE, text, k + 1)
    BY <2>2, <2>3, <1>3, Zenon DEF Known
  <2> QED BY <2>1, <2>4, ProgressOf
<1>4. CASE ~many /\ c \notin WHITESPACE /\ inside
  <2> DEFINE n == Len(argv)
             more == [argv EXCEPT ![n] = Append(argv[n], c)]
  <2>1. scan(a, c) = [argv |-> more, inside |-> TRUE, many |-> FALSE]
    BY <1>0, <1>4 DEF scan
  <2>0. inside = TRUE /\ many = FALSE
    BY <1>4
  <2>2. /\ Words(argv, text, k, TRUE) /\ ~(MAXARGS <= Rank(text, k))
        /\ k # 0 /\ text[k] \notin WHITESPACE
    BY <2>0, <1>0b, Zenon DEF Known
  <2>3. Words(more, text, k + 1, TRUE) /\ Rank(text, k + 1) = Rank(text, k)
    BY <1>0, <1>4, <2>2, WordGoesOn
  <2> HIDE DEF more
  <2>4. Known(more, TRUE, FALSE, text, k + 1)
    BY <2>2, <2>3, <1>4, <1>1a, Zenon DEF Known
  <2> QED BY <2>1, <2>4, ProgressOf
<1>5. CASE ~many /\ c \notin WHITESPACE /\ ~inside
  <2>0. inside = FALSE /\ many = FALSE
    BY <1>5
  <2>1. /\ Words(argv, text, k, FALSE) /\ ~(MAXARGS <= Rank(text, k))
        /\ k = 0 \/ text[k] \in WHITESPACE
    BY <2>0, <1>0b, Zenon DEF Known
  <2> DEFINE more == Append(argv, <<c>>)
  <2>2. Words(more, text, k + 1, TRUE) /\ Rank(text, k + 1) = Rank(text, k) + 1
    BY <1>5, <2>1, WordBegins
  <2>3. Len(argv) = Rank(text, k)
    BY <2>1 DEF Words
  <2>4. CASE Len(argv) = MAXARGS - 1
    <3>1. scan(a, c) = [argv |-> argv, inside |-> inside, many |-> TRUE]
      BY <1>0, <1>5, <2>4 DEF scan
    <3>2. Known(argv, inside, TRUE, text, k + 1)
      BY <2>2, <2>3, <2>4, <1>1 DEF Known
    <3> QED BY <3>1, <3>2, ProgressOf
  <2>5. CASE Len(argv) # MAXARGS - 1
    <3>1. scan(a, c) = [argv |-> more, inside |-> TRUE, many |-> FALSE]
      BY <1>0, <1>5, <2>5 DEF scan
    <3>2. ~(MAXARGS <= Rank(text, k + 1))
      BY <2>1, <2>2, <2>3, <2>5, <1>1
    <3> HIDE DEF more
    <3>3. Known(more, TRUE, FALSE, text, k + 1)
      BY <2>2, <3>2, <1>5, <1>1a, Zenon DEF Known
    <3> QED BY <3>1, <3>3, ProgressOf
  <2> QED BY <2>4, <2>5
<1> QED BY <1>2, <1>3, <1>4, <1>5

(* What argv[] is, for every line.                                         *)
LEMMA ParsedWords ==
  ASSUME NEW text \in Seq(Chars)
  PROVE  parse(text) \in Parsed /\ Progress(parse(text), text, Len(text))
<1>0. Len(text) \in Nat
  BY LenProperties
<1>1. PICK f : Scans(f, text) /\ parse(text) = f[Len(text)]
  BY ParseScans
<1> DEFINE T == {k \in Nat : k <= Len(text) => Progress(f[k], text, k)}
<1>2. 0 \in T
  <2>1. f[0] = Start /\ Rank(text, 0) = 0 /\ MAXARGS \in Nat /\ MAXARGS # 0
    BY <1>1, RankNat, ConsoleAssumption DEF Scans
  <2>2. Words(<<>>, text, 0, FALSE)
    BY <2>1, RankNat, <1>0 DEF Words
  <2>2b. ~(MAXARGS <= Rank(text, 0))
    BY <2>1
  <2>2a. Known(<<>>, FALSE, FALSE, text, 0)
    BY <2>2, <2>2b, Zenon DEF Known
  <2>3. Progress(Start, text, 0)
    BY <2>2a, ProgressOf DEF Start
  <2> QED BY <2>1, <2>3
<1>3. ASSUME NEW k \in Nat, k \in T PROVE k + 1 \in T
  <2>1. SUFFICES ASSUME k + 1 <= Len(text) PROVE Progress(f[k + 1], text, k + 1)
    OBVIOUS
  <2>2. k < Len(text) /\ k <= Len(text) /\ k \in 0 .. Len(text) /\ k + 1 \in 1 .. Len(text) /\ k + 1 - 1 = k
    BY <1>0, <2>1
  <2>3. Progress(f[k], text, k) /\ f[k] \in Parsed /\ f[k + 1] = scan(f[k], text[k + 1])
    BY <1>1, <1>3, <2>2 DEF Scans
  <2> QED BY <2>2, <2>3, ScanProgress
<1>4. Nat \subseteq T
  <2> HIDE DEF T
  <2> QED BY <1>2, <1>3, Induction
<1>5. Progress(f[Len(text)], text, Len(text)) /\ f[Len(text)] \in Parsed
  BY <1>0, <1>1, <1>4 DEF Scans
<1> QED BY <1>1, <1>5

WordOf(w, text, i) ==
    LET next == i + Len(w)
    IN  /\ w = SubSeq(text, i, next - 1)
        /\ \A k \in DOMAIN w : w[k] \notin WHITESPACE
        /\ next > Len(text) \/ text[next] \in WHITESPACE

LEMMA LineParsed ==
  ASSUME NEW text \in Seq(Chars), NEW i \in WordStarts(text), NEW w \in Seq(Chars),
         NEW open \in BOOLEAN, Word(w, text, i, Len(text), open)
  PROVE  WordOf(w, text, i)
<1>0. Len(text) \in Nat /\ Len(w) \in Nat /\ DOMAIN w = 1 .. Len(w) /\ i \in 1 .. Len(text)
  BY LenProperties, RankNat
<1>1. PICK e \in Nat : e = (i + Len(w)) - 1 /\ e <= Len(text) /\ e - i + 1 = Len(w)
  <2>0. i + Len(w) <= Len(text) + 1
    BY <1>0 DEF Word
  <2>1. (i + Len(w)) - 1 \in Nat /\ (i + Len(w)) - 1 <= Len(text) /\ ((i + Len(w)) - 1) - i + 1 = Len(w)
    BY <1>0, <2>0
  <2> DEFINE x == (i + Len(w)) - 1
  <2>2. x \in Nat /\ x <= Len(text) /\ x - i + 1 = Len(w)
    BY <2>1
  <2> QED BY <2>2, Zenon
<1>2. \A m \in i .. e : text[m] \in Chars
  BY <1>0, <1>1, ElementOfSeq
<1>3. /\ SubSeq(text, i, e) \in Seq(Chars)
      /\ Len(SubSeq(text, i, e)) = IF i <= e THEN e - i + 1 ELSE 0
      /\ \A m \in 1 .. e - i + 1 : SubSeq(text, i, e)[m] = text[i + m - 1]
  BY <1>0, <1>2, SubSeqProperties
<1>4. Len(SubSeq(text, i, e)) = Len(w)
  BY <1>0, <1>1, <1>3
<1>5. \A m \in 1 .. Len(w) : w[m] = SubSeq(text, i, e)[m]
  BY <1>0, <1>1, <1>3 DEF Word
<1>6. w = SubSeq(text, i, e)
  BY <1>3, <1>4, <1>5, SeqEqual
<1>7. i + Len(w) > Len(text) \/ text[i + Len(w)] \in WHITESPACE
  BY <1>0 DEF Word
<1>8. \A k \in DOMAIN w : w[k] \notin WHITESPACE
  BY <1>0 DEF Word
<1>9. w = SubSeq(text, i, (i + Len(w)) - 1)
  BY <1>1, <1>6
<1> QED BY <1>7, <1>8, <1>9, Zenon DEF WordOf

LEMMA ArgvOfLine ==
  ASSUME NEW text \in Seq(Chars)
  PROVE  LET a == parse(text)
             starts == WordStarts(text)
         IN  /\ a.many <=> Cardinality(starts) >= MAXARGS
             /\ ~a.many =>
                  /\ Len(a.argv) = Cardinality(starts)
                  /\ \A i \in starts :
                       LET word == a.argv[Cardinality({j \in starts : j <= i})]
                           next == i + Len(word)
                       IN  /\ word = SubSeq(text, i, next - 1)
                           /\ \A k \in DOMAIN word : word[k] \notin WHITESPACE
                           /\ next > Len(text) \/ text[next] \in WHITESPACE
<1> DEFINE n == Len(text)
<1>0. n \in Nat /\ MAXARGS \in Nat /\ Rank(text, n) \in Nat
  BY LenProperties, RankNat, ConsoleAssumption
<1>1. Rank(text, n) = Cardinality(WordStarts(text))
  <2>1. {j \in WordStarts(text) : j <= n} = WordStarts(text)
    BY <1>0 DEF WordStarts
  <2> QED BY <2>1 DEF Rank
<1>2. PICK a : a = parse(text)
  OBVIOUS
<1>3. a \in Parsed /\ Progress(a, text, n)
  BY <1>2, ParsedWords
<1>3a. a.argv \in Seq(Seq(Chars)) /\ a.inside \in BOOLEAN
  BY <1>3 DEF Parsed
<1>4. a.many <=> Cardinality(WordStarts(text)) >= MAXARGS
  BY <1>0, <1>1, <1>3 DEF Progress, Known
<1>5. ASSUME ~a.many, NEW i \in WordStarts(text)
      PROVE  WordOf(a.argv[Rank(text, i)], text, i)
  <2>0. Words(a.argv, text, n, a.inside)
    BY <1>3, <1>5 DEF Progress, Known
  <2>1. i \in Nat /\ i <= n /\ Rank(text, i) \in 1 .. Len(a.argv)
    <3>1. i \in Nat /\ i <= n
      BY <1>0, RankNat
    <3>2. 1 <= Rank(text, i) /\ Rank(text, i) <= Rank(text, n) /\ Rank(text, i) \in Nat
      BY <1>0, <3>1, RankNat
    <3> QED BY <3>1, <3>2, <2>0, <1>0 DEF Words
  <2>2. PICK w \in Seq(Chars) : w = a.argv[Rank(text, i)]
    BY <2>1, <1>3a, ElementOfSeq
  <2>3. PICK open \in BOOLEAN : open = (a.inside /\ Rank(text, i) = Rank(text, n))
    OBVIOUS
  <2>4. Word(w, text, i, n, open)
    BY <2>0, <2>1, <2>2, <2>3 DEF Words
  <2>5. WordOf(w, text, i)
    BY <2>4, LineParsed, Zenon
  <2> QED BY <2>2, <2>5
<1>6. ~a.many => Len(a.argv) = Cardinality(WordStarts(text))
  BY <1>1, <1>3 DEF Progress, Known, Words
<1> QED BY <1>2, <1>4, <1>5, <1>6, Zenon DEF Rank, WordOf

(* Every line that is read is split into its words, in order and whole.    *)
THEOREM ArgvIsTheWords == Spec => []ArgvExact
<1>1. EInv => line \in Seq(Chars)
  BY DEF EInv
<1>2. EInv => ArgvExact
  BY <1>1, ArgvOfLine, Zenon DEF ArgvExact
<1> QED BY <1>2, ConsoleInvariant, PTL

-----------------------------------------------------------------------------
(* What waiting scan codes are going to enter.                             *)

Flags == {"SHIFT", "CTL", "ALT", "CAPSLOCK", "NUMLOCK", "SCROLLLOCK", "E0ESC"}

Foreseen == [shift : SUBSET Flags, reboot : BOOLEAN, text : Seq(Chars)]

Fore(d, codes) == FoldLeft(foresee, d, codes)

LEMMA FlagsStay ==
  ASSUME NEW s \in SUBSET Flags, NEW data
  PROVE  kbd_proc_data(s, data).shift \in SUBSET Flags
<1>1. \A x : shiftcode(x) \in SUBSET Flags
  BY Zenon DEF shiftcode, Flags
<1>2. \A x : togglecode(x) \in SUBSET Flags
  BY Zenon DEF togglecode, Flags
<1>3. "E0ESC" \in Flags
  BY DEF Flags
<1>4. CASE data = 224
  BY <1>3, <1>4 DEF kbd_proc_data
<1>5. CASE data # 224 /\ data >= 128
  BY <1>5 DEF kbd_proc_data
<1>6. CASE data # 224 /\ ~(data >= 128)
  <2> DEFINE d == IF "E0ESC" \in s THEN data + 128 ELSE data
             t == SymDiff((s \ {"E0ESC"}) \cup shiftcode(d), togglecode(d))
  <2>1. kbd_proc_data(s, data).shift = t
    BY <1>6 DEF kbd_proc_data
  <2>2. t \in SUBSET Flags
    <3> HIDE DEF d
    <3> QED BY <1>1, <1>2 DEF SymDiff
  <2> QED BY <2>1, <2>2
<1> QED BY <1>4, <1>5, <1>6

LEMMA ForeseeType ==
  ASSUME NEW d \in Foreseen, NEW data
  PROVE  foresee(d, data) \in Foreseen
<1> DEFINE r == kbd_proc_data(d.shift, data)
<1>1. d.shift \in SUBSET Flags /\ d.text \in Seq(Chars)
  BY DEF Foreseen
<1>2. r.shift \in SUBSET Flags /\ r.c \in Chars
  BY <1>1, FlagsStay, KeysAreChars
<1> HIDE DEF r
<1>3. PICK text \in Seq(Chars) : text = IF r.c = NO THEN d.text ELSE Append(d.text, r.c)
  <2>1. Append(d.text, r.c) \in Seq(Chars)
    BY <1>1, <1>2, AppendProperties
  <2> QED BY <2>1, <1>1
<1>4. PICK reboot \in BOOLEAN : reboot = Reboots(r)
  BY DEF Reboots
<1>5. CASE d.reboot
  BY <1>5 DEF foresee
<1>6. CASE ~d.reboot
  <2>1. foresee(d, data) = [shift |-> r.shift, reboot |-> reboot, text |-> text]
    BY <1>3, <1>4, <1>6 DEF foresee, r
  <2> QED BY <2>1, <1>2 DEF Foreseen
<1> QED BY <1>5, <1>6

(* A fold goes over the codes from left to right, as for parse().          *)
Foresees(f, d, codes) ==
    /\ f \in [0 .. Len(codes) -> Foreseen] /\ f[0] = d
    /\ \A k \in 1 .. Len(codes) : f[k] = foresee(f[k - 1], codes[k])

ForeRecursion(g, d, codes) ==
    g = [s \in SUBSET DOMAIN codes |->
            IF s = {} THEN d ELSE foresee(g[s \ {Max(s)}], codes[Max(s)])]

LEMMA ForeDef ==
  ASSUME NEW d, NEW codes
  PROVE  Fore(d, codes) = (CHOOSE g : ForeRecursion(g, d, codes))[DOMAIN codes]
BY DEF Fore, FoldLeft, MapThenFoldSet, ForeRecursion

LEMMA ForeForesees ==
  ASSUME NEW codes \in Seq(Nat), NEW d \in Foreseen
  PROVE  \E f : Foresees(f, d, codes) /\ Fore(d, codes) = f[Len(codes)]
<1> DEFINE n == Len(codes)
           st == [p \in Foreseen \X Nat |-> foresee(p[1], p[2])]
           g == CHOOSE g : ForeRecursion(g, d, codes)
           f == [k \in 0 .. n |-> g[1 .. k]]
<1>0. n \in Nat /\ DOMAIN codes = 1 .. n /\ \A i \in 1 .. n : codes[i] \in Nat
  BY ElementOfSeq, LenProperties
<1>2. ForeRecursion(g, d, codes)
  <2>1. st \in [Foreseen \X Nat -> Foreseen]
    BY ForeseeType
  <2>2. PICK h \in [SUBSET (1 .. n) -> Foreseen] : Folds1(h, st, d, codes, n)
    <3> HIDE DEF st
    <3> QED BY <2>1, FoldExists
  <2>3. ASSUME NEW s \in SUBSET (1 .. n)
        PROVE  h[s] = IF s = {} THEN d ELSE foresee(h[s \ {Max(s)}], codes[Max(s)])
    <3>1. CASE s = {}
      BY <3>1, <2>2 DEF Folds1
    <3>2. CASE s # {}
      <4>1. Max(s) \in 1 .. n /\ s \ {Max(s)} \in SUBSET (1 .. n)
        BY <3>2, <1>0, LastOne
      <4>2. <<h[s \ {Max(s)}], codes[Max(s)]>> \in Foreseen \X Nat
        BY <4>1, <2>2, <1>0
      <4>3. h[s] = st[<<h[s \ {Max(s)}], codes[Max(s)]>>]
        BY <3>2, <2>2 DEF Folds1
      <4> QED BY <4>2, <4>3, <3>2
    <3> QED BY <3>1, <3>2
  <2>4. ForeRecursion(h, d, codes)
    BY <2>2, <2>3, <1>0, Zenon DEF ForeRecursion
  <2> QED BY <2>4, Zenon
<1>3. Fore(d, codes) = g[1 .. n]
  BY <1>0, ForeDef
<1> HIDE DEF g
<1>4. \A s \in SUBSET (1 .. n) : g[s] = IF s = {} THEN d ELSE foresee(g[s \ {Max(s)}], codes[Max(s)])
  BY <1>2, <1>0, Zenon DEF ForeRecursion
<1>5. f[0] = d
  <2>1. 1 .. 0 = {} /\ 0 \in 0 .. n
    BY <1>0
  <2>2. g[{}] = d
    BY <1>4
  <2> QED BY <2>1, <2>2
<1>6. ASSUME NEW k \in 1 .. n PROVE f[k] = foresee(f[k - 1], codes[k])
  <2>1. 1 .. k # {} /\ Max(1 .. k) = k /\ (1 .. k) \ {Max(1 .. k)} = 1 .. k - 1
    <3>1. k \in Nat /\ k # 0
      BY <1>0
    <3> QED BY <3>1, LastOfPrefix, Zenon
  <2>2. 1 .. k \in SUBSET (1 .. n)
    BY <1>0
  <2>3. g[1 .. k] = foresee(g[1 .. k - 1], codes[k])
    BY <2>1, <2>2, <1>4
  <2>4. f[k] = g[1 .. k] /\ f[k - 1] = g[1 .. k - 1]
    BY <1>0
  <2> QED BY <2>3, <2>4
<1>7. f \in [0 .. n -> Foreseen]
  <2> DEFINE T == {k \in Nat : k <= n => f[k] \in Foreseen}
  <2> HIDE DEF f
  <2>1. 0 \in T
    BY <1>5
  <2>2. ASSUME NEW k \in Nat, k \in T PROVE k + 1 \in T
    <3>1. SUFFICES ASSUME k + 1 <= n PROVE f[k + 1] \in Foreseen
      OBVIOUS
    <3>2. f[k] \in Foreseen /\ k + 1 \in 1 .. n
      BY <2>2, <3>1, <1>0
    <3>3. f[k + 1] = foresee(f[k], codes[k + 1])
      BY <3>2, <1>6
    <3> QED BY <3>2, <3>3, ForeseeType
  <2>3. Nat \subseteq T
    <3> HIDE DEF T
    <3> QED BY <2>1, <2>2, Induction
  <2>4. \A k \in 0 .. n : f[k] \in Foreseen
    BY <2>3, <1>0
  <2> QED BY <2>4 DEF f
<1>8. Fore(d, codes) = f[n]
  BY <1>3, <1>0
<1> HIDE DEF f
<1> QED BY <1>5, <1>6, <1>7, <1>8 DEF Foresees

LEMMA ForeEmpty ==
  ASSUME NEW d \in Foreseen
  PROVE  Fore(d, <<>>) = d
<1>1. PICK codes \in Seq(Nat) : codes = <<>> /\ Len(codes) = 0
  <2>1. <<>> \in Seq(Nat) /\ Len(<<>>) = 0
    OBVIOUS
  <2> QED BY <2>1, Zenon
<1>2. PICK f : Foresees(f, d, codes) /\ Fore(d, codes) = f[Len(codes)]
  BY ForeForesees
<1> QED BY <1>1, <1>2 DEF Foresees

LEMMA ForeAppend ==
  ASSUME NEW d \in Foreseen, NEW codes \in Seq(Nat), NEW data \in Nat
  PROVE  Fore(d, Append(codes, data)) = foresee(Fore(d, codes), data)
<1> DEFINE n == Len(codes)
<1>1. PICK f : Foresees(f, d, codes) /\ Fore(d, codes) = f[n]
  BY ForeForesees
<1>2. PICK more \in Seq(Nat) : more = Append(codes, data)
  BY AppendProperties
<1>3. /\ n \in Nat /\ Len(more) = n + 1 /\ more[n + 1] = data
      /\ \A i \in 1 .. n : more[i] = codes[i]
  BY <1>2, AppendProperties, LenProperties
<1>4. PICK h : Foresees(h, d, more) /\ Fore(d, more) = h[n + 1]
  <2>1. \E h : Foresees(h, d, more) /\ Fore(d, more) = h[Len(more)]
    BY ForeForesees
  <2> QED BY <2>1, <1>3
<1> DEFINE T == {k \in Nat : k <= n => h[k] = f[k]}
<1>5. 0 \in T
  BY <1>1, <1>4 DEF Foresees
<1>6. ASSUME NEW k \in Nat, k \in T PROVE k + 1 \in T
  <2>1. SUFFICES ASSUME k + 1 <= n PROVE h[k + 1] = f[k + 1]
    OBVIOUS
  <2>2. h[k] = f[k] /\ k + 1 \in 1 .. n /\ k + 1 \in 1 .. n + 1 /\ k + 1 - 1 = k
    BY <1>3, <1>6, <2>1
  <2>3. h[k + 1] = foresee(h[k], more[k + 1]) /\ f[k + 1] = foresee(f[k], codes[k + 1])
    BY <1>1, <1>3, <1>4, <2>2 DEF Foresees
  <2> QED BY <2>2, <2>3, <1>3
<1>7. Nat \subseteq T
  <2> HIDE DEF T
  <2> QED BY <1>5, <1>6, Induction
<1>8. h[n] = f[n]
  BY <1>3, <1>7
<1>9. h[n + 1] = foresee(h[n], data)
  <2>1. n + 1 \in 1 .. n + 1 /\ n + 1 - 1 = n
    BY <1>3
  <2> QED BY <2>1, <1>3, <1>4, SMTT(30) DEF Foresees
<1> QED BY <1>1, <1>2, <1>4, <1>8, <1>9

LEMMA ForeFirst ==
  ASSUME NEW d \in Foreseen, NEW codes \in Seq(Nat), codes # <<>>
  PROVE  Fore(d, codes) = Fore(foresee(d, Head(codes)), Tail(codes))
<1>1. PICK n \in Nat : n + 1 = Len(codes)
  <2>1. Len(codes) \in Nat /\ Len(codes) # 0
    BY EmptySeq, LenProperties
  <2>2. Len(codes) - 1 \in Nat /\ Len(codes) - 1 + 1 = Len(codes)
    BY <2>1
  <2> QED BY <2>2
<1>2. PICK rest \in Seq(Nat), first \in Nat : rest = Tail(codes) /\ first = Head(codes)
  BY HeadTailProperties
<1>3. /\ Len(rest) = n /\ first = codes[1]
      /\ \A i \in 1 .. n : rest[i] = codes[i + 1]
  <2>1. Len(rest) = Len(codes) - 1 /\ \A i \in 1 .. Len(rest) : rest[i] = codes[i + 1]
    BY <1>2, HeadTailProperties
  <2>2. Len(rest) = n
    BY <2>1, <1>1
  <2>3. first = codes[1]
    BY <1>2
  <2> QED BY <2>1, <2>2, <2>3
<1>4. PICK f : Foresees(f, d, codes) /\ Fore(d, codes) = f[n + 1]
  <2>1. \E f : Foresees(f, d, codes) /\ Fore(d, codes) = f[Len(codes)]
    BY ForeForesees
  <2> QED BY <2>1, <1>1
<1>5. PICK e \in Foreseen : e = foresee(d, first)
  BY ForeseeType
<1>6. PICK h : Foresees(h, e, rest) /\ Fore(e, rest) = h[n]
  <2>1. \E h : Foresees(h, e, rest) /\ Fore(e, rest) = h[Len(rest)]
    BY ForeForesees
  <2> QED BY <2>1, <1>3
<1> DEFINE T == {k \in Nat : k <= n => h[k] = f[k + 1]}
<1>7. 0 \in T
  <2>1. 1 \in 1 .. Len(codes) /\ 1 - 1 = 0
    BY <1>1
  <2>2. f[1] = foresee(f[0], codes[1]) /\ f[0] = d /\ h[0] = e
    BY <2>1, <1>4, <1>6 DEF Foresees
  <2> QED BY <2>2, <1>3, <1>5
<1>8. ASSUME NEW k \in Nat, k \in T PROVE k + 1 \in T
  <2>1. SUFFICES ASSUME k + 1 <= n PROVE h[k + 1] = f[k + 1 + 1]
    OBVIOUS
  <2>2. /\ h[k] = f[k + 1] /\ k + 1 \in 1 .. n /\ k + 1 + 1 \in 1 .. n + 1
        /\ k + 1 + 1 - 1 = k + 1 /\ k + 1 - 1 = k
    BY <1>8, <2>1
  <2>3. h[k + 1] = foresee(h[k], rest[k + 1])
    BY <1>3, <1>6, <2>2 DEF Foresees
  <2>4. f[k + 1 + 1] = foresee(f[k + 1], codes[k + 1 + 1])
    BY <1>1, <1>4, <2>2 DEF Foresees
  <2> QED BY <2>2, <2>3, <2>4, <1>3
<1>9. Nat \subseteq T
  <2> HIDE DEF T
  <2> QED BY <1>7, <1>8, Induction
<1>10. h[n] = f[n + 1]
  BY <1>9
<1> QED BY <1>2, <1>4, <1>5, <1>6, <1>10

(* What was entered before does not matter, and is kept.                   *)
With(d, text) == [shift |-> d.shift, reboot |-> d.reboot, text |-> text \o d.text]

LEMMA ForeseeWith ==
  ASSUME NEW d \in Foreseen, NEW text \in Seq(Chars), NEW data
  PROVE  foresee(With(d, text), data) = With(foresee(d, data), text)
<1> DEFINE r == kbd_proc_data(d.shift, data)
           e == With(d, text)
<1>1. d.shift \in SUBSET Flags /\ d.text \in Seq(Chars) /\ r.c \in Chars
  BY KeysAreChars DEF Foreseen
<1>2. e.shift = d.shift /\ e.reboot = d.reboot /\ e.text = text \o d.text
  BY DEF With
<1>3. Append(text \o d.text, r.c) = text \o Append(d.text, r.c)
  <2>1. PICK s \in Seq(Chars), c \in Chars : s = d.text /\ c = r.c
    BY <1>1
  <2>2. <<c>> \in Seq(Chars) /\ Append(s, c) = s \o <<c>> /\ Append(text \o s, c) = (text \o s) \o <<c>>
    BY AppendIsConcat, ConcatProperties
  <2>3. (text \o s) \o <<c>> = text \o (s \o <<c>>)
    BY <2>2, ConcatAssociative
  <2> QED BY <2>1, <2>2, <2>3
<1> HIDE DEF r, e
<1>4. CASE d.reboot
  <2>1. foresee(e, data) = e /\ foresee(d, data) = d
    BY <1>4, <1>2 DEF foresee
  <2> QED BY <2>1 DEF e
<1>5. CASE ~d.reboot
  <2>1. foresee(d, data) = [shift |-> r.shift, reboot |-> Reboots(r),
                            text |-> IF r.c = NO THEN d.text ELSE Append(d.text, r.c)]
    BY <1>5 DEF foresee, r
  <2>2. foresee(e, data) = [shift |-> r.shift, reboot |-> Reboots(r),
                            text |-> IF r.c = NO THEN e.text ELSE Append(e.text, r.c)]
    BY <1>5, <1>2 DEF foresee, r
  <2>3. PICK s, t, b : s = r.shift /\ b = Reboots(r) /\ t = IF r.c = NO THEN d.text ELSE Append(d.text, r.c)
    OBVIOUS
  <2>4. (IF r.c = NO THEN e.text ELSE Append(e.text, r.c)) = text \o t
    BY <2>3, <1>2, <1>3
  <2>5. foresee(d, data) = [shift |-> s, reboot |-> b, text |-> t]
    BY <2>1, <2>3
  <2>6. foresee(e, data) = [shift |-> s, reboot |-> b, text |-> text \o t]
    BY <2>2, <2>3, <2>4
  <2> QED BY <2>5, <2>6 DEF With, e
<1> QED BY <1>4, <1>5 DEF e

LEMMA ForeWith ==
  ASSUME NEW d \in Foreseen, NEW text \in Seq(Chars), NEW codes \in Seq(Nat)
  PROVE  Fore(With(d, text), codes) = With(Fore(d, codes), text)
<1> DEFINE n == Len(codes)
<1>0. n \in Nat
  BY LenProperties
<1>1. PICK e \in Foreseen : e = With(d, text)
  BY ConcatProperties DEF With, Foreseen
<1>2. PICK f : Foresees(f, d, codes) /\ Fore(d, codes) = f[n]
  BY ForeForesees
<1>3. PICK h : Foresees(h, e, codes) /\ Fore(e, codes) = h[n]
  BY ForeForesees
<1> DEFINE T == {k \in Nat : k <= n => h[k] = With(f[k], text)}
<1>4. 0 \in T
  BY <1>1, <1>2, <1>3 DEF Foresees
<1>5. ASSUME NEW k \in Nat, k \in T PROVE k + 1 \in T
  <2>1. SUFFICES ASSUME k + 1 <= n PROVE h[k + 1] = With(f[k + 1], text)
    OBVIOUS
  <2>2. h[k] = With(f[k], text) /\ k + 1 \in 1 .. n /\ k \in 0 .. n /\ k + 1 - 1 = k
    BY <1>0, <1>5, <2>1
  <2>3. h[k + 1] = foresee(h[k], codes[k + 1])
    BY <1>3, <2>2 DEF Foresees
  <2>4. f[k + 1] = foresee(f[k], codes[k + 1])
    BY <1>2, <2>2 DEF Foresees
  <2>5. f[k] \in Foreseen
    BY <1>2, <2>2 DEF Foresees
  <2> QED BY <2>2, <2>3, <2>4, <2>5, ForeseeWith
<1>6. Nat \subseteq T
  <2> HIDE DEF T
  <2> QED BY <1>4, <1>5, Induction
<1>7. h[n] = With(f[n], text)
  BY <1>0, <1>6
<1> QED BY <1>1, <1>2, <1>3, <1>7

-----------------------------------------------------------------------------
(* The ring buffer as a queue.                                             *)

LEMMA RingArithmetic ==
  /\ \A x \in Int : 0 <= x /\ x < CONSBUFSIZE => x % CONSBUFSIZE = x
  /\ \A x \in Int : CONSBUFSIZE <= x /\ x < 2 * CONSBUFSIZE => x % CONSBUFSIZE = x - CONSBUFSIZE
  /\ \A x \in Int : -CONSBUFSIZE <= x /\ x < 0 => x % CONSBUFSIZE = x + CONSBUFSIZE
BY ConsoleAssumption

(* The index after r, as the code computes it.                             *)
LEMMA RingNext ==
  ASSUME NEW r \in 0 .. CONSBUFSIZE - 1
  PROVE  /\ (r + 1) % CONSBUFSIZE \in 0 .. CONSBUFSIZE - 1
         /\ (r + 1) % CONSBUFSIZE = IF r = CONSBUFSIZE - 1 THEN 0 ELSE r + 1
<1>0. CONSBUFSIZE \in Nat /\ 2 <= CONSBUFSIZE
  BY ConsoleAssumption
<1>1. PICK x \in Int : x = r + 1
  BY <1>0
<1>2. x % CONSBUFSIZE = IF r = CONSBUFSIZE - 1 THEN 0 ELSE r + 1
  BY <1>0, <1>1, RingArithmetic
<1> QED BY <1>0, <1>1, <1>2

Ring(b, r, w) == [i \in 1 .. (w - r) % CONSBUFSIZE |-> b[(r + i - 1) % CONSBUFSIZE]]

(* How many characters are unread, and where each of them is.              *)
Count(r, w) == IF r <= w THEN w - r ELSE w - r + CONSBUFSIZE
Place(r, i) == IF r + i - 1 < CONSBUFSIZE THEN r + i - 1 ELSE r + i - 1 - CONSBUFSIZE

LEMMA RingValues ==
  ASSUME NEW b \in [0 .. CONSBUFSIZE - 1 -> Chars],
         NEW r \in 0 .. CONSBUFSIZE - 1, NEW w \in 0 .. CONSBUFSIZE - 1
  PROVE  /\ Ring(b, r, w) \in Seq(Chars)
         /\ Len(Ring(b, r, w)) = Count(r, w) /\ Count(r, w) \in 0 .. CONSBUFSIZE - 1
         /\ \A i \in 1 .. Count(r, w) : Ring(b, r, w)[i] = b[Place(r, i)]
<1>0. CONSBUFSIZE \in Nat /\ 2 <= CONSBUFSIZE
  BY ConsoleAssumption
<1>1. (w - r) % CONSBUFSIZE = Count(r, w) /\ Count(r, w) \in 0 .. CONSBUFSIZE - 1
  <2>1. PICK x \in Int : x = w - r
    BY <1>0
  <2>2. x % CONSBUFSIZE = Count(r, w)
    BY <1>0, <2>1, RingArithmetic DEF Count
  <2>3. Count(r, w) \in 0 .. CONSBUFSIZE - 1
    BY <1>0 DEF Count
  <2> QED BY <2>1, <2>2, <2>3
<1>2. ASSUME NEW i \in 1 .. Count(r, w)
      PROVE  (r + i - 1) % CONSBUFSIZE = Place(r, i) /\ Place(r, i) \in 0 .. CONSBUFSIZE - 1
  <2>1. PICK x \in Int : x = r + i - 1
    BY <1>0, <1>1
  <2>2. 0 <= x /\ x < 2 * CONSBUFSIZE
    BY <1>0, <1>1, <2>1
  <2>3. x % CONSBUFSIZE = Place(r, i)
    <3>1. CASE x < CONSBUFSIZE
      <4>1. x % CONSBUFSIZE = x
        BY <2>2, <3>1, RingArithmetic
      <4>2. Place(r, i) = x
        BY <1>0, <2>1, <3>1 DEF Place
      <4> QED BY <4>1, <4>2
    <3>2. CASE ~(x < CONSBUFSIZE)
      <4>1. x % CONSBUFSIZE = x - CONSBUFSIZE
        BY <1>0, <2>2, <3>2, RingArithmetic
      <4>2. Place(r, i) = x - CONSBUFSIZE
        BY <1>0, <2>1, <3>2 DEF Place
      <4> QED BY <4>1, <4>2
    <3> QED BY <3>1, <3>2
  <2>4. Place(r, i) \in 0 .. CONSBUFSIZE - 1
    BY <1>0, <2>1, <2>2 DEF Place
  <2> QED BY <2>1, <2>3, <2>4
<1>3. Ring(b, r, w) = [i \in 1 .. Count(r, w) |-> b[Place(r, i)]]
  BY <1>1, <1>2 DEF Ring
<1> HIDE DEF Ring
<1>4. \A i \in 1 .. Count(r, w) : b[Place(r, i)] \in Chars
  BY <1>2
<1>5. PICK n \in Nat : n = Count(r, w)
  BY <1>1, <1>0
<1>6. Ring(b, r, w) \in Seq(Chars) /\ Len(Ring(b, r, w)) = n
  <2>1. PICK s : s = Ring(b, r, w)
    OBVIOUS
  <2>2. DOMAIN s = 1 .. n /\ \A i \in 1 .. n : s[i] \in Chars
    BY <2>1, <1>3, <1>4, <1>5
  <2>3. s = [i \in 1 .. n |-> s[i]]
    BY <2>1, <1>3, <1>5, <2>2
  <2>4. s \in Seq(Chars)
    BY <2>2, <2>3, IsASeq
  <2>5. Len(s) = n
    BY <2>2, <2>4, LenProperties
  <2> QED BY <2>1, <2>4, <2>5
<1> QED BY <1>1, <1>3, <1>5, <1>6

(* A character goes behind the unread ones; with CONSBUFSIZE of them none  *)
(* is unread.                                                              *)
LEMMA RingPut ==
  ASSUME NEW b \in [0 .. CONSBUFSIZE - 1 -> Chars], NEW c \in Chars,
         NEW r \in 0 .. CONSBUFSIZE - 1, NEW w \in 0 .. CONSBUFSIZE - 1
  PROVE  LET b2 == [b EXCEPT ![w] = c]
             w2 == (w + 1) % CONSBUFSIZE
         IN  \/ Len(Ring(b, r, w)) = CONSBUFSIZE - 1 /\ Ring(b2, r, w2) = <<>>
             \/ Ring(b2, r, w2) = Append(Ring(b, r, w), c)
<1>0. CONSBUFSIZE \in Nat /\ 2 <= CONSBUFSIZE
  BY ConsoleAssumption
<1>1. PICK b2 \in [0 .. CONSBUFSIZE - 1 -> Chars] : b2 = [b EXCEPT ![w] = c]
  OBVIOUS
<1>2. PICK w2 \in 0 .. CONSBUFSIZE - 1 :
         w2 = (w + 1) % CONSBUFSIZE /\ w2 = IF w = CONSBUFSIZE - 1 THEN 0 ELSE w + 1
  BY RingNext
<1>3. PICK n \in Nat : n = Count(r, w) /\ n < CONSBUFSIZE
  <2>1. Count(r, w) \in 0 .. CONSBUFSIZE - 1
    BY RingValues
  <2> QED BY <2>1, <1>0
<1>4. PICK s \in Seq(Chars) : s = Ring(b, r, w) /\ Len(s) = n /\ \A i \in 1 .. n : s[i] = b[Place(r, i)]
  <2>1. /\ Ring(b, r, w) \in Seq(Chars) /\ Len(Ring(b, r, w)) = n
        /\ \A i \in 1 .. n : Ring(b, r, w)[i] = b[Place(r, i)]
    BY <1>3, RingValues
  <2> QED BY <2>1, Zenon
<1>5. PICK s2 \in Seq(Chars) :
         /\ s2 = Ring(b2, r, w2) /\ Len(s2) = Count(r, w2)
         /\ \A i \in 1 .. Count(r, w2) : s2[i] = b2[Place(r, i)]
  <2>1. /\ Ring(b2, r, w2) \in Seq(Chars) /\ Len(Ring(b2, r, w2)) = Count(r, w2)
        /\ \A i \in 1 .. Count(r, w2) : Ring(b2, r, w2)[i] = b2[Place(r, i)]
    BY RingValues
  <2> QED BY <2>1, Zenon
<1>6. CASE n = CONSBUFSIZE - 1
  <2>1. w2 = r
    BY <1>0, <1>2, <1>3, <1>6 DEF Count
  <2>2. Count(r, w2) = 0
    BY <2>1, <1>0 DEF Count
  <2>3. s2 = <<>>
    BY <2>2, <1>5, EmptySeq
  <2> QED BY <1>1, <1>2, <1>4, <1>5, <1>6, <2>3
<1>7. CASE n # CONSBUFSIZE - 1
  <2>1. Count(r, w2) = n + 1
    BY <1>0, <1>2, <1>3, <1>7, SMTT(30) DEF Count
  <2>2. Place(r, n + 1) = w
    BY <1>0, <1>3, <1>7 DEF Count, Place
  <2>3. ASSUME NEW i \in 1 .. n PROVE Place(r, i) \in 0 .. CONSBUFSIZE - 1 /\ Place(r, i) # w
    BY <1>0, <1>3, <1>7 DEF Count, Place
  <2>4. PICK t \in Seq(Chars) : /\ t = Append(s, c) /\ Len(t) = n + 1 /\ t[n + 1] = c
                                /\ \A i \in 1 .. n : t[i] = s[i]
    <3>1. /\ Append(s, c) \in Seq(Chars) /\ Len(Append(s, c)) = n + 1 /\ Append(s, c)[n + 1] = c
          /\ \A i \in 1 .. n : Append(s, c)[i] = s[i]
      BY <1>4, AppendProperties
    <3> QED BY <3>1, Zenon
  <2>5. ASSUME NEW i \in 1 .. n + 1 PROVE s2[i] = t[i]
    <3>1. CASE i = n + 1
      <4>1. s2[i] = b2[w]
        BY <3>1, <2>1, <2>2, <1>5
      <4> QED BY <4>1, <3>1, <1>1, <2>4
    <3>2. CASE i # n + 1
      <4>1. i \in 1 .. n
        BY <3>2
      <4>2. s2[i] = b2[Place(r, i)] /\ b2[Place(r, i)] = b[Place(r, i)]
        BY <4>1, <2>1, <2>3, <1>1, <1>5
      <4> QED BY <4>1, <4>2, <1>4, <2>4
    <3> QED BY <3>1, <3>2
  <2>6. s2 = t
    BY <2>1, <2>4, <2>5, <1>5, SeqEqual
  <2> QED BY <1>1, <1>2, <1>4, <1>5, <2>4, <2>6
<1> QED BY <1>6, <1>7

LEMMA RingGet ==
  ASSUME NEW b \in [0 .. CONSBUFSIZE - 1 -> Chars],
         NEW r \in 0 .. CONSBUFSIZE - 1, NEW w \in 0 .. CONSBUFSIZE - 1, r # w
  PROVE  Ring(b, r, w) # <<>> /\ Ring(b, (r + 1) % CONSBUFSIZE, w) = Tail(Ring(b, r, w))
<1>0. CONSBUFSIZE \in Nat /\ 2 <= CONSBUFSIZE
  BY ConsoleAssumption
<1>2. PICK r2 \in 0 .. CONSBUFSIZE - 1 :
         r2 = (r + 1) % CONSBUFSIZE /\ r2 = IF r = CONSBUFSIZE - 1 THEN 0 ELSE r + 1
  BY RingNext
<1>3. PICK n \in Nat : n + 1 = Count(r, w) /\ n + 1 < CONSBUFSIZE /\ n = Count(r2, w)
  <2>1. /\ Count(r, w) - 1 \in Nat /\ Count(r, w) - 1 + 1 = Count(r, w)
        /\ Count(r, w) - 1 + 1 < CONSBUFSIZE /\ Count(r, w) - 1 = Count(r2, w)
    BY <1>0, <1>2 DEF Count
  <2> QED BY <2>1
<1>4. PICK s \in Seq(Chars) : /\ s = Ring(b, r, w) /\ Len(s) = n + 1
                              /\ \A i \in 1 .. n + 1 : s[i] = b[Place(r, i)]
  <2>1. /\ Ring(b, r, w) \in Seq(Chars) /\ Len(Ring(b, r, w)) = Count(r, w)
        /\ \A i \in 1 .. Count(r, w) : Ring(b, r, w)[i] = b[Place(r, i)]
    BY RingValues, Zenon
  <2> QED BY <2>1, <1>3, Zenon
<1>5. PICK s2 \in Seq(Chars) : /\ s2 = Ring(b, r2, w) /\ Len(s2) = n
                               /\ \A i \in 1 .. n : s2[i] = b[Place(r2, i)]
  <2>1. /\ Ring(b, r2, w) \in Seq(Chars) /\ Len(Ring(b, r2, w)) = n
        /\ \A i \in 1 .. n : Ring(b, r2, w)[i] = b[Place(r2, i)]
    BY <1>3, RingValues
  <2> QED BY <2>1, Zenon
<1>6. s # <<>>
  BY <1>4, EmptySeq
<1>7. PICK t \in Seq(Chars) : t = Tail(s) /\ Len(t) = n /\ \A i \in 1 .. n : t[i] = s[i + 1]
  <2>1. Tail(s) \in Seq(Chars) /\ Len(Tail(s)) = n /\ \A i \in 1 .. n : Tail(s)[i] = s[i + 1]
    BY <1>4, <1>6, HeadTailProperties
  <2> QED BY <2>1
<1>8. ASSUME NEW i \in 1 .. n PROVE s2[i] = t[i]
  <2>1. Place(r2, i) = Place(r, i + 1)
    <3>1. i \in Nat /\ 1 <= i /\ i < CONSBUFSIZE
      BY <1>0, <1>3
    <3>2. CASE r = CONSBUFSIZE - 1
      <4>1. r2 = 0
        BY <1>2, <3>2
      <4> QED BY <4>1, <1>0, <3>1, <3>2 DEF Place
    <3>3. CASE r # CONSBUFSIZE - 1
      <4>1. r2 = r + 1
        BY <1>2, <3>3
      <4>2. PICK x \in Int : x = r + i
        BY <1>0, <3>1
      <4>3. Place(r2, i) = IF x < CONSBUFSIZE THEN x ELSE x - CONSBUFSIZE
        BY <4>1, <4>2, <1>0, <3>1 DEF Place
      <4>4. Place(r, i + 1) = IF x < CONSBUFSIZE THEN x ELSE x - CONSBUFSIZE
        BY <4>2, <1>0, <3>1 DEF Place
      <4> QED BY <4>3, <4>4
    <3> QED BY <3>2, <3>3
  <2>2. s[i + 1] = b[Place(r, i + 1)] /\ s2[i] = b[Place(r2, i)] /\ t[i] = s[i + 1]
    BY <1>4, <1>5, <1>7
  <2> QED BY <2>1, <2>2
<1>9. s2 = t
  BY <1>5, <1>7, <1>8, SeqEqual
<1> QED BY <1>2, <1>4, <1>5, <1>6, <1>7, <1>9
-----------------------------------------------------------------------------
(* What the codes of a key enter.                                          *)

LEMMA ForeType ==
  ASSUME NEW d \in Foreseen, NEW codes \in Seq(Nat)
  PROVE  Fore(d, codes) \in Foreseen
<1>1. PICK f : Foresees(f, d, codes) /\ Fore(d, codes) = f[Len(codes)]
  BY ForeForesees
<1>2. Len(codes) \in 0 .. Len(codes)
  BY LenProperties
<1> QED BY <1>1, <1>2 DEF Foresees

LEMMA ForeConcat ==
  ASSUME NEW d \in Foreseen, NEW first \in Seq(Nat), NEW second \in Seq(Nat)
  PROVE  Fore(d, first \o second) = Fore(Fore(d, first), second)
<1> DEFINE T == {n \in Nat : \A s \in Seq(Nat) : Len(s) = n => Fore(d, first \o s) = Fore(Fore(d, first), s)}
<1>0. Fore(d, first) \in Foreseen
  BY ForeType
<1>1. 0 \in T
  <2>1. ASSUME NEW s \in Seq(Nat), Len(s) = 0 PROVE Fore(d, first \o s) = Fore(Fore(d, first), s)
    <3>1. s = <<>>
      BY <2>1, EmptySeq
    <3>2. first \o s = first
      BY <3>1, ConcatEmptySeq
    <3>3. Fore(Fore(d, first), s) = Fore(d, first)
      BY <3>1, <1>0, ForeEmpty
    <3> QED BY <3>2, <3>3
  <2> QED BY <2>1
<1>2. ASSUME NEW n \in Nat, n \in T PROVE n + 1 \in T
  <2>1. ASSUME NEW s \in Seq(Nat), Len(s) = n + 1 PROVE Fore(d, first \o s) = Fore(Fore(d, first), s)
    <3>1. s # <<>>
      BY <2>1, EmptySeq
    <3>2. PICK t \in Seq(Nat), x \in Nat : s = Append(t, x)
      BY <3>1, SequenceEmptyOrAppend
    <3>3. Len(t) = n
      <4>1. Len(s) = Len(t) + 1 /\ Len(t) \in Nat
        BY <3>2, AppendProperties, LenProperties
      <4> QED BY <4>1, <2>1
    <3>4. Fore(d, first \o t) = Fore(Fore(d, first), t)
      BY <1>2, <3>3
    <3>5. first \o t \in Seq(Nat)
      BY ConcatProperties
    <3>6. first \o s = Append(first \o t, x)
      <4>1. <<x>> \in Seq(Nat) /\ Append(t, x) = t \o <<x>> /\ Append(first \o t, x) = (first \o t) \o <<x>>
        BY <3>5, AppendIsConcat, SMTT(30)
      <4>2. PICK one \in Seq(Nat) : one = <<x>>
        BY <4>1, Zenon
      <4>3. (first \o t) \o one = first \o (t \o one)
        BY ConcatAssociative, SMTT(30)
      <4> QED BY <4>1, <4>2, <4>3, <3>2
    <3>7. Fore(d, Append(first \o t, x)) = foresee(Fore(d, first \o t), x)
      BY <3>5, ForeAppend
    <3>8. Fore(Fore(d, first), Append(t, x)) = foresee(Fore(Fore(d, first), t), x)
      BY <1>0, ForeAppend
    <3> QED BY <3>2, <3>4, <3>6, <3>7, <3>8
  <2> QED BY <2>1
<1>3. Nat \subseteq T
  <2> HIDE DEF T
  <2> QED BY <1>1, <1>2, Induction
<1>4. Len(second) \in T
  BY <1>3, LenProperties
<1> QED BY <1>4

LEMMA ForeOne ==
  ASSUME NEW d \in Foreseen, NEW x \in Nat
  PROVE  <<x>> \in Seq(Nat) /\ Fore(d, <<x>>) = foresee(d, x)
<1>1. <<>> \in Seq(Nat) /\ Append(<<>>, x) = <<x>> /\ <<x>> \in Seq(Nat)
  OBVIOUS
<1>2. Fore(d, Append(<<>>, x)) = foresee(Fore(d, <<>>), x)
  BY <1>1, ForeAppend
<1> QED BY <1>1, <1>2, ForeEmpty

LEMMA ForeTwo ==
  ASSUME NEW d \in Foreseen, NEW x \in Nat, NEW y \in Nat
  PROVE  <<x, y>> \in Seq(Nat) /\ Fore(d, <<x, y>>) = foresee(foresee(d, x), y)
<1>1. <<x>> \in Seq(Nat) /\ Append(<<x>>, y) = <<x, y>> /\ <<x, y>> \in Seq(Nat)
  <2>1. PICK one \in Seq(Nat) : one = <<x>> /\ Len(one) = 1 /\ one[1] = x
    <3>1. <<x>> \in Seq(Nat) /\ Len(<<x>>) = 1 /\ <<x>>[1] = x
      OBVIOUS
    <3> QED BY <3>1, Zenon
  <2>2. PICK two \in Seq(Nat) : two = <<x, y>> /\ Len(two) = 2 /\ two[1] = x /\ two[2] = y
    <3>1. <<x, y>> \in Seq(Nat) /\ Len(<<x, y>>) = 2 /\ <<x, y>>[1] = x /\ <<x, y>>[2] = y
      OBVIOUS
    <3> QED BY <3>1, Zenon
  <2>3. PICK app \in Seq(Nat) : app = Append(one, y) /\ Len(app) = 2 /\ app[1] = x /\ app[2] = y
    <3>1. /\ Append(one, y) \in Seq(Nat) /\ Len(Append(one, y)) = 2
          /\ Append(one, y)[1] = x /\ Append(one, y)[2] = y
      BY <2>1, AppendProperties
    <3> QED BY <3>1, Zenon
  <2>4. app = two
    <3>1. \A i \in 1 .. Len(app) : app[i] = two[i]
      BY <2>2, <2>3
    <3> QED BY <3>1, <2>2, <2>3, SeqEqual
  <2> QED BY <2>1, <2>2, <2>3, <2>4
<1>2. Fore(d, Append(<<x>>, y)) = foresee(Fore(d, <<x>>), y)
  BY <1>1, ForeAppend
<1> QED BY <1>1, <1>2, ForeOne

(* Nothing is entered into a machine that has been told to reboot.         *)
LEMMA ForeStops ==
  ASSUME NEW d \in Foreseen, d.reboot, NEW codes \in Seq(Nat)
  PROVE  Fore(d, codes) = d
<1> DEFINE n == Len(codes)
<1>0. n \in Nat
  BY LenProperties
<1>1. PICK f : Foresees(f, d, codes) /\ Fore(d, codes) = f[n]
  BY ForeForesees
<1> DEFINE T == {k \in Nat : k <= n => f[k] = d}
<1>2. 0 \in T
  BY <1>1 DEF Foresees
<1>3. ASSUME NEW k \in Nat, k \in T PROVE k + 1 \in T
  <2>1. SUFFICES ASSUME k + 1 <= n PROVE f[k + 1] = d
    OBVIOUS
  <2>2. f[k] = d /\ k + 1 \in 1 .. n /\ k + 1 - 1 = k
    BY <1>0, <1>3, <2>1
  <2>3. f[k + 1] = foresee(f[k], codes[k + 1])
    BY <1>1, <2>2 DEF Foresees
  <2> QED BY <2>2, <2>3 DEF foresee
<1>4. Nat \subseteq T
  <2> HIDE DEF T
  <2> QED BY <1>2, <1>3, Induction
<1> QED BY <1>0, <1>1, <1>4

(* The flags once the make code of a key is seen, and what it enters.      *)
After(s, d)   == SymDiff(s \cup shiftcode(d), togglecode(d))
Meaning(t, d) == IF "CAPSLOCK" \in t THEN SwapCase(charcode(t, d)) ELSE charcode(t, d)

LEMMA MakePlain ==
  ASSUME NEW s, "E0ESC" \notin s, NEW data \in Nat, data < 128
  PROVE  /\ kbd_proc_data(s, data).shift = After(s, data)
         /\ kbd_proc_data(s, data).c = Meaning(After(s, data), data)
<1>1. data # 224 /\ ~(data >= 128) /\ s \ {"E0ESC"} = s
  OBVIOUS
<1> QED BY <1>1 DEF kbd_proc_data, After, Meaning

LEMMA MakeExtended ==
  ASSUME NEW s, "E0ESC" \notin s, NEW data \in Nat, data < 128
  PROVE  /\ kbd_proc_data(s \cup {"E0ESC"}, data).shift = After(s, data + 128)
         /\ kbd_proc_data(s \cup {"E0ESC"}, data).c = Meaning(After(s, data + 128), data + 128)
<1>1. /\ data # 224 /\ ~(data >= 128) /\ "E0ESC" \in s \cup {"E0ESC"}
      /\ (s \cup {"E0ESC"}) \ {"E0ESC"} = s
  OBVIOUS
<1> QED BY <1>1 DEF kbd_proc_data, After, Meaning

LEMMA BreakPlain ==
  ASSUME NEW s, "E0ESC" \notin s, NEW data \in Nat, data < 96
  PROVE  /\ kbd_proc_data(s, data + 128).shift = s \ shiftcode(data)
         /\ kbd_proc_data(s, data + 128).c = NO
<1>1. data + 128 # 224 /\ data + 128 >= 128 /\ (data + 128) % 128 = data
  OBVIOUS
<1>2. s \ (shiftcode(data) \cup {"E0ESC"}) = s \ shiftcode(data)
  OBVIOUS
<1> QED BY <1>1, <1>2 DEF kbd_proc_data

(* d with other flags and perhaps one more character.                      *)
Entered(d, s, c) ==
    [shift |-> s, reboot |-> {"CTL", "ALT"} \subseteq s /\ c = "DEL",
     text |-> IF c = NO THEN d.text ELSE Append(d.text, c)]

LEMMA ForeseeEnters ==
  ASSUME NEW d, ~d.reboot, NEW data
  PROVE  foresee(d, data) = Entered(d, kbd_proc_data(d.shift, data).shift, kbd_proc_data(d.shift, data).c)
BY DEF foresee, Entered, Reboots

LEMMA EnteredNothing ==
  ASSUME NEW d \in Foreseen, NEW s \in SUBSET Flags
  PROVE  /\ Entered(d, s, NO) = [shift |-> s, reboot |-> FALSE, text |-> d.text]
         /\ Entered(d, s, NO) \in Foreseen
<1>1. NO # "DEL"
  BY DEF NO
<1>2. d.text \in Seq(Chars)
  BY DEF Foreseen
<1>3. Entered(d, s, NO) = [shift |-> s, reboot |-> FALSE, text |-> d.text]
  BY <1>1 DEF Entered
<1> QED BY <1>2, <1>3 DEF Foreseen

(* Between two keys the machine is ready for the next.                     *)
Ready(d) == d \in Foreseen /\ ~d.reboot /\ "E0ESC" \notin d.shift

LEMMA ReadyWithout ==
  ASSUME NEW d, Ready(d)
  PROVE  d = Entered(d, d.shift, NO)
<1>1. Entered(d, d.shift, NO) = [shift |-> d.shift, reboot |-> FALSE, text |-> d.text]
  BY EnteredNothing DEF Ready, Foreseen
<1>2. d.reboot = FALSE
  BY DEF Ready, Foreseen
<1>3. d = [shift |-> d.shift, reboot |-> d.reboot, text |-> d.text]
  BY DEF Ready, Foreseen
<1> QED BY <1>1, <1>2, <1>3

(* The codes after an E0.                                                  *)
LEMMA Escape ==
  ASSUME NEW d, Ready(d)
  PROVE  LET e == foresee(d, 224) IN
         /\ e \in Foreseen /\ ~e.reboot
         /\ e.shift = d.shift \cup {"E0ESC"} /\ e.text = d.text
<1> DEFINE e == foresee(d, 224)
<1>1. kbd_proc_data(d.shift, 224).shift = d.shift \cup {"E0ESC"} /\ kbd_proc_data(d.shift, 224).c = NO
  BY DEF kbd_proc_data
<1>2. e = Entered(d, d.shift \cup {"E0ESC"}, NO)
  BY <1>1, ForeseeEnters DEF Ready
<1>3. d.shift \cup {"E0ESC"} \in SUBSET Flags
  BY DEF Ready, Foreseen, Flags
<1> QED BY <1>2, <1>3, EnteredNothing DEF Ready

Keys == CharKeys \cup {"caps"} \cup ModifierKeys

KeyCode(key) == IF key \in Extended THEN code(key) + 128 ELSE code(key)

LEMMA CodesAre ==
  /\ code("a") = 30 /\ code("d") = 32 /\ code("space") = 57 /\ code("back") = 14
  /\ code("enter") = 28 /\ code("pad_enter") = 28 /\ code("delete") = 83 /\ code("caps") = 58
  /\ code("left_shift") = 42 /\ code("right_shift") = 54
  /\ code("left_ctl") = 29 /\ code("right_ctl") = 29 /\ code("alt") = 56 /\ code("right_alt") = 56
BY DEF code

LEMMA CodeType ==
  ASSUME NEW key \in Keys
  PROVE  code(key) \in Nat /\ code(key) < 96
BY CodesAre DEF Keys, CharKeys, ModifierKeys

LEMMA MakeKey ==
  ASSUME NEW d, Ready(d), NEW key \in Keys
  PROVE  /\ make(key) \in Seq(Nat)
         /\ Fore(d, make(key)) = Entered(d, After(d.shift, KeyCode(key)),
                                         Meaning(After(d.shift, KeyCode(key)), KeyCode(key)))
<1>1. PICK x \in Nat : x = code(key) /\ x < 96
  BY CodeType
<1>2. <<x>> \in Seq(Nat) /\ <<224>> \in Seq(Nat) /\ d \in Foreseen /\ ~d.reboot /\ "E0ESC" \notin d.shift
  BY DEF Ready
<1>3. CASE key \in Extended
  <2>1. make(key) = <<224>> \o <<x>> /\ KeyCode(key) = x + 128
    BY <1>1, <1>3 DEF make, KeyCode
  <2>2. PICK e \in Foreseen : /\ e = foresee(d, 224)
                              /\ ~e.reboot /\ e.shift = d.shift \cup {"E0ESC"} /\ e.text = d.text
    <3>1. /\ foresee(d, 224) \in Foreseen /\ ~foresee(d, 224).reboot
          /\ foresee(d, 224).shift = d.shift \cup {"E0ESC"} /\ foresee(d, 224).text = d.text
      BY Escape
    <3> QED BY <3>1, Zenon
  <2>3. Fore(d, <<224>>) = e
    <3>1. 224 \in Nat
      OBVIOUS
    <3> QED BY <3>1, <1>2, <2>2, ForeOne
  <2>4. Fore(d, make(key)) = foresee(e, x)
    <3>1. Fore(d, <<224>> \o <<x>>) = Fore(Fore(d, <<224>>), <<x>>)
      <4>1. PICK p \in Seq(Nat) : p = <<224>>
        BY <1>2, Zenon
      <4>2. PICK q \in Seq(Nat) : q = <<x>>
        BY <1>2, Zenon
      <4>3. Fore(d, p \o q) = Fore(Fore(d, p), q)
        BY <1>2, ForeConcat
      <4> QED BY <4>1, <4>2, <4>3
    <3>2. Fore(e, <<x>>) = foresee(e, x)
      BY ForeOne
    <3> QED BY <2>1, <2>3, <3>1, <3>2
  <2>5. /\ kbd_proc_data(e.shift, x).shift = After(d.shift, x + 128)
        /\ kbd_proc_data(e.shift, x).c = Meaning(After(d.shift, x + 128), x + 128)
    BY <1>1, <1>2, <2>2, MakeExtended
  <2>6. foresee(e, x) = Entered(e, After(d.shift, x + 128), Meaning(After(d.shift, x + 128), x + 128))
    BY <2>2, <2>5, ForeseeEnters
  <2>7. \A s, c : Entered(e, s, c) = Entered(d, s, c)
    BY <2>2 DEF Entered
  <2>8. make(key) \in Seq(Nat)
    BY <1>2, <2>1, ConcatProperties
  <2> QED BY <2>1, <2>4, <2>6, <2>7, <2>8
<1>4. CASE key \notin Extended
  <2>1. make(key) = <<x>> /\ KeyCode(key) = x
    <3>1. make(key) = <<>> \o <<x>> /\ KeyCode(key) = x
      BY <1>1, <1>4 DEF make, KeyCode
    <3> QED BY <3>1, <1>2, ConcatEmptySeq
  <2>2. Fore(d, <<x>>) = foresee(d, x)
    BY <1>2, ForeOne
  <2>3. /\ kbd_proc_data(d.shift, x).shift = After(d.shift, x)
        /\ kbd_proc_data(d.shift, x).c = Meaning(After(d.shift, x), x)
    BY <1>1, <1>2, MakePlain
  <2>4. foresee(d, x) = Entered(d, After(d.shift, x), Meaning(After(d.shift, x), x))
    BY <1>2, <2>3, ForeseeEnters
  <2> QED BY <1>2, <2>1, <2>2, <2>4
<1> QED BY <1>3, <1>4

LEMMA BreakKey ==
  ASSUME NEW d, Ready(d), NEW key \in Keys
  PROVE  /\ break(key) \in Seq(Nat)
         /\ Fore(d, break(key)) = Entered(d, d.shift \ shiftcode(KeyCode(key)), NO)
<1>1. PICK x \in Nat : x = code(key) /\ x < 96
  BY CodeType
<1>0. PICK y \in Nat : y = x + 128
  OBVIOUS
<1>2. <<y>> \in Seq(Nat) /\ <<224>> \in Seq(Nat) /\ d \in Foreseen /\ ~d.reboot /\ "E0ESC" \notin d.shift
  BY DEF Ready
<1>3. CASE key \in Extended
  <2>1. break(key) = <<224>> \o <<y>> /\ KeyCode(key) = y
    BY <1>0, <1>1, <1>3 DEF break, KeyCode
  <2>2. PICK e \in Foreseen : /\ e = foresee(d, 224)
                              /\ ~e.reboot /\ e.shift = d.shift \cup {"E0ESC"} /\ e.text = d.text
    <3>1. /\ foresee(d, 224) \in Foreseen /\ ~foresee(d, 224).reboot
          /\ foresee(d, 224).shift = d.shift \cup {"E0ESC"} /\ foresee(d, 224).text = d.text
      BY Escape
    <3> QED BY <3>1, Zenon
  <2>3. Fore(d, <<224>>) = e
    <3>1. 224 \in Nat
      OBVIOUS
    <3> QED BY <3>1, <1>2, <2>2, ForeOne
  <2>4. Fore(d, break(key)) = foresee(e, y)
    <3>1. Fore(d, <<224>> \o <<y>>) = Fore(Fore(d, <<224>>), <<y>>)
      <4>1. PICK p \in Seq(Nat) : p = <<224>>
        BY <1>2, Zenon
      <4>2. PICK q \in Seq(Nat) : q = <<y>>
        BY <1>2, Zenon
      <4>3. Fore(d, p \o q) = Fore(Fore(d, p), q)
        BY <1>2, ForeConcat
      <4> QED BY <4>1, <4>2, <4>3
    <3>2. Fore(e, <<y>>) = foresee(e, y)
      BY ForeOne
    <3> QED BY <2>1, <2>3, <3>1, <3>2
  <2>5. /\ kbd_proc_data(e.shift, y).shift = d.shift \ shiftcode(y)
        /\ kbd_proc_data(e.shift, y).c = NO
    <3>1. /\ y # 224 /\ y >= 128 /\ "E0ESC" \in e.shift
          /\ e.shift \ (shiftcode(y) \cup {"E0ESC"}) = d.shift \ shiftcode(y)
      BY <1>0, <1>1, <1>2, <2>2
    <3> QED BY <3>1 DEF kbd_proc_data
  <2>6. foresee(e, y) = Entered(e, d.shift \ shiftcode(y), NO)
    BY <2>2, <2>5, ForeseeEnters
  <2>7. \A s, c : Entered(e, s, c) = Entered(d, s, c)
    BY <2>2 DEF Entered
  <2>8. break(key) \in Seq(Nat)
    BY <1>2, <2>1, ConcatProperties
  <2> QED BY <2>1, <2>4, <2>6, <2>7, <2>8
<1>4. CASE key \notin Extended
  <2>1. break(key) = <<y>> /\ KeyCode(key) = x
    <3>1. break(key) = <<>> \o <<y>> /\ KeyCode(key) = x
      BY <1>0, <1>1, <1>4 DEF break, KeyCode
    <3> QED BY <3>1, <1>2, ConcatEmptySeq
  <2>2. Fore(d, <<y>>) = foresee(d, y)
    BY <1>2, ForeOne
  <2>3. /\ kbd_proc_data(d.shift, y).shift = d.shift \ shiftcode(x)
        /\ kbd_proc_data(d.shift, y).c = NO
    BY <1>0, <1>1, <1>2, BreakPlain
  <2>4. foresee(d, y) = Entered(d, d.shift \ shiftcode(x), NO)
    BY <1>2, <2>3, ForeseeEnters
  <2> QED BY <1>2, <2>1, <2>2, <2>4
<1> QED BY <1>3, <1>4

(* The codes of a shift key that nobody moved do nothing.                  *)
Fakes == {<<224, 42>>, <<224, 170>>}

LEMMA FakesDoNothing ==
  ASSUME NEW d, Ready(d), NEW fake \in Fakes
  PROVE  fake \in Seq(Nat) /\ Fore(d, fake) = d
<1>1. PICK x \in {42, 170} : fake = <<224, x>>
  BY DEF Fakes
<1>2. PICK e \in Foreseen : /\ e = foresee(d, 224)
                            /\ ~e.reboot /\ e.shift = d.shift \cup {"E0ESC"} /\ e.text = d.text
  <2>1. /\ foresee(d, 224) \in Foreseen /\ ~foresee(d, 224).reboot
        /\ foresee(d, 224).shift = d.shift \cup {"E0ESC"} /\ foresee(d, 224).text = d.text
    BY Escape
  <2> QED BY <2>1, Zenon
<1>3. fake \in Seq(Nat) /\ Fore(d, fake) = foresee(e, x)
  <2>1. x \in Nat /\ 224 \in Nat /\ d \in Foreseen
    BY DEF Ready
  <2> QED BY <1>1, <1>2, <2>1, ForeTwo
<1>4. "E0ESC" \notin d.shift
  BY DEF Ready
<1>5. kbd_proc_data(e.shift, x).shift = d.shift /\ kbd_proc_data(e.shift, x).c = NO
  <2>1. shiftcode(170) = {} /\ togglecode(170) = {} /\ 42 + 128 = 170
    BY DEF shiftcode, togglecode
  <2>2. CASE x = 42
    <3>1. /\ kbd_proc_data(e.shift, x).shift = After(d.shift, 170)
          /\ kbd_proc_data(e.shift, x).c = Meaning(After(d.shift, 170), 170)
      <4>1. /\ x # 224 /\ ~(x >= 128) /\ x + 128 = 170
            /\ "E0ESC" \in e.shift /\ e.shift \ {"E0ESC"} = d.shift
        BY <2>2, <1>2, <1>4
      <4> QED BY <4>1 DEF kbd_proc_data, After, Meaning
    <3>2. After(d.shift, 170) = d.shift
      BY <2>1 DEF After, SymDiff
    <3>3. \A t : charcode(t, 170) = NO
      BY DEF charcode, ctlmap, shiftmap, normalmap
    <3>4. SwapCase(NO) = NO
      BY DEF SwapCase, NO
    <3> QED BY <3>1, <3>2, <3>3, <3>4 DEF Meaning
  <2>3. CASE x = 170
    <3>1. /\ kbd_proc_data(e.shift, x).shift = d.shift \ shiftcode(170)
          /\ kbd_proc_data(e.shift, x).c = NO
      <4>1. /\ x # 224 /\ x >= 128 /\ "E0ESC" \in e.shift
            /\ e.shift \ (shiftcode(x) \cup {"E0ESC"}) = d.shift \ shiftcode(170)
        BY <2>3, <1>2, <1>4
      <4> QED BY <4>1 DEF kbd_proc_data
    <3> QED BY <3>1, <2>1
  <2> QED BY <2>2, <2>3
<1>6. foresee(e, x) = Entered(e, d.shift, NO)
  BY <1>2, <1>5, ForeseeEnters
<1>7. Entered(e, d.shift, NO) = Entered(d, d.shift, NO)
  BY <1>2 DEF Entered
<1> QED BY <1>3, <1>6, <1>7, ReadyWithout

LEMMA FakesAre ==
  ASSUME NEW key, NEW fake \in FakeShifts(key)
  PROVE  fake = <<>> \/ fake \in Fakes
BY DEF FakeShifts, Fakes

LEMMA StruckCodes ==
  ASSUME NEW d, Ready(d), NEW key \in Keys, NEW fake \in FakeShifts(key)
  PROVE  fake \o make(key) \in Seq(Nat) /\ Fore(d, fake \o make(key)) = Fore(d, make(key))
<1>1. PICK m \in Seq(Nat) : m = make(key)
  BY MakeKey
<1>2. d \in Foreseen
  BY DEF Ready
<1>3. CASE fake = <<>>
  BY <1>1, <1>3, ConcatEmptySeq
<1>4. CASE fake \in Fakes
  <2>1. PICK f \in Seq(Nat) : f = fake /\ Fore(d, f) = d
    <3>1. fake \in Seq(Nat) /\ Fore(d, fake) = d
      BY <1>4, FakesDoNothing, Zenon
    <3> QED BY <3>1
  <2>2. f \o m \in Seq(Nat) /\ Fore(d, f \o m) = Fore(Fore(d, f), m)
    BY <1>2, ForeConcat, ConcatProperties
  <2> QED BY <1>1, <2>1, <2>2
<1> QED BY <1>3, <1>4, FakesAre

LEMMA ReleasedCodes ==
  ASSUME NEW d, Ready(d), NEW key \in Keys, NEW fake \in FakeShifts(key),
         shiftcode(KeyCode(key)) = {}
  PROVE  break(key) \o fake \in Seq(Nat) /\ Fore(d, break(key) \o fake) = d
<1>1. PICK b \in Seq(Nat) : b = break(key) /\ Fore(d, b) = d
  <2>1. Fore(d, break(key)) = Entered(d, d.shift, NO)
    <3>1. d.shift \ shiftcode(KeyCode(key)) = d.shift
      OBVIOUS
    <3> QED BY <3>1, BreakKey
  <2> QED BY <2>1, BreakKey, ReadyWithout
<1>2. d \in Foreseen
  BY DEF Ready
<1>3. CASE fake = <<>>
  BY <1>1, <1>3, ConcatEmptySeq
<1>4. CASE fake \in Fakes
  <2>1. PICK f \in Seq(Nat) : f = fake /\ Fore(d, f) = d
    <3>1. fake \in Seq(Nat) /\ Fore(d, fake) = d
      BY <1>4, FakesDoNothing, Zenon
    <3> QED BY <3>1
  <2>2. b \o f \in Seq(Nat) /\ Fore(d, b \o f) = Fore(Fore(d, b), f)
    BY <1>2, ForeConcat, ConcatProperties
  <2> QED BY <1>1, <2>1, <2>2
<1> QED BY <1>3, <1>4, FakesAre

LEMMA KeyCodesAre ==
  /\ KeyCode("a") = 30 /\ KeyCode("d") = 32 /\ KeyCode("space") = 57 /\ KeyCode("back") = 14
  /\ KeyCode("enter") = 28 /\ KeyCode("pad_enter") = 156 /\ KeyCode("delete") = 211
  /\ KeyCode("caps") = 58 /\ KeyCode("left_shift") = 42 /\ KeyCode("right_shift") = 54
  /\ KeyCode("left_ctl") = 29 /\ KeyCode("right_ctl") = 157
  /\ KeyCode("alt") = 56 /\ KeyCode("right_alt") = 184
BY CodesAre DEF KeyCode, Extended

(* A character key leaves the flags alone, a modifier enters no character. *)
LEMMA CharacterFlags ==
  ASSUME NEW key \in CharKeys, NEW s
  PROVE  shiftcode(KeyCode(key)) = {} /\ After(s, KeyCode(key)) = s
<1>1. KeyCode(key) \in {30, 32, 57, 14, 28, 156, 211}
  BY KeyCodesAre DEF CharKeys
<1>2. shiftcode(KeyCode(key)) = {} /\ togglecode(KeyCode(key)) = {}
  BY <1>1 DEF shiftcode, togglecode
<1> QED BY <1>2 DEF After, SymDiff

LEMMA ModifierFlags ==
  ASSUME NEW key \in ModifierKeys, NEW s
  PROVE  /\ shiftcode(KeyCode(key)) \in SUBSET {"SHIFT", "CTL", "ALT"}
         /\ After(s, KeyCode(key)) = s \cup shiftcode(KeyCode(key))
         /\ \A t : Meaning(t, KeyCode(key)) = NO
<1>1. KeyCode(key) \in {42, 54, 29, 157, 56, 184}
  BY KeyCodesAre DEF ModifierKeys
<1>2. togglecode(KeyCode(key)) = {} /\ shiftcode(KeyCode(key)) \in SUBSET {"SHIFT", "CTL", "ALT"}
  BY <1>1 DEF shiftcode, togglecode
<1>3. \A t : charcode(t, KeyCode(key)) = NO
  BY <1>1 DEF charcode, ctlmap, shiftmap, normalmap
<1>4. SwapCase(NO) = NO
  BY DEF SwapCase, NO
<1> QED BY <1>2, <1>3, <1>4 DEF After, SymDiff, Meaning

LEMMA LockFlags ==
  ASSUME NEW s
  PROVE  After(s, KeyCode("caps")) = SymDiff(s, {"CAPSLOCK"}) /\ \A t : Meaning(t, KeyCode("caps")) = NO
<1>1. KeyCode("caps") = 58
  BY KeyCodesAre
<1>2. togglecode(58) = {"CAPSLOCK"} /\ shiftcode(58) = {}
  BY DEF shiftcode, togglecode
<1>3. \A t : charcode(t, 58) = NO
  BY DEF charcode, ctlmap, shiftmap, normalmap
<1>4. SwapCase(NO) = NO
  BY DEF SwapCase, NO
<1> QED BY <1>1, <1>2, <1>3, <1>4 DEF After, SymDiff, Meaning

(* A character key enters what its cap says.                               *)
LEMMA CharacterMeant ==
  ASSUME NEW key \in CharKeys
  PROVE  /\ Meaning(ahead.shift, KeyCode(key)) = Abstract!Character_of(key)
         /\ Meaning(ahead.shift, KeyCode(key)) \in Chars
         /\ Meaning(ahead.shift, KeyCode(key)) = "DEL" <=> key = "delete"
<1> DEFINE s == ahead.shift
<1>1. /\ "CTL" \in s \cap {"SHIFT", "CTL", "ALT"} <=> "CTL" \in s
      /\ "SHIFT" \in s \cap {"SHIFT", "CTL", "ALT"} <=> "SHIFT" \in s
  OBVIOUS
<1> HIDE DEF s
<1>2. /\ normalmap(30) = "a" /\ shiftmap(30) = "A" /\ ctlmap(30) = "CtlA"
      /\ normalmap(32) = "d" /\ shiftmap(32) = "D" /\ ctlmap(32) = "CtlD"
      /\ normalmap(57) = "SP" /\ shiftmap(57) = "SP" /\ ctlmap(57) = NO
      /\ normalmap(14) = "BS" /\ shiftmap(14) = "BS" /\ ctlmap(14) = NO
      /\ normalmap(28) = "NL" /\ shiftmap(28) = "NL" /\ ctlmap(28) = "CR"
      /\ normalmap(156) = "NL" /\ shiftmap(156) = "NL" /\ ctlmap(156) = NO
      /\ normalmap(211) = "DEL" /\ shiftmap(211) = "DEL" /\ ctlmap(211) = "DEL"
  BY DEF normalmap, shiftmap, ctlmap
<1>3. /\ SwapCase("a") = "A" /\ SwapCase("A") = "a" /\ SwapCase("d") = "D" /\ SwapCase("D") = "d"
      /\ SwapCase("CtlA") = "CtlA" /\ SwapCase("CtlD") = "CtlD" /\ SwapCase("SP") = "SP"
      /\ SwapCase("BS") = "BS" /\ SwapCase("NL") = "NL" /\ SwapCase("CR") = "CR"
      /\ SwapCase("DEL") = "DEL" /\ SwapCase(NO) = NO
  BY DEF SwapCase, NO
<1>4. CASE key \in {"a", "d"}
  <2>1. Abstract!Character_of(key) = IF "CTL" \in s THEN Abstract!Control(key)
                                     ELSE IF ("SHIFT" \in s) # ("CAPSLOCK" \in s) THEN Abstract!Upper(key) ELSE key
    BY <1>1, <1>4 DEF Abstract!Character_of, s
  <2>2. /\ Abstract!Upper("a") = "A" /\ Abstract!Upper("d") = "D"
        /\ Abstract!Control("a") = "CtlA" /\ Abstract!Control("d") = "CtlD"
    BY DEF Abstract!Upper, Abstract!Control
  <2>3. KeyCode("a") = 30 /\ KeyCode("d") = 32
    BY KeyCodesAre
  <2> QED BY <1>2, <1>3, <1>4, <2>1, <2>2, <2>3 DEF Meaning, charcode, s, Chars
<1>5. CASE key \in {"space", "back", "enter", "pad_enter", "delete"}
  <2>1. Abstract!Character_of(key) =
          IF key = "space" THEN IF "CTL" \in s THEN NO ELSE "SP"
          ELSE IF key = "back" THEN IF "CTL" \in s THEN NO ELSE "BS"
          ELSE IF key = "enter" THEN IF "CTL" \in s THEN "CR" ELSE "NL"
          ELSE IF key = "pad_enter" THEN IF "CTL" \in s THEN NO ELSE "NL" ELSE "DEL"
    BY <1>1, <1>5 DEF Abstract!Character_of, s
  <2>2. /\ KeyCode("space") = 57 /\ KeyCode("back") = 14 /\ KeyCode("enter") = 28
        /\ KeyCode("pad_enter") = 156 /\ KeyCode("delete") = 211
    BY KeyCodesAre
  <2> QED BY <1>2, <1>3, <1>5, <2>1, <2>2 DEF Meaning, charcode, s, Chars, NO
<1> QED BY <1>4, <1>5 DEF CharKeys

-----------------------------------------------------------------------------
(* What is ahead is what the waiting codes enter from the current flags,   *)
(* and the codes of a key are never cut apart.                             *)

Now(s, m) == [shift |-> s, reboot |-> m = "reboot", text |-> <<>>]

RInv ==
    /\ com1 \in LineChars \cup {NO}
    /\ kbd \in Seq(Nat) /\ shift \in SUBSET Flags
    /\ ahead \in Foreseen /\ "E0ESC" \notin ahead.shift
    /\ ahead = Fore(Now(shift, mode), kbd)

LEMMA NowIs ==
  ASSUME NEW s \in SUBSET Flags
  PROVE  /\ \A m : m # "reboot" => Now(s, m) = [shift |-> s, reboot |-> FALSE, text |-> <<>>]
         /\ Now(s, "reboot") = [shift |-> s, reboot |-> TRUE, text |-> <<>>]
         /\ \A m : Now(s, m) \in Foreseen
<1>1. \A m : m # "reboot" => Now(s, m) = [shift |-> s, reboot |-> FALSE, text |-> <<>>]
  BY DEF Now
<1>2. Now(s, "reboot") = [shift |-> s, reboot |-> TRUE, text |-> <<>>]
  BY DEF Now
<1>3. <<>> \in Seq(Chars)
  OBVIOUS
<1>4. [shift |-> s, reboot |-> FALSE, text |-> <<>>] \in Foreseen
  BY <1>3 DEF Foreseen
<1>5. [shift |-> s, reboot |-> TRUE, text |-> <<>>] \in Foreseen
  BY <1>3 DEF Foreseen
<1>6. \A m : Now(s, m) \in Foreseen
  BY <1>1, <1>2, <1>4, <1>5
<1> QED BY <1>1, <1>2, <1>6

LEMMA InitAhead == Init => RInv
<1> SUFFICES ASSUME Init PROVE RInv
  OBVIOUS
<1>1. {} \in SUBSET Flags /\ mode # "reboot"
  BY DEF Init
<1>2. Now(shift, mode) = [shift |-> {}, reboot |-> FALSE, text |-> <<>>] /\ Now(shift, mode) \in Foreseen
  BY <1>1, NowIs DEF Init
<1>3. Fore(Now(shift, mode), <<>>) = Now(shift, mode)
  BY <1>2, ForeEmpty
<1>4. <<>> \in Seq(Nat)
  OBVIOUS
<1> QED BY <1>1, <1>2, <1>3, <1>4 DEF Init, RInv

(* The codes of a key that leave the flags s and enter c.                  *)
LEMMA Typed ==
  ASSUME RInv, Outside, NEW codes \in Seq(Nat), Emit(codes), com1' \in LineChars \cup {NO},
         NEW s \in SUBSET Flags, "E0ESC" \notin s, NEW c \in Chars,
         Ready(ahead) => Fore(ahead, codes) = Entered(ahead, s, c)
  PROVE  RInv' /\ ahead' = IF ahead.reboot THEN ahead ELSE Entered(ahead, s, c)
<1>1. ahead \in Foreseen /\ kbd \in Seq(Nat) /\ shift \in SUBSET Flags /\ "E0ESC" \notin ahead.shift
  BY DEF RInv
<1>2. ahead' = Fore(ahead, codes) /\ kbd' = kbd \o codes /\ shift' = shift /\ mode' = mode
  BY DEF Emit, Fore, Outside
<1>3. Now(shift, mode) \in Foreseen /\ ahead = Fore(Now(shift, mode), kbd)
  BY <1>1, NowIs DEF RInv
<1>4. ahead' = Fore(Now(shift', mode'), kbd')
  BY <1>1, <1>2, <1>3, ForeConcat
<1>5. ahead' \in Foreseen /\ kbd' \in Seq(Nat)
  BY <1>1, <1>2, ForeType, ConcatProperties
<1>6. ahead' = IF ahead.reboot THEN ahead ELSE Entered(ahead, s, c)
  <2>1. CASE ahead.reboot
    BY <1>1, <1>2, <2>1, ForeStops
  <2>2. CASE ~ahead.reboot
    BY <1>1, <1>2, <2>2 DEF Ready
  <2> QED BY <2>1, <2>2
<1>7. "E0ESC" \notin ahead'.shift
  BY <1>1, <1>6 DEF Entered
<1> QED BY <1>1, <1>2, <1>4, <1>5, <1>6, <1>7 DEF RInv

(* The codes of a key are codes.                                           *)
LEMMA CodesType ==
  ASSUME NEW key \in Keys
  PROVE  /\ make(key) \in Seq(Nat) /\ break(key) \in Seq(Nat)
         /\ \A fake \in FakeShifts(key) :
              fake \o make(key) \in Seq(Nat) /\ (key \in CharKeys => break(key) \o fake \in Seq(Nat))
<1>1. PICK d : Ready(d)
  <2>1. <<>> \in Seq(Chars)
    OBVIOUS
  <2>2. Ready([shift |-> {}, reboot |-> FALSE, text |-> <<>>])
    BY <2>1 DEF Ready, Foreseen
  <2> QED BY <2>2
<1>2. ASSUME NEW fake \in FakeShifts(key)
      PROVE  fake \o make(key) \in Seq(Nat) /\ (key \in CharKeys => break(key) \o fake \in Seq(Nat))
  BY <1>1, CharacterFlags, StruckCodes, ReleasedCodes
<1> QED BY <1>1, <1>2, MakeKey, BreakKey

LEMMA StrikeTypes ==
  ASSUME RInv, NEW key \in CharKeys, Strike(key)
  PROVE  /\ RInv' /\ Abstract!Character_of(key) \in Chars
         /\ Abstract!Character_of(key) = "DEL" <=> key = "delete"
         /\ ahead' = IF ahead.reboot THEN ahead
                     ELSE Entered(ahead, ahead.shift, Abstract!Character_of(key))
<1>1. key \in Keys
  BY DEF Keys
<1>2. PICK c \in Chars : c = Abstract!Character_of(key) /\ (c = "DEL" <=> key = "delete")
                         /\ c = Meaning(ahead.shift, KeyCode(key))
  BY CharacterMeant
<1>3. PICK fake \in FakeShifts(key) : Emit(fake \o make(key))
  BY DEF Strike
<1>4. PICK codes \in Seq(Nat) : codes = fake \o make(key)
  BY <1>1, CodesType
<1>5. ASSUME Ready(ahead) PROVE Fore(ahead, codes) = Entered(ahead, ahead.shift, c)
  <2>1. Fore(ahead, codes) = Fore(ahead, make(key))
    BY <1>1, <1>4, <1>5, StruckCodes
  <2>2. Fore(ahead, make(key)) = Entered(ahead, After(ahead.shift, KeyCode(key)),
                                         Meaning(After(ahead.shift, KeyCode(key)), KeyCode(key)))
    BY <1>1, <1>5, MakeKey
  <2>3. After(ahead.shift, KeyCode(key)) = ahead.shift
    BY CharacterFlags
  <2> QED BY <1>2, <2>1, <2>2, <2>3
<1>6. Outside /\ com1' \in LineChars \cup {NO} /\ ahead.shift \in SUBSET Flags /\ "E0ESC" \notin ahead.shift
  BY DEF Strike, RInv, Foreseen
<1>7. RInv' /\ ahead' = IF ahead.reboot THEN ahead ELSE Entered(ahead, ahead.shift, c)
  BY <1>3, <1>4, <1>5, <1>6, Typed
<1> QED BY <1>2, <1>7

LEMMA LockTypes ==
  ASSUME RInv, Strike("caps")
  PROVE  /\ RInv'
         /\ ahead' = IF ahead.reboot THEN ahead
                     ELSE Entered(ahead, SymDiff(ahead.shift, {"CAPSLOCK"}), NO)
<1>1. PICK key \in Keys : key = "caps"
  BY DEF Keys
<1>2. PICK s \in SUBSET Flags : s = SymDiff(ahead.shift, {"CAPSLOCK"}) /\ "E0ESC" \notin s
  <2>1. SymDiff(ahead.shift, {"CAPSLOCK"}) \in SUBSET Flags
    BY DEF RInv, Foreseen, Flags, SymDiff
  <2>2. "E0ESC" \notin SymDiff(ahead.shift, {"CAPSLOCK"})
    BY DEF RInv, SymDiff
  <2> QED BY <2>1, <2>2, Zenon
<1>3. PICK fake \in FakeShifts(key) : Emit(fake \o make(key))
  BY <1>1 DEF Strike
<1>4. PICK codes \in Seq(Nat) : codes = fake \o make(key)
  BY CodesType
<1>5. ASSUME Ready(ahead) PROVE Fore(ahead, codes) = Entered(ahead, s, NO)
  <2>1. Fore(ahead, codes) = Fore(ahead, make(key))
    BY <1>4, <1>5, StruckCodes
  <2>2. Fore(ahead, make(key)) = Entered(ahead, After(ahead.shift, KeyCode(key)),
                                         Meaning(After(ahead.shift, KeyCode(key)), KeyCode(key)))
    BY <1>5, MakeKey
  <2> QED BY <1>1, <1>2, <2>1, <2>2, LockFlags
<1>6. Outside /\ com1' \in LineChars \cup {NO} /\ NO \in Chars
  BY CharsAre DEF Strike, RInv
<1> QED BY <1>2, <1>3, <1>4, <1>5, <1>6, Typed

LEMMA ReleaseTypes ==
  ASSUME RInv, NEW key \in CharKeys, Release(key)
  PROVE  RInv' /\ ahead' = ahead
<1>1. key \in Keys
  BY DEF Keys
<1>3. PICK fake \in FakeShifts(key) : Emit(break(key) \o fake)
  BY DEF Release
<1>4. PICK codes \in Seq(Nat) : codes = break(key) \o fake
  BY <1>1, CodesType
<1>5. ASSUME Ready(ahead) PROVE Fore(ahead, codes) = Entered(ahead, ahead.shift, NO)
  <2>1. Fore(ahead, codes) = ahead
    BY <1>1, <1>4, <1>5, CharacterFlags, ReleasedCodes
  <2> QED BY <2>1, <1>5, ReadyWithout
<1>6. /\ Outside /\ com1' \in LineChars \cup {NO} /\ NO \in Chars
      /\ ahead \in Foreseen /\ ahead.shift \in SUBSET Flags /\ "E0ESC" \notin ahead.shift
  BY CharsAre DEF Release, RInv, Foreseen
<1>7. RInv' /\ ahead' = IF ahead.reboot THEN ahead ELSE Entered(ahead, ahead.shift, NO)
  BY <1>3, <1>4, <1>5, <1>6, Typed
<1>8. ~ahead.reboot => ahead = Entered(ahead, ahead.shift, NO)
  BY <1>6, ReadyWithout DEF Ready
<1> QED BY <1>7, <1>8

LEMMA ModifierTypes ==
  ASSUME RInv, NEW key \in ModifierKeys, Press(key) \/ LetGo(key)
  PROVE  /\ RInv'
         /\ \E s \in SUBSET Flags :
              /\ "CAPSLOCK" \in s <=> "CAPSLOCK" \in ahead.shift
              /\ ahead' = IF ahead.reboot THEN ahead ELSE Entered(ahead, s, NO)
<1>1. key \in Keys
  BY DEF Keys
<1>2. PICK codes \in {make(key), break(key)} : Emit(codes)
  BY DEF Press, LetGo
<1>3. codes \in Seq(Nat)
  BY <1>1, <1>2, CodesType
<1>4. PICK m \in SUBSET {"SHIFT", "CTL", "ALT"} : m = shiftcode(KeyCode(key))
  BY ModifierFlags
<1>5. PICK s \in SUBSET Flags :
         /\ "E0ESC" \notin s /\ ("CAPSLOCK" \in s <=> "CAPSLOCK" \in ahead.shift)
         /\ Ready(ahead) => Fore(ahead, codes) = Entered(ahead, s, NO)
  <2>1. CASE codes = make(key)
    <3>1. PICK s \in SUBSET Flags : s = ahead.shift \cup m
      BY DEF RInv, Foreseen, Flags
    <3>2. "E0ESC" \notin s /\ ("CAPSLOCK" \in s <=> "CAPSLOCK" \in ahead.shift)
      BY <3>1 DEF RInv
    <3>3. ASSUME Ready(ahead) PROVE Fore(ahead, make(key)) = Entered(ahead, s, NO)
      <4>1. Fore(ahead, make(key)) = Entered(ahead, After(ahead.shift, KeyCode(key)),
                                             Meaning(After(ahead.shift, KeyCode(key)), KeyCode(key)))
        BY <1>1, <3>3, MakeKey
      <4> QED BY <4>1, <1>4, <3>1, ModifierFlags
    <3> QED BY <2>1, <3>2, <3>3
  <2>2. CASE codes = break(key)
    <3>1. PICK s \in SUBSET Flags : s = ahead.shift \ m
      BY DEF RInv, Foreseen
    <3>2. "E0ESC" \notin s /\ ("CAPSLOCK" \in s <=> "CAPSLOCK" \in ahead.shift)
      BY <3>1 DEF RInv
    <3>3. ASSUME Ready(ahead) PROVE Fore(ahead, break(key)) = Entered(ahead, s, NO)
      BY <1>1, <1>4, <3>1, <3>3, BreakKey
    <3> QED BY <2>2, <3>2, <3>3
  <2> QED BY <1>2, <2>1, <2>2
<1>6. Outside /\ com1' \in LineChars \cup {NO} /\ NO \in Chars
  BY CharsAre DEF Press, LetGo, RInv
<1>7. RInv' /\ ahead' = IF ahead.reboot THEN ahead ELSE Entered(ahead, s, NO)
  BY <1>2, <1>3, <1>5, <1>6, Typed
<1> QED BY <1>5, <1>7

LEMMA FirstAndRest ==
  ASSUME NEW c \in Chars, NEW s \in Seq(Chars)
  PROVE  /\ <<c>> \o s \in Seq(Chars) /\ <<c>> \o s # <<>>
         /\ Tail(<<c>> \o s) = s
<1>1. PICK one \in Seq(Chars) : one = <<c>> /\ Len(one) = 1 /\ one[1] = c
  <2>1. <<c>> \in Seq(Chars) /\ Len(<<c>>) = 1 /\ <<c>>[1] = c
    OBVIOUS
  <2> QED BY <2>1, Zenon
<1>2. PICK n \in Nat : n = Len(s)
  BY LenProperties
<1>3. PICK u \in Seq(Chars) : /\ u = one \o s /\ Len(u) = n + 1
                              /\ \A i \in 1 .. n : u[i + 1] = s[i]
  <2>1. one \o s \in Seq(Chars) /\ Len(one \o s) = n + 1
    BY <1>1, <1>2, ConcatProperties
  <2>2. ASSUME NEW i \in 1 .. n PROVE (one \o s)[i + 1] = s[i]
    <3>1. i + 1 \in 1 .. Len(one) + Len(s) /\ ~(i + 1 <= Len(one)) /\ i + 1 - Len(one) = i
      BY <1>1, <1>2
    <3> QED BY <3>1, ConcatProperties
  <2> QED BY <2>1, <2>2
<1>4. u # <<>>
  BY <1>3, EmptySeq
<1>5. PICK t \in Seq(Chars) : t = Tail(u) /\ Len(t) = n /\ \A i \in 1 .. n : t[i] = u[i + 1]
  <2>1. Tail(u) \in Seq(Chars) /\ Len(Tail(u)) = n /\ \A i \in 1 .. n : Tail(u)[i] = u[i + 1]
    BY <1>3, <1>4, HeadTailProperties
  <2> QED BY <2>1, Zenon
<1>6. t = s
  BY <1>2, <1>3, <1>5, SeqEqual
<1> QED BY <1>1, <1>3, <1>4, <1>5, <1>6

(* The oldest waiting code is read: what it enters was foreseen.           *)
LEMMA CodeRead ==
  ASSUME RInv, kbd_intr
  PROVE  LET c == kbd_proc_data(shift, Head(kbd)).c IN
         /\ RInv'
         /\ ahead'.shift = ahead.shift /\ ahead'.reboot = ahead.reboot
         /\ IF c = NO THEN ahead'.text = ahead.text ELSE ahead.text = <<c>> \o ahead'.text
<1> DEFINE r == kbd_proc_data(shift, Head(kbd))
<1>1. /\ kbd \in Seq(Nat) /\ kbd # <<>> /\ mode = "kbd" /\ mode # "reboot" /\ shift \in SUBSET Flags
      /\ shift' = r.shift /\ mode' = (IF Reboots(r) THEN "reboot" ELSE mode) /\ kbd' = Tail(kbd)
      /\ ahead' = (IF r.c = NO THEN ahead ELSE [ahead EXCEPT !.text = Tail(@)])
      /\ com1' = com1
  BY DEF kbd_intr, RInv
<1>2. PICK x \in Nat, rest \in Seq(Nat) : x = Head(kbd) /\ rest = kbd'
  BY <1>1, HeadTailProperties
<1>3. r = kbd_proc_data(shift, x)
  BY <1>2
<1>4. r.shift \in SUBSET Flags /\ r.c \in Chars
  BY <1>1, <1>3, FlagsStay, KeysAreChars
<1> HIDE DEF r
<1>5. PICK d \in Foreseen : d = Now(shift, mode) /\ d = [shift |-> shift, reboot |-> FALSE, text |-> <<>>]
  BY <1>1, NowIs
<1>6. PICK d2 \in Foreseen : /\ d2 = Now(shift', mode') /\ d2.shift = r.shift
                             /\ d2.reboot = Reboots(r) /\ d2.text = <<>>
  <2>1. Now(shift', mode') \in Foreseen
    BY <1>1, <1>4, NowIs
  <2>2. PICK q \in Foreseen : q = Now(shift', mode')
    BY <2>1
  <2>3. q.shift = r.shift /\ q.reboot = Reboots(r) /\ q.text = <<>>
    <3>1. CASE Reboots(r)
      <4>1. q = [shift |-> r.shift, reboot |-> TRUE, text |-> <<>>]
        BY <1>1, <1>4, <2>2, <3>1, NowIs
      <4>2. Reboots(r) = TRUE
        BY <3>1 DEF Reboots
      <4> QED BY <4>1, <4>2
    <3>2. CASE ~Reboots(r)
      <4>1. q = [shift |-> r.shift, reboot |-> FALSE, text |-> <<>>]
        BY <1>1, <1>4, <2>2, <3>2, NowIs
      <4>2. Reboots(r) = FALSE
        BY <3>2 DEF Reboots
      <4> QED BY <4>1, <4>2
    <3> QED BY <3>1, <3>2
  <2> QED BY <2>2, <2>3, Zenon
<1>7. PICK text \in Seq(Chars) : text = IF r.c = NO THEN <<>> ELSE <<r.c>>
  <2>1. <<>> \in Seq(Chars) /\ <<r.c>> \in Seq(Chars)
    BY <1>4
  <2> QED BY <2>1
<1>8. foresee(d, x) = With(d2, text)
  <2>1. foresee(d, x) = [shift |-> r.shift, reboot |-> Reboots(r),
                         text |-> IF r.c = NO THEN d.text ELSE Append(d.text, r.c)]
    BY <1>3, <1>5 DEF foresee
  <2>2. d.text = <<>> /\ Append(<<>>, r.c) = <<r.c>>
    BY <1>4, <1>5
  <2>3. With(d2, text) = [shift |-> r.shift, reboot |-> Reboots(r), text |-> text]
    <3>1. text \o <<>> = text
      BY ConcatEmptySeq
    <3> QED BY <3>1, <1>6 DEF With
  <2> QED BY <1>7, <2>1, <2>2, <2>3
<1>9. PICK n \in Foreseen : n = Fore(d2, rest)
  BY ForeType
<1>10. ahead = With(n, text)
  <2>1. ahead = Fore(d, kbd)
    BY <1>5 DEF RInv
  <2>2. Fore(d, kbd) = Fore(foresee(d, Head(kbd)), Tail(kbd))
    BY <1>1, ForeFirst
  <2>3. Fore(With(d2, text), rest) = With(Fore(d2, rest), text)
    BY ForeWith
  <2> QED BY <1>1, <1>2, <1>8, <1>9, <2>1, <2>2, <2>3
<1>11. n.text \in Seq(Chars) /\ n = [shift |-> n.shift, reboot |-> n.reboot, text |-> n.text]
  BY DEF Foreseen
<1>12. ahead' = n /\ IF r.c = NO THEN ahead.text = n.text ELSE ahead.text = <<r.c>> \o n.text
  <2>1. CASE r.c = NO
    <3>1. ahead = n
      <4>1. <<>> \o n.text = n.text
        BY <1>11, ConcatEmptySeq
      <4> QED BY <4>1, <2>1, <1>7, <1>10, <1>11 DEF With
    <3> QED BY <3>1, <2>1, <1>1
  <2>2. CASE r.c # NO
    <3>1. ahead = [shift |-> n.shift, reboot |-> n.reboot, text |-> <<r.c>> \o n.text]
      BY <2>2, <1>7, <1>10 DEF With
    <3>2. Tail(<<r.c>> \o n.text) = n.text
      BY <1>4, <1>11, FirstAndRest
    <3>3. ahead' = [shift |-> n.shift, reboot |-> n.reboot, text |-> n.text]
      BY <1>1, <2>2, <3>1, <3>2
    <3> QED BY <2>2, <3>1, <3>3, <1>11
  <2> QED BY <2>1, <2>2
<1>13. ahead.shift = n.shift /\ ahead.reboot = n.reboot
  BY <1>10 DEF With
<1>14. RInv'
  <2>1. ahead' = Fore(Now(shift', mode'), kbd')
    BY <1>2, <1>6, <1>9, <1>12
  <2>2. "E0ESC" \notin ahead'.shift
    BY <1>12, <1>13 DEF RInv
  <2> QED BY <2>1, <2>2, <1>1, <1>2, <1>4, <1>12 DEF RInv
<1> QED BY <1>12, <1>13, <1>14 DEF r

(* The other steps of the kernel read no scan code.                        *)
LEMMA NoCodeRead ==
  ASSUME RInv, UNCHANGED <<kbd, shift, ahead>>, mode # "reboot", mode' # "reboot",
         com1' \in LineChars \cup {NO}
  PROVE  RInv'
<1>1. Now(shift', mode') = Now(shift, mode)
  BY NowIs DEF RInv
<1> QED BY <1>1 DEF RInv

LEMMA EditMode ==
  ASSUME NEW c, edit(c)
  PROVE  mode' # "reboot"
BY DEF edit

LEMMA NextAhead == EInv /\ RInv /\ [Next]_vars => RInv'
<1> SUFFICES ASSUME EInv, RInv, [Next]_vars PROVE RInv'
  OBVIOUS
<1>1. ASSUME NEW key \in scenario.keys \cap (CharKeys \cup {"caps"}), Strike(key) PROVE RInv'
  BY <1>1, StrikeTypes, LockTypes
<1>2. ASSUME NEW key \in scenario.keys \cap Extended \cap CharKeys, Release(key) PROVE RInv'
  BY <1>2, ReleaseTypes
<1>3. ASSUME NEW key \in scenario.keys \cap ModifierKeys, Press(key) \/ LetGo(key) PROVE RInv'
  BY <1>3, ModifierTypes
<1>4. ASSUME NEW c \in scenario.line, Arrive(c) PROVE RInv'
  <2>1. c \in LineChars
    BY <1>4, ConsoleAssumption DEF EInv
  <2> QED BY <2>1, <1>4, NoCodeRead DEF Arrive, Outside
<1>5. CASE serial_intr
  BY <1>5, NoCodeRead DEF serial_intr
<1>6. CASE kbd_intr
  BY <1>6, CodeRead
<1>7. CASE Nothing
  BY <1>7, NoCodeRead DEF Nothing, devices, RInv
<1>8. CASE readline
  BY <1>8, EditMode, NoCodeRead DEF readline, devices, RInv
<1>9. CASE monitor
  BY <1>9, NoCodeRead DEF monitor, devices, RInv
<1>10. CASE UNCHANGED vars
  BY <1>10 DEF vars, devices, RInv
<1> QED BY <1>1, <1>2, <1>3, <1>4, <1>5, <1>6, <1>7, <1>8, <1>9, <1>10 DEF Next, User, Kernel

(* The flags and the codes that wait agree with what was promised for them.*)
THEOREM CodesAreForeseen == Spec => []RInv
<1> QED BY InitAhead, NextAhead, ConsoleInvariant, PTL DEF Spec

-----------------------------------------------------------------------------
(* The console implements the typewriter.                                  *)

LEMMA QueueParts ==
  ASSUME EInv, RInv
  PROVE  /\ Unread = Ring(buf, rpos, wpos) /\ Unread \in Seq(Chars)
         /\ ahead.text \in Seq(Chars) /\ ahead.shift \in SUBSET Flags
<1>1. Unread = Ring(buf, rpos, wpos)
  BY DEF Unread, Ring
<1> QED BY <1>1, RingValues DEF EInv, RInv, Foreseen

(* Two sequences in a row, and where the second begins.                    *)
LEMMA Halves ==
  ASSUME NEW s \in Seq(Chars), NEW t \in Seq(Chars)
  PROVE  /\ Len(s) \in 0 .. Len(s \o t)
         /\ SubSeq(s \o t, 1, Len(s)) = s
         /\ SubSeq(s \o t, Len(s) + 1, Len(s \o t)) = t
<1>1. PICK m \in Nat, n \in Nat : m = Len(s) /\ n = Len(t)
  BY LenProperties
<1>2. PICK u \in Seq(Chars) : u = s \o t /\ Len(u) = m + n
  BY <1>1, ConcatProperties
<1>3. \A i \in 1 .. m + n : u[i] = IF i <= m THEN s[i] ELSE t[i - m]
  BY <1>1, <1>2, ConcatProperties
<1>4. \A i \in 1 .. m + n : u[i] \in Chars
  BY <1>2, ElementOfSeq
<1>5. SubSeq(u, 1, m) = s
  <2>1. \A i \in 1 .. m : u[i] \in Chars
    BY <1>1, <1>4
  <2>2. PICK v \in Seq(Chars) : v = SubSeq(u, 1, m) /\ Len(v) = m /\ \A i \in 1 .. m : v[i] = u[i]
    <3>1. /\ SubSeq(u, 1, m) \in Seq(Chars)
          /\ Len(SubSeq(u, 1, m)) = IF 1 <= m THEN m - 1 + 1 ELSE 0
          /\ \A i \in 1 .. m - 1 + 1 : SubSeq(u, 1, m)[i] = u[1 + i - 1]
      BY <1>1, <2>1, SubSeqProperties
    <3>2. Len(SubSeq(u, 1, m)) = m
      BY <3>1, <1>1
    <3>3. \A i \in 1 .. m : SubSeq(u, 1, m)[i] = u[i]
      <4>1. ASSUME NEW i \in 1 .. m PROVE SubSeq(u, 1, m)[i] = u[i]
        <5>1. i \in 1 .. m - 1 + 1 /\ 1 + i - 1 = i
          BY <1>1
        <5> QED BY <5>1, <3>1
      <4> QED BY <4>1
    <3> QED BY <3>1, <3>2, <3>3, Zenon
  <2>3. \A i \in 1 .. m : v[i] = s[i]
    BY <1>1, <1>3, <2>2
  <2> QED BY <1>1, <2>2, <2>3, SeqEqual
<1>6. SubSeq(u, m + 1, m + n) = t
  <2>1. \A i \in m + 1 .. m + n : u[i] \in Chars
    BY <1>1, <1>4
  <2>2. PICK v \in Seq(Chars) : v = SubSeq(u, m + 1, m + n) /\ Len(v) = n /\ \A i \in 1 .. n : v[i] = u[m + i]
    <3>0. PICK a \in Int, b \in Int : a = m + 1 /\ b = m + n
      BY <1>1
    <3>1. /\ SubSeq(u, a, b) \in Seq(Chars)
          /\ Len(SubSeq(u, a, b)) = IF a <= b THEN b - a + 1 ELSE 0
          /\ \A i \in 1 .. b - a + 1 : SubSeq(u, a, b)[i] = u[a + i - 1]
      BY <2>1, <3>0, SubSeqProperties
    <3>2. Len(SubSeq(u, a, b)) = n
      BY <3>0, <3>1, <1>1
    <3>3. \A i \in 1 .. n : SubSeq(u, a, b)[i] = u[m + i]
      <4>1. ASSUME NEW i \in 1 .. n PROVE SubSeq(u, a, b)[i] = u[m + i]
        <5>1. i \in 1 .. b - a + 1 /\ a + i - 1 = m + i
          BY <3>0, <1>1
        <5> QED BY <5>1, <3>1
      <4> QED BY <4>1
    <3> QED BY <3>0, <3>1, <3>2, <3>3, Zenon
  <2>3. ASSUME NEW i \in 1 .. n PROVE v[i] = t[i]
    <3>1. PICK k \in Int : k = m + i
      BY <1>1
    <3>2. k \in 1 .. m + n /\ ~(k <= m) /\ k - m = i
      BY <1>1, <3>1
    <3>3. u[k] = t[i]
      BY <1>3, <3>2
    <3> QED BY <2>2, <3>1, <3>3
  <2> QED BY <1>1, <2>2, <2>3, SeqEqual
<1>7. m \in 0 .. m + n
  BY <1>1
<1> QED BY <1>1, <1>2, <1>5, <1>6, <1>7

LEMMA TailOfConcat ==
  ASSUME NEW s \in Seq(Chars), s # <<>>, NEW t \in Seq(Chars)
  PROVE  s \o t # <<>> /\ Tail(s \o t) = Tail(s) \o t
<1>1. PICK c \in Chars, r \in Seq(Chars) : s = <<c>> \o r /\ r = Tail(s)
  <2>1. PICK n \in Nat : n = Len(s) /\ 1 <= n
    <3>1. Len(s) \in Nat \ {0}
      BY EmptySeq
    <3> QED BY <3>1
  <2>2. Tail(s) = SubSeq(s, 2, Len(s))
    BY TailIsSubSeq
  <2>3. 1 \in 1 .. Len(s) /\ Len(s) \in 1 .. Len(s) /\ 1 + 1 = 2
    BY <2>1
  <2>4. SubSeq(s, 1, Len(s)) = <<s[1]>> \o SubSeq(s, 1 + 1, Len(s))
    BY <2>3, SubSeqRecursiveFirst
  <2>5. SubSeq(s, 1, Len(s)) = s
    BY SubSeqFull
  <2>6. s[1] \in Chars /\ Tail(s) \in Seq(Chars)
    BY <2>3, ElementOfSeq, HeadTailProperties
  <2>7. s = <<s[1]>> \o Tail(s)
    BY <2>2, <2>3, <2>4, <2>5
  <2> QED BY <2>6, <2>7, Zenon
<1>2. PICK one \in Seq(Chars) : one = <<c>>
  <2>1. <<c>> \in Seq(Chars)
    OBVIOUS
  <2> QED BY <2>1, Zenon
<1>3. r \o t \in Seq(Chars)
  BY ConcatProperties
<1>4. (one \o r) \o t = one \o (r \o t)
  BY ConcatAssociative
<1>5. <<c>> \o (r \o t) # <<>> /\ Tail(<<c>> \o (r \o t)) = r \o t
  BY <1>3, FirstAndRest
<1> QED BY <1>1, <1>2, <1>4, <1>5

(* What a character does to the queue of the unread.                       *)
LEMMA CharacterIn ==
  ASSUME EInv, RInv, NEW c \in Chars, c # NO, cons_intr(c)
  PROVE  \/ Len(Unread) = CONSBUFSIZE - 1 /\ Unread' = <<>>
         \/ Unread' = Append(Unread, c)
<1>1. buf' = [buf EXCEPT ![wpos] = c] /\ wpos' = (wpos + 1) % CONSBUFSIZE /\ rpos' = rpos
  BY DEF cons_intr
<1>2. Unread' = Ring(buf', rpos', wpos')
  BY DEF Unread, Ring
<1>3. /\ buf \in [0 .. CONSBUFSIZE - 1 -> Chars]
      /\ rpos \in 0 .. CONSBUFSIZE - 1 /\ wpos \in 0 .. CONSBUFSIZE - 1
  BY DEF EInv
<1>4. \/ Len(Ring(buf, rpos, wpos)) = CONSBUFSIZE - 1 /\ Ring(buf', rpos', wpos') = <<>>
      \/ Ring(buf', rpos', wpos') = Append(Ring(buf, rpos, wpos), c)
  BY <1>1, <1>3, RingPut
<1> QED BY <1>2, <1>4, QueueParts

LEMMA InitTypewriter == Init => Abstract!Init
<1> SUFFICES ASSUME Init PROVE Abstract!Init
  OBVIOUS
<1>1. EInv /\ RInv
  BY InitEcho, InitAhead
<1>2. Len(Unread) = 0
  <2>1. rpos = wpos /\ rpos \in 0 .. CONSBUFSIZE - 1 /\ CONSBUFSIZE \in Nat
    BY <1>1, ConsoleAssumption DEF Init, EInv
  <2>2. Count(rpos, wpos) = 0
    BY <2>1 DEF Count
  <2>3. Len(Ring(buf, rpos, wpos)) = Count(rpos, wpos)
    BY <1>1, RingValues DEF EInv
  <2> QED BY <2>2, <2>3, <1>1, QueueParts
<1>3. Unread = <<>>
  BY <1>1, <1>2, QueueParts, EmptySeq
<1>4. ahead.text = <<>> /\ ahead.shift = {} /\ ahead.reboot = FALSE
  BY DEF Init
<1>5. Unread \o ahead.text = <<>>
  BY <1>3, <1>4
<1> QED BY <1>4, <1>5 DEF Abstract!Init

(* The user: a key enters its character behind everything else.            *)
LEMMA UserKeeps ==
  ASSUME Outside
  PROVE  Unread' = Unread
BY DEF Outside, cons, Unread

LEMMA StrikeStep ==
  ASSUME EInv, RInv, NEW key \in CharKeys, Strike(key)
  PROVE  Abstract!Strike(key) \/ UNCHANGED Abstract!vars
<1>1. Unread' = Unread
  BY UserKeeps DEF Strike
<1>2. PICK c \in Chars : /\ c = Abstract!Character_of(key) /\ (c = "DEL" <=> key = "delete")
                         /\ ahead' = IF ahead.reboot THEN ahead ELSE Entered(ahead, ahead.shift, c)
  <2>1. /\ Abstract!Character_of(key) \in Chars
        /\ Abstract!Character_of(key) = "DEL" <=> key = "delete"
        /\ ahead' = IF ahead.reboot THEN ahead ELSE Entered(ahead, ahead.shift, Abstract!Character_of(key))
    BY StrikeTypes
  <2> QED BY <2>1, Zenon
<1>3. CASE ahead.reboot
  <2>1. ahead' = ahead
    BY <1>2, <1>3
  <2> QED BY <1>1, <2>1, Zenon DEF Abstract!vars
<1>4. CASE ~ahead.reboot
  <2>1. /\ ahead'.shift = ahead.shift
        /\ ahead'.reboot = ({"CTL", "ALT"} \subseteq ahead.shift /\ c = "DEL")
        /\ ahead'.text = IF c = NO THEN ahead.text ELSE Append(ahead.text, c)
    BY <1>2, <1>4 DEF Entered
  <2>2. Unread \o Append(ahead.text, c) = Append(Unread \o ahead.text, c)
    <3>1. PICK q \in Seq(Chars), s \in Seq(Chars) : q = Unread /\ s = ahead.text
      BY QueueParts
    <3>2. PICK one \in Seq(Chars) : one = <<c>>
      <4>1. <<c>> \in Seq(Chars)
        OBVIOUS
      <4> QED BY <4>1, Zenon
    <3>3. q \o s \in Seq(Chars)
      BY ConcatProperties
    <3>4. Append(s, c) = s \o one /\ Append(q \o s, c) = (q \o s) \o one
      BY <3>2, <3>3, AppendIsConcat
    <3>5. (q \o s) \o one = q \o (s \o one)
      BY ConcatAssociative, SMTT(30)
    <3> QED BY <3>1, <3>4, <3>5
  <2>3. (Unread \o ahead.text)' = IF Abstract!Character_of(key) = NO THEN Unread \o ahead.text
                                  ELSE Append(Unread \o ahead.text, Abstract!Character_of(key))
    BY <1>1, <1>2, <2>1, <2>2
  <2>4. (~ahead.reboot)' = ~(key = "delete" /\ {"CTL", "ALT"} \subseteq ahead.shift \cap {"SHIFT", "CTL", "ALT"})
    <3>1. {"CTL", "ALT"} \subseteq ahead.shift \cap {"SHIFT", "CTL", "ALT"} <=> {"CTL", "ALT"} \subseteq ahead.shift
      OBVIOUS
    <3>2. ahead'.reboot <=> {"CTL", "ALT"} \subseteq ahead.shift /\ key = "delete"
      BY <1>2, <2>1
    <3> QED BY <3>1, <3>2
  <2>5. /\ (ahead.shift \cap {"SHIFT", "CTL", "ALT"})' = ahead.shift \cap {"SHIFT", "CTL", "ALT"}
        /\ ("CAPSLOCK" \in ahead.shift)' = ("CAPSLOCK" \in ahead.shift)
    BY <2>1
  <2> QED BY <1>4, <2>3, <2>4, <2>5, Zenon DEF Abstract!Strike
<1> QED BY <1>3, <1>4

(* A key that enters nothing.                                              *)
LEMMA NothingEntered ==
  ASSUME Outside, RInv, ~ahead.reboot, NEW s \in SUBSET Flags, ahead' = Entered(ahead, s, NO)
  PROVE  /\ (Unread \o ahead.text)' = Unread \o ahead.text
         /\ ahead'.shift = s /\ (~ahead.reboot)' = ~ahead.reboot
<1>1. Unread' = Unread
  BY UserKeeps
<1>2. Entered(ahead, s, NO) = [shift |-> s, reboot |-> FALSE, text |-> ahead.text]
  BY EnteredNothing DEF RInv
<1> QED BY <1>1, <1>2

LEMMA LockStep ==
  ASSUME EInv, RInv, Strike("caps")
  PROVE  Abstract!Lock \/ UNCHANGED Abstract!vars
<1>1. Outside /\ ahead.shift \in SUBSET Flags
  BY QueueParts DEF Strike
<1>2. PICK s \in SUBSET Flags : /\ s = SymDiff(ahead.shift, {"CAPSLOCK"})
                                /\ ahead' = IF ahead.reboot THEN ahead ELSE Entered(ahead, s, NO)
  <2>1. SymDiff(ahead.shift, {"CAPSLOCK"}) \in SUBSET Flags
    BY <1>1 DEF Flags, SymDiff
  <2> QED BY <2>1, LockTypes, Zenon
<1>3. CASE ahead.reboot
  <2>1. ahead' = ahead /\ Unread' = Unread
    BY <1>1, <1>2, <1>3, UserKeeps
  <2> QED BY <2>1, Zenon DEF Abstract!vars
<1>4. CASE ~ahead.reboot
  <2>1. /\ (Unread \o ahead.text)' = Unread \o ahead.text
        /\ ahead'.shift = s /\ (~ahead.reboot)' = ~ahead.reboot
    BY <1>1, <1>2, <1>4, NothingEntered
  <2>2. /\ s \cap {"SHIFT", "CTL", "ALT"} = ahead.shift \cap {"SHIFT", "CTL", "ALT"}
        /\ "CAPSLOCK" \in s <=> "CAPSLOCK" \notin ahead.shift
    BY <1>2 DEF SymDiff
  <2>3. ("CAPSLOCK" \in ahead.shift)' = ~("CAPSLOCK" \in ahead.shift)
    BY <2>1, <2>2
  <2>4. (ahead.shift \cap {"SHIFT", "CTL", "ALT"})' = ahead.shift \cap {"SHIFT", "CTL", "ALT"}
    BY <2>1, <2>2
  <2> QED BY <1>4, <2>1, <2>3, <2>4, Zenon DEF Abstract!Lock
<1> QED BY <1>3, <1>4

LEMMA ModifierStep ==
  ASSUME EInv, RInv, NEW key \in ModifierKeys, Press(key) \/ LetGo(key)
  PROVE  Abstract!Modifier \/ UNCHANGED Abstract!vars
<1>1. Outside
  BY DEF Press, LetGo
<1>2. PICK s \in SUBSET Flags : /\ "CAPSLOCK" \in s <=> "CAPSLOCK" \in ahead.shift
                                /\ ahead' = IF ahead.reboot THEN ahead ELSE Entered(ahead, s, NO)
  BY ModifierTypes
<1>3. CASE ahead.reboot
  <2>1. ahead' = ahead /\ Unread' = Unread
    BY <1>1, <1>2, <1>3, UserKeeps
  <2> QED BY <2>1, Zenon DEF Abstract!vars
<1>4. CASE ~ahead.reboot
  <2>1. /\ (Unread \o ahead.text)' = Unread \o ahead.text
        /\ ahead'.shift = s /\ (~ahead.reboot)' = ~ahead.reboot
    BY <1>1, <1>2, <1>4, NothingEntered
  <2>2. ("CAPSLOCK" \in ahead.shift)' = ("CAPSLOCK" \in ahead.shift)
    BY <1>2, <2>1
  <2>3. (ahead.shift \cap {"SHIFT", "CTL", "ALT"})' \in SUBSET {"SHIFT", "CTL", "ALT"}
    OBVIOUS
  <2> QED BY <1>4, <2>1, <2>2, <2>3, Zenon DEF Abstract!Modifier
<1> QED BY <1>3, <1>4

LEMMA ReleaseStep ==
  ASSUME EInv, RInv, NEW key \in CharKeys, Release(key)
  PROVE  UNCHANGED Abstract!vars
<1>1. ahead' = ahead
  BY ReleaseTypes
<1>2. Unread' = Unread
  BY UserKeeps DEF Release
<1> QED BY <1>1, <1>2, Zenon DEF Abstract!vars

(* The serial line: a character goes into the ring, in front of what the   *)
(* keyboard has not delivered.                                             *)
LEMMA SerialStep ==
  ASSUME EInv, RInv, serial_intr
  PROVE  (\E c \in LineChars : Abstract!Line(c)) \/ Abstract!Overrun \/ UNCHANGED Abstract!vars
<1>1. cons_intr(com1) /\ ahead' = ahead /\ com1 \in LineChars \cup {NO}
  BY DEF serial_intr, RInv
<1>2. PICK u \in Seq(Chars), t \in Seq(Chars) : u = Unread /\ t = ahead.text
  BY QueueParts
<1>3. PICK q \in Seq(Chars) : q = Unread \o ahead.text /\ q = u \o t
  <2>1. u \o t \in Seq(Chars)
    BY ConcatProperties
  <2> QED BY <1>2, <2>1
<1>4. CASE com1 = NO
  <2>1. Unread' = Unread
    BY <1>1, <1>4 DEF cons_intr, cons, Unread
  <2> QED BY <1>1, <2>1, Zenon DEF Abstract!vars
<1>5. CASE com1 # NO
  <2>1. PICK c \in LineChars : c = com1 /\ c \in Chars
    BY <1>1, <1>5 DEF Chars
  <2>2. Len(u) \in 0 .. Len(q) /\ SubSeq(q, 1, Len(u)) = u /\ SubSeq(q, Len(u) + 1, Len(q)) = t
    BY <1>3, Halves
  <2>3. CASE Unread' = Append(Unread, c)
    <3>1. Unread' = SubSeq(q, 1, Len(u)) \o <<c>>
      <4>1. Append(u, c) = u \o <<c>>
        BY <2>1, AppendIsConcat
      <4> QED BY <4>1, <1>2, <2>2, <2>3
    <3>2. (Unread \o ahead.text)' = SubSeq(q, 1, Len(u)) \o <<c>> \o SubSeq(q, Len(u) + 1, Len(q))
      BY <1>1, <1>2, <2>2, <3>1
    <3>3. Abstract!Line(c)
      <4>1. \E i \in 0 .. Len(Unread \o ahead.text) :
               (Unread \o ahead.text)' = SubSeq(Unread \o ahead.text, 1, i) \o <<c>>
                                         \o SubSeq(Unread \o ahead.text, i + 1, Len(Unread \o ahead.text))
        BY <1>3, <2>2, <3>2, Zenon
      <4> QED BY <1>1, <4>1, Zenon DEF Abstract!Line
    <3> QED BY <3>3
  <2>4. CASE Len(Unread) = CONSBUFSIZE - 1 /\ Unread' = <<>>
    <3>1. (Unread \o ahead.text)' = SubSeq(q, Len(u) + 1, Len(q))
      <4>1. <<>> \o t = t
        BY ConcatEmptySeq
      <4> QED BY <4>1, <1>1, <1>2, <2>2, <2>4
    <3>2. PICK n \in {CONSBUFSIZE - 1, CONSBUFSIZE} : n = Len(u) /\ n <= Len(q)
      <4>1. Len(u) <= Len(q)
        BY <2>2, LenProperties
      <4> QED BY <4>1, <1>2, <2>4
    <3>3. (Unread \o ahead.text)' = SubSeq(q, n + 1, Len(q))
      BY <3>1, <3>2
    <3> QED BY <1>1, <1>3, <3>2, <3>3, Zenon DEF Abstract!Overrun
  <2> QED BY <1>1, <1>5, <2>1, <2>3, <2>4, CharacterIn
<1> QED BY <1>4, <1>5

(* A scan code: what it enters was promised, and goes behind the unread.   *)
LEMMA CodeStep ==
  ASSUME EInv, RInv, kbd_intr
  PROVE  Abstract!Overrun \/ UNCHANGED Abstract!vars
<1>1. PICK c \in Chars : c = kbd_proc_data(shift, Head(kbd)).c /\ cons_intr(c)
  BY KeysAreChars DEF kbd_intr
<1>2. /\ RInv' /\ ahead'.shift = ahead.shift /\ ahead'.reboot = ahead.reboot
      /\ IF c = NO THEN ahead'.text = ahead.text ELSE ahead.text = <<c>> \o ahead'.text
  BY <1>1, CodeRead
<1>3. PICK u \in Seq(Chars), t \in Seq(Chars) : u = Unread /\ t = ahead'.text
  BY <1>2, QueueParts DEF RInv, Foreseen
<1>4. ASSUME (Unread \o ahead.text)' = Unread \o ahead.text PROVE UNCHANGED Abstract!vars
  BY <1>2, <1>4, Zenon DEF Abstract!vars
<1>5. CASE c = NO
  <2>1. Unread' = Unread
    BY <1>1, <1>5 DEF cons_intr, cons, Unread
  <2>2. (Unread \o ahead.text)' = Unread \o ahead.text
    BY <2>1, <1>2, <1>5
  <2> QED BY <2>2, <1>4
<1>6. CASE c # NO
  <2>1. PICK one \in Seq(Chars) : one = <<c>>
    <3>1. <<c>> \in Seq(Chars)
      OBVIOUS
    <3> QED BY <3>1, Zenon
  <2>2. PICK v \in Seq(Chars) : v = Append(u, c) /\ v = u \o one /\ Len(v) = Len(u) + 1
    <3>1. Append(u, c) \in Seq(Chars) /\ Append(u, c) = u \o one /\ Len(Append(u, c)) = Len(u) + 1
      BY <2>1, AppendProperties, AppendIsConcat
    <3> QED BY <3>1, Zenon
  <2>3. Unread \o ahead.text = v \o t
    <3>1. (u \o one) \o t = u \o (one \o t)
      BY ConcatAssociative
    <3> QED BY <3>1, <1>2, <1>3, <1>6, <2>1, <2>2
  <2>4. CASE Unread' = Append(Unread, c)
    <3>1. (Unread \o ahead.text)' = Unread \o ahead.text
      BY <1>3, <2>2, <2>3, <2>4
    <3> QED BY <3>1, <1>4
  <2>5. CASE Len(Unread) = CONSBUFSIZE - 1 /\ Unread' = <<>>
    <3>1. (Unread \o ahead.text)' = t
      <4>1. <<>> \o t = t
        BY ConcatEmptySeq
      <4> QED BY <4>1, <1>3, <2>5
    <3>2. Len(v) \in 0 .. Len(v \o t) /\ SubSeq(v \o t, Len(v) + 1, Len(v \o t)) = t
      BY Halves
    <3>3. PICK n \in {CONSBUFSIZE - 1, CONSBUFSIZE} : n = Len(v) /\ n <= Len(v \o t)
      <4>1. Len(v) <= Len(v \o t)
        BY <3>2
      <4>2. Len(v) = CONSBUFSIZE
        BY <1>3, <2>2, <2>5, ConsoleAssumption
      <4> QED BY <4>1, <4>2
    <3>4. (Unread \o ahead.text)' = SubSeq(v \o t, n + 1, Len(v \o t))
      BY <3>1, <3>2, <3>3
    <3> QED BY <1>2, <2>3, <3>3, <3>4, Zenon DEF Abstract!Overrun
  <2> QED BY <1>1, <1>6, <2>4, <2>5, CharacterIn
<1> QED BY <1>5, <1>6

(* The reader takes the oldest.                                            *)
LEMMA ReadStep ==
  ASSUME EInv, RInv, readline
  PROVE  Abstract!Read
<1>1. /\ rpos # wpos /\ rpos' = (rpos + 1) % CONSBUFSIZE
      /\ buf' = buf /\ wpos' = wpos /\ ahead' = ahead
  BY DEF readline
<1>2. Unread' = Ring(buf', rpos', wpos')
  BY DEF Unread, Ring
<1>3. Unread # <<>> /\ Unread' = Tail(Unread)
  <2>1. Ring(buf, rpos, wpos) # <<>> /\ Ring(buf, (rpos + 1) % CONSBUFSIZE, wpos) = Tail(Ring(buf, rpos, wpos))
    BY <1>1, RingGet DEF EInv
  <2> QED BY <1>1, <1>2, <2>1, QueueParts
<1>4. Unread \o ahead.text # <<>> /\ Tail(Unread \o ahead.text) = Tail(Unread) \o ahead.text
  BY <1>3, QueueParts, TailOfConcat
<1>5. (Unread \o ahead.text)' = Tail(Unread \o ahead.text)
  BY <1>1, <1>3, <1>4
<1> QED BY <1>1, <1>4, <1>5, Zenon DEF Abstract!Read

LEMMA TypewriterStep ==
  ASSUME EInv, RInv, [Next]_vars
  PROVE  [Abstract!Next]_Abstract!vars
<1>1. ASSUME ahead' = ahead, UNCHANGED cons PROVE UNCHANGED Abstract!vars
  <2>1. Unread' = Unread
    BY <1>1 DEF cons, Unread
  <2> QED BY <1>1, <2>1, Zenon DEF Abstract!vars
<1>2. ASSUME NEW key \in scenario.keys \cap (CharKeys \cup {"caps"}), Strike(key)
      PROVE  [Abstract!Next]_Abstract!vars
  BY <1>2, StrikeStep, LockStep, Zenon DEF Abstract!Next
<1>3. ASSUME NEW key \in scenario.keys \cap Extended \cap CharKeys, Release(key)
      PROVE  [Abstract!Next]_Abstract!vars
  BY <1>3, ReleaseStep, Zenon
<1>4. ASSUME NEW key \in scenario.keys \cap ModifierKeys, Press(key) \/ LetGo(key)
      PROVE  [Abstract!Next]_Abstract!vars
  BY <1>4, ModifierStep, Zenon DEF Abstract!Next
<1>5. ASSUME NEW c \in scenario.line, Arrive(c) PROVE [Abstract!Next]_Abstract!vars
  BY <1>1, <1>5, Zenon DEF Arrive, Outside
<1>6. CASE serial_intr
  BY <1>6, SerialStep, Zenon DEF Abstract!Next
<1>7. CASE kbd_intr
  BY <1>7, CodeStep, Zenon DEF Abstract!Next
<1>8. CASE Nothing
  BY <1>1, <1>8, Zenon DEF Nothing
<1>9. CASE readline
  BY <1>9, ReadStep, Zenon DEF Abstract!Next
<1>10. CASE monitor
  BY <1>1, <1>10, Zenon DEF monitor
<1>11. CASE UNCHANGED vars
  BY <1>1, <1>11, Zenon DEF vars
<1> QED BY <1>2, <1>3, <1>4, <1>5, <1>6, <1>7, <1>8, <1>9, <1>10, <1>11 DEF Next, User, Kernel

(* What somebody at the keyboard and the reader see is the typewriter, for *)
(* every size of the ring and every way of striking keys.                  *)
THEOREM ConsoleIsATypewriter == Spec => ImplementsTypewriter
<1>1. EInv /\ RInv /\ [Next]_vars => [Abstract!Next]_Abstract!vars
  BY TypewriterStep
<1> QED BY <1>1, InitTypewriter, ConsoleInvariant, CodesAreForeseen, PTL
        DEF Spec, ImplementsTypewriter, Abstract!Spec
=============================================================================
