------------------------------ MODULE Console ------------------------------
(***************************************************************************)
(* The console of JOS (kern/console.c), the line editor on top of it       *)
(* (lib/readline.c) and the kernel monitor that reads its commands through *)
(* them (kern/monitor.c).                                                  *)
(*                                                                         *)
(* Nothing handles the interrupts of the two devices: cons_getc() looks at *)
(* them each time it is asked for a character.  Each look is a step, and   *)
(* the user and the serial line act between any two.                       *)
(*                                                                         *)
(* Abstractions.  A character is a short string, NO is 0; a few keys stand *)
(* for the classes the scan code tables tell apart.  The output devices    *)
(* other than the screen, the attribute bytes and what a monitor command   *)
(* prints are left out.                                                    *)
(***************************************************************************)
EXTENDS Integers, Sequences, FiniteSets, SequencesExt

CONSTANTS
    CONSBUFSIZE,          \* characters in the ring buffer
    CRT_COLS, CRT_ROWS,   \* size of the screen
    BUFLEN,               \* size of readline()'s buffer
    MAXARGS,              \* size of runcmd()'s argv
    Scenarios             \* bounds: [keys, line, strokes, fifo] records

CRT_SIZE == CRT_ROWS * CRT_COLS

(* What the serial line brings (external): a letter and the erase key of a *)
(* terminal.                                                               *)
LineChars == {"b", "DEL7F"}

(* A line that fills the buffer fits on the screen below the first row.    *)
ASSUME ConsoleAssumption ==
    /\ CONSBUFSIZE \in Nat \ {0, 1} /\ MAXARGS \in Nat \ {0, 1}
    /\ CRT_COLS \in Nat \ {0} /\ CRT_ROWS \in Nat \ {0}
    /\ BUFLEN \in Nat \ {0} /\ BUFLEN + CRT_COLS <= CRT_SIZE
    /\ \A s \in Scenarios : s.line \subseteq LineChars

NO == "NO"

VARIABLES
    scenario,    \* which keys are used, how often, and how far ahead
    strokes,     \* how many actions of the user and the line so far
    held,        \* modifier keys that are held down
    kbd,         \* scan codes in the keyboard controller, oldest first
    com1,        \* the byte in the serial receiver, or NO
    shift,       \* the flags of kbd_proc_data()
    ahead,       \* history: what the codes in kbd are going to enter
    buf, rpos, wpos,     \* cons
    crt_buf, crt_pos,
    line,        \* readline()'s buf[0..i)
    mode         \* where the monitor is

devices == <<held, kbd, com1>>
cons    == <<buf, rpos, wpos>>
screen  == <<crt_buf, crt_pos>>
vars    == <<scenario, strokes, devices, shift, ahead, cons, screen, line, mode>>

-----------------------------------------------------------------------------
(* The keyboard: scan codes of each key (external).  Keys of the grey      *)
(* block may be wrapped in the codes of a shift key that nobody moved.     *)

CharKeys     == {"a", "d", "space", "back", "enter", "pad_enter", "delete"}
ModifierKeys == {"left_shift", "right_shift", "left_ctl", "right_ctl", "alt", "right_alt"}

code(key) ==
    CASE key = "a" -> 30 [] key = "d" -> 32 [] key = "space" -> 57
      [] key = "back" -> 14 [] key \in {"enter", "pad_enter"} -> 28
      [] key = "delete" -> 83 [] key = "caps" -> 58
      [] key = "left_shift" -> 42 [] key = "right_shift" -> 54
      [] key \in {"left_ctl", "right_ctl"} -> 29 [] key \in {"alt", "right_alt"} -> 56

Extended == {"pad_enter", "delete", "right_ctl", "right_alt"}

make(key)  == (IF key \in Extended THEN <<224>> ELSE <<>>) \o <<code(key)>>
break(key) == (IF key \in Extended THEN <<224>> ELSE <<>>) \o <<code(key) + 128>>

FakeShifts(key) ==
    IF key # "delete" THEN {<<>>}
    ELSE {<<>>, IF "left_shift" \in held THEN <<224, 170>> ELSE <<224, 42>>}

-----------------------------------------------------------------------------
(* kbd_proc_data().                                                        *)

shiftcode(data) ==
    CASE data \in {29, 157} -> {"CTL"}
      [] data \in {42, 54}  -> {"SHIFT"}
      [] data \in {56, 184} -> {"ALT"}
      [] OTHER -> {}

togglecode(data) ==
    CASE data = 58 -> {"CAPSLOCK"} [] data = 69 -> {"NUMLOCK"}
      [] data = 70 -> {"SCROLLLOCK"} [] OTHER -> {}

normalmap(data) ==
    CASE data = 30 -> "a" [] data = 32 -> "d" [] data = 57 -> "SP" [] data = 14 -> "BS"
      [] data \in {28, 156} -> "NL" [] data = 83 -> "DOT" [] data = 211 -> "DEL" [] OTHER -> NO

shiftmap(data) ==
    CASE data = 30 -> "A" [] data = 32 -> "D" [] OTHER -> normalmap(data)

ctlmap(data) ==
    CASE data = 30 -> "CtlA" [] data = 32 -> "CtlD" [] data = 28 -> "CR"
      [] data = 211 -> "DEL" [] OTHER -> NO

charcode(s, data) ==
    IF "CTL" \in s THEN ctlmap(data)
    ELSE IF "SHIFT" \in s THEN shiftmap(data) ELSE normalmap(data)

SwapCase(c) == CASE c = "a" -> "A" [] c = "A" -> "a" [] c = "d" -> "D" [] c = "D" -> "d" [] OTHER -> c

(* Mutant (ImplementsTypewriter): a release is looked up without its E0.   *)
Mut_ReleaseMasked(s, data) ==
    IF data = 224 THEN [shift |-> s \cup {"E0ESC"}, c |-> NO]
    ELSE IF data >= 128
    THEN [shift |-> s \ (shiftcode(data % 128) \cup {"E0ESC"}), c |-> NO]
    ELSE LET d == IF "E0ESC" \in s THEN data + 128 ELSE data
             t == SymDiff((s \ {"E0ESC"}) \cup shiftcode(d), togglecode(d))
         IN [shift |-> t, c |-> IF "CAPSLOCK" \in t THEN SwapCase(charcode(t, d)) ELSE charcode(t, d)]

(* Mutant (NoModifierStuck): a release without E0 keeps its top bit.       *)
Mut_ReleaseKept(s, data) ==
    IF data = 224 THEN [shift |-> s \cup {"E0ESC"}, c |-> NO]
    ELSE IF data >= 128
    THEN [shift |-> s \ (shiftcode(data) \cup {"E0ESC"}), c |-> NO]
    ELSE LET d == IF "E0ESC" \in s THEN data + 128 ELSE data
             t == SymDiff((s \ {"E0ESC"}) \cup shiftcode(d), togglecode(d))
         IN [shift |-> t, c |-> IF "CAPSLOCK" \in t THEN SwapCase(charcode(t, d)) ELSE charcode(t, d)]

kbd_proc_data(s, data) ==
    IF data = 224 THEN [shift |-> s \cup {"E0ESC"}, c |-> NO]
    ELSE IF data >= 128
    THEN LET d == IF "E0ESC" \in s THEN data ELSE data % 128
         IN  [shift |-> s \ (shiftcode(d) \cup {"E0ESC"}), c |-> NO]
    ELSE LET d == IF "E0ESC" \in s THEN data + 128 ELSE data
             t == SymDiff((s \ {"E0ESC"}) \cup shiftcode(d), togglecode(d))
         IN  [shift |-> t, c |-> IF "CAPSLOCK" \in t THEN SwapCase(charcode(t, d)) ELSE charcode(t, d)]

(* Ctrl-Alt-Del.                                                           *)
Reboots(r) == {"CTL", "ALT"} \subseteq r.shift /\ r.c = "DEL"

-----------------------------------------------------------------------------
(* cons_intr() for one character, and what the ring holds.                 *)

cons_intr(c) ==
    IF c = NO THEN UNCHANGED cons
    ELSE /\ buf' = [buf EXCEPT ![wpos] = c]
         /\ wpos' = (wpos + 1) % CONSBUFSIZE
         /\ UNCHANGED rpos

Unread == [i \in 1 .. (wpos - rpos) % CONSBUFSIZE |-> buf[(rpos + i - 1) % CONSBUFSIZE]]

-----------------------------------------------------------------------------
(* The screen, as a record of crt_buf and crt_pos.                         *)

Scroll(s) ==
    IF s.pos < CRT_SIZE THEN s
    ELSE [pos |-> s.pos - CRT_COLS,
          cells |-> [k \in 0 .. CRT_SIZE - 1 |->
                        IF k < CRT_SIZE - CRT_COLS THEN s.cells[k + CRT_COLS] ELSE "SP"]]

cga_putc(s, c) ==
    CASE c = "BS" -> IF s.pos = 0 THEN s
                     ELSE [pos |-> s.pos - 1, cells |-> [s.cells EXCEPT ![s.pos - 1] = "SP"]]
      [] c = "NL" -> Scroll([s EXCEPT !.pos = @ + CRT_COLS - (@ % CRT_COLS)])
      [] OTHER    -> Scroll([pos |-> s.pos + 1, cells |-> [s.cells EXCEPT ![s.pos] = c]])

cputchar(c) ==
    LET s == cga_putc([pos |-> crt_pos, cells |-> crt_buf], c)
    IN  crt_buf' = s.cells /\ crt_pos' = s.pos

-----------------------------------------------------------------------------
(* runcmd().                                                               *)

WHITESPACE == {"TAB", "CR", "NL", "SP"}

(* Mutant (ArgvExact): the test for room is off by one.                   *)
Mut_OneMore(a, c) ==
    IF a.many THEN a
    ELSE IF c \in WHITESPACE THEN [a EXCEPT !.inside = FALSE]
    ELSE IF a.inside THEN [a EXCEPT !.argv[Len(a.argv)] = Append(@, c)]
    ELSE IF Len(a.argv) = MAXARGS THEN [a EXCEPT !.many = TRUE]
    ELSE [a EXCEPT !.argv = Append(@, <<c>>), !.inside = TRUE]

(* One character of the command buffer; many once there is no room for a   *)
(* word.                                                                   *)
scan(a, c) ==
    IF a.many THEN a
    ELSE IF c \in WHITESPACE THEN [a EXCEPT !.inside = FALSE]
    ELSE IF a.inside THEN [a EXCEPT !.argv[Len(a.argv)] = Append(@, c)]
    ELSE IF Len(a.argv) = MAXARGS - 1 THEN [a EXCEPT !.many = TRUE]
    ELSE [a EXCEPT !.argv = Append(@, <<c>>), !.inside = TRUE]

(* argv[] of a line.                                                       *)
parse(text) == FoldLeft(scan, [argv |-> <<>>, inside |-> FALSE, many |-> FALSE], text)

(* The word d stands for dump, the only command that can end the monitor:  *)
(* with three arguments, the last of them neither p nor v.                 *)
runcmd(text) ==
    LET a == parse(text)
    IN  IF a.many \/ a.argv = <<>> THEN 0
        ELSE IF a.argv[1] = <<"d">> /\ Len(a.argv) = 4 THEN -1 ELSE 0

-----------------------------------------------------------------------------
(* The user and the serial line.  A key is struck only while its codes fit *)
(* into the controller.                                                    *)

(* d: the flags after the codes seen so far, their text, whether they      *)
(* reboot the machine.                                                     *)
foresee(d, data) ==
    LET r == kbd_proc_data(d.shift, data)
    IN  IF d.reboot THEN d
        ELSE [shift |-> r.shift, reboot |-> Reboots(r),
              text |-> IF r.c = NO THEN d.text ELSE Append(d.text, r.c)]

Emit(codes) ==
    /\ Len(kbd) + Len(codes) <= scenario.fifo
    /\ kbd' = kbd \o codes
    /\ ahead' = FoldLeft(foresee, ahead, codes)

Outside ==
    /\ strokes < scenario.strokes
    /\ mode \notin {"returned", "reboot"}
    /\ strokes' = strokes + 1
    /\ UNCHANGED <<scenario, shift, cons, screen, line, mode>>

Strike(key) ==
    /\ Outside
    /\ \E fake \in FakeShifts(key) : Emit(fake \o make(key))
    /\ UNCHANGED <<held, com1>>

Release(key) ==
    /\ Outside
    /\ \E fake \in FakeShifts(key) : Emit(break(key) \o fake)
    /\ UNCHANGED <<held, com1>>

Press(key) ==
    /\ Outside
    /\ Emit(make(key))
    /\ held' = held \cup {key}
    /\ UNCHANGED com1

LetGo(key) ==
    /\ Outside
    /\ key \in held
    /\ Emit(break(key))
    /\ held' = held \ {key}
    /\ UNCHANGED com1

Arrive(c) ==
    /\ Outside
    /\ com1 = NO
    /\ com1' = c
    /\ UNCHANGED <<held, kbd, ahead>>

User ==
    \/ \E key \in scenario.keys \cap (CharKeys \cup {"caps"}) : Strike(key)
    \/ \E key \in scenario.keys \cap Extended \cap CharKeys : Release(key)
    \/ \E key \in scenario.keys \cap ModifierKeys : Press(key) \/ LetGo(key)
    \/ \E c \in scenario.line : Arrive(c)

-----------------------------------------------------------------------------
(* The kernel.                                                             *)

serial_intr ==
    /\ mode = "serial"
    /\ cons_intr(com1)
    /\ com1' = NO
    /\ mode' = IF com1 = NO THEN "kbd" ELSE "serial"
    /\ UNCHANGED <<scenario, strokes, held, kbd, shift, ahead, screen, line>>

kbd_intr ==
    /\ mode = "kbd" /\ kbd # <<>>
    /\ LET r == kbd_proc_data(shift, Head(kbd)) IN
       /\ shift' = r.shift
       /\ cons_intr(r.c)
       /\ mode' = IF Reboots(r) THEN "reboot" ELSE mode
       /\ ahead' = IF r.c = NO THEN ahead ELSE [ahead EXCEPT !.text = Tail(@)]
    /\ kbd' = Tail(kbd)
    /\ UNCHANGED <<scenario, strokes, held, com1, screen, line>>

(* No more scan codes, and no character in the ring: getchar() asks again. *)
Nothing ==
    /\ mode = "kbd" /\ kbd = <<>> /\ rpos = wpos
    /\ mode' = "serial"
    /\ UNCHANGED <<scenario, strokes, devices, shift, ahead, cons, screen, line>>

(* readline() with the character that getchar() returned.  Everything but  *)
(* the control characters is >= ' '.                                       *)
Control == {"BS", "NL", "CR", "CtlA", "CtlD"}

Erases(c)  == c \in {"BS", "DEL7F"} /\ line # <<>>
Inserts(c) == ~Erases(c) /\ c \notin Control /\ Len(line) < BUFLEN - 1
Ends(c)    == c \in {"NL", "CR"}

(* Mutant (EchoExact): what is erased stays on the screen.                 *)
Mut_SilentErase(c) ==
    \/ Erases(c) /\ line' = Front(line) /\ mode' = "serial" /\ UNCHANGED screen
    \/ Inserts(c) /\ cputchar(c) /\ line' = Append(line, c) /\ mode' = "serial"
    \/ Ends(c) /\ cputchar("NL") /\ mode' = "run" /\ UNCHANGED line

edit(c) ==
    \/ Erases(c) /\ cputchar("BS") /\ line' = Front(line) /\ mode' = "serial"
    \/ Inserts(c) /\ cputchar(c) /\ line' = Append(line, c) /\ mode' = "serial"
    \/ Ends(c) /\ cputchar("NL") /\ mode' = "run" /\ UNCHANGED line
    \/ ~(Erases(c) \/ Inserts(c) \/ Ends(c)) /\ mode' = "serial" /\ UNCHANGED <<line, screen>>

readline ==
    /\ mode = "kbd" /\ kbd = <<>> /\ rpos # wpos
    /\ rpos' = (rpos + 1) % CONSBUFSIZE
    /\ edit(buf[rpos])
    /\ UNCHANGED <<scenario, strokes, devices, shift, ahead, buf, wpos>>

(* The loop of monitor(): run the line, print the prompt and read again.   *)
monitor ==
    /\ mode = "run"
    /\ IF runcmd(line) < 0
       THEN mode' = "returned" /\ UNCHANGED <<screen, line>>
       ELSE mode' = "serial" /\ line' = <<>> /\ cputchar("PROMPT")
    /\ UNCHANGED <<scenario, strokes, devices, shift, ahead, cons>>

Kernel == serial_intr \/ kbd_intr \/ Nothing \/ readline \/ monitor

Init ==
    /\ scenario \in Scenarios
    /\ strokes = 0 /\ held = {} /\ kbd = <<>> /\ com1 = NO /\ shift = {}
    /\ ahead = [shift |-> {}, reboot |-> FALSE, text |-> <<>>]
    /\ buf = [i \in 0 .. CONSBUFSIZE - 1 |-> NO] /\ rpos = 0 /\ wpos = 0
    /\ crt_buf = [k \in 0 .. CRT_SIZE - 1 |-> "SP"]
    /\ crt_pos \in {0, CRT_SIZE - CRT_COLS}
    /\ line = <<>> /\ mode = "run"

Next == User \/ Kernel

Spec == Init /\ [][Next]_vars

-----------------------------------------------------------------------------
(* Properties.                                                             *)

(* While a line is edited the screen shows it, up to the cursor: erasing,  *)
(* wrapping at the right margin and scrolling at the bottom keep what is   *)
(* seen and what is going to be executed the same (readline(), cga_putc()).*)
EchoExact ==
    /\ crt_pos \in 0 .. CRT_SIZE - 1
    /\ mode \in {"serial", "kbd"} =>
         \A k \in 1 .. Len(line) : crt_buf[crt_pos - Len(line) + k - 1] = line[k]

(* runcmd() finds the words of the line, in order and whole, when there    *)
(* are fewer than MAXARGS, and otherwise runs nothing.                     *)
WordStarts(text) ==
    {i \in 1 .. Len(text) : text[i] \notin WHITESPACE /\ (i = 1 \/ text[i - 1] \in WHITESPACE)}

ArgvExact ==
    mode = "run" =>
    LET a == parse(line)
        starts == WordStarts(line)
    IN  /\ a.many <=> Cardinality(starts) >= MAXARGS
        /\ ~a.many =>
             /\ Len(a.argv) = Cardinality(starts)
             /\ \A i \in starts :
                  LET word == a.argv[Cardinality({j \in starts : j <= i})]
                      next == i + Len(word)
                  IN  /\ word = SubSeq(line, i, next - 1)
                      /\ \A k \in DOMAIN word : word[k] \notin WHITESPACE
                      /\ next > Len(line) \/ line[next] \in WHITESPACE

(* When all codes have been looked at and no modifier key is held, no      *)
(* modifier is set: whatever was pressed together, released in whichever   *)
(* order and wrapped in E0 and fake shift codes (kbd_proc_data()).         *)
NoModifierStuck == held = {} /\ kbd = <<>> => shift \cap {"SHIFT", "CTL", "ALT"} = {}

(* The character queue that the user and the reader see is the ring, and   *)
(* behind it what the waiting scan codes are going to enter.               *)
Abstract == INSTANCE Typewriter WITH
    Size <- CONSBUFSIZE, Key <- CharKeys, Character <- LineChars,
    queue <- Unread \o ahead.text,
    down <- ahead.shift \cap {"SHIFT", "CTL", "ALT"},
    caps <- "CAPSLOCK" \in ahead.shift,
    on <- ~ahead.reboot

(* The console implements the typewriter: make and break codes, codes with *)
(* E0, shift codes nobody struck and the ring are not to be seen, however  *)
(* late the kernel looks at its devices.                                   *)
ImplementsTypewriter == Abstract!Spec
=============================================================================
