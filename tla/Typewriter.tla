---------------------------- MODULE Typewriter ----------------------------
(***************************************************************************)
(* What the console input of JOS promises to somebody at the keyboard:     *)
(* every key enters the character on its cap, for the modifiers as they    *)
(* are when it is struck, and the characters are read in order, whenever   *)
(* the reader comes to look.  A character from the serial line may         *)
(* overtake keys that have not been looked at.  With Size characters       *)
(* unread the oldest Size are lost together, the last of them included.    *)
(***************************************************************************)
EXTENDS Integers, Sequences

CONSTANTS Size, Key, Character, NO

VARIABLES
    queue,    \* characters entered and not yet read
    down,     \* the modifiers, as the last key of each left them
    caps,     \* CAPSLOCK is on
    on        \* FALSE once the machine has been told to reboot

vars == <<queue, down, caps, on>>

Upper(letter)   == CASE letter = "a" -> "A" [] letter = "d" -> "D"
Control(letter) == CASE letter = "a" -> "CtlA" [] letter = "d" -> "CtlD"

Character_of(key) ==
    CASE key \in {"a", "d"} ->
            IF "CTL" \in down THEN Control(key)
            ELSE IF ("SHIFT" \in down) # caps THEN Upper(key) ELSE key
      [] key = "space" -> IF "CTL" \in down THEN NO ELSE "SP"
      [] key = "back"  -> IF "CTL" \in down THEN NO ELSE "BS"
      [] key = "enter" -> IF "CTL" \in down THEN "CR" ELSE "NL"
      [] key = "pad_enter" -> IF "CTL" \in down THEN NO ELSE "NL"
      [] key = "delete" -> "DEL"

Init == queue = <<>> /\ down = {} /\ caps = FALSE /\ on = TRUE

Strike(key) ==
    /\ on
    /\ queue' = IF Character_of(key) = NO THEN queue ELSE Append(queue, Character_of(key))
    /\ on' = ~(key = "delete" /\ {"CTL", "ALT"} \subseteq down)
    /\ UNCHANGED <<down, caps>>

Modifier == on /\ down' \in SUBSET {"SHIFT", "CTL", "ALT"} /\ UNCHANGED <<queue, caps, on>>
Lock     == on /\ caps' = ~caps /\ UNCHANGED <<queue, down, on>>

Line(c) ==
    /\ \E i \in 0 .. Len(queue) :
          queue' = SubSeq(queue, 1, i) \o <<c>> \o SubSeq(queue, i + 1, Len(queue))
    /\ UNCHANGED <<down, caps, on>>

Read ==
    /\ queue # <<>>
    /\ queue' = Tail(queue)
    /\ UNCHANGED <<down, caps, on>>

Overrun ==
    /\ \E n \in {Size - 1, Size} :
          n <= Len(queue) /\ queue' = SubSeq(queue, n + 1, Len(queue))
    /\ UNCHANGED <<down, caps, on>>

Next ==
    \/ \E key \in Key : Strike(key)
    \/ Modifier \/ Lock \/ Read \/ Overrun
    \/ \E c \in Character : Line(c)

Spec == Init /\ [][Next]_vars
=============================================================================
