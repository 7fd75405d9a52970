----------------------------- MODULE MCConsole -----------------------------
(* What the user of a run does: each scenario is bounded by the keys used, *)
(* the number of strokes and how many scan codes may wait.                 *)
EXTENDS Console

Modifiers == [keys |-> {"a", "delete", "left_shift", "left_ctl", "right_ctl"},
              line |-> {}, strokes |-> 5, fifo |-> 8]
Locked    == [keys |-> {"a", "caps", "left_shift", "right_shift"},
              line |-> {}, strokes |-> 5, fifo |-> 4]
Reboot    == [keys |-> {"delete", "right_alt", "right_ctl", "pad_enter"},
              line |-> {}, strokes |-> 5, fifo |-> 6]
Editing   == [keys |-> {"a", "back", "enter"}, line |-> {"DEL7F"}, strokes |-> 6, fifo |-> 1]
Command   == [keys |-> {"d", "space", "enter"}, line |-> {}, strokes |-> 10, fifo |-> 1]
Typeahead == [keys |-> {"a"}, line |-> {"b"}, strokes |-> 8, fifo |-> 5]

AllScenarios == {Modifiers, Locked, Reboot, Editing, Command, Typeahead}
=============================================================================
