----------------------------- MODULE MCTerminal -----------------------------
(* Instances of Terminal for TLC: one ordinary byte, an arrow key that     *)
(* sends one, and a keyboard with right control, an arrow and the letter   *)
(* C.                                                                      *)
EXTENDS Terminal

CONSTANT x1

ArrowKey == <<x1>>
MCKey == {<<"e0", "ctrl">>, <<"e0", "up">>, <<"none", "c">>}
MCGlyph == [k \in {"c"} |-> x1]
MCActs == [t \in {4, 5} |-> IF t = 4 THEN {"fork"}
                            ELSE {"read", "ioctl", "kill", "setpgid", "signal", "exit"}]
MCCtrl == [k \in {"c"} |-> "intr"]
=============================================================================
