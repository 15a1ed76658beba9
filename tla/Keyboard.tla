------------------------------ MODULE Keyboard ------------------------------
(***************************************************************************)
(* How keyboard_interrupt decodes scan codes (devices/keyboard.rs).  A key *)
(* is <<prefix, code>> with prefix "none" or "e0": the control keys share  *)
(* the code "ctrl", the right one behind the prefix E0.  A code comes with *)
(* the move "press" or "release" (bit 7).                                  *)
(***************************************************************************)

CONSTANTS Letter,      \* codes of the letter keys
          Sign,        \* codes of the other keys that SCANCODE_MAP knows
          Arrow,       \* codes of the extended keys with an escape sequence
          Unshifted, Shifted,   \* the two columns of SCANCODE_MAP
          CtrlByte     \* the control byte of a letter key

Flag == {"lshift", "rshift", "lctrl", "rctrl", "caps"}

(* Faulty FlagOf: one control key is like the other.                       *)
FlagOfEither(prefix, code) ==
    CASE code = "ctrl" -> "lctrl"
      [] code \in {"lshift", "rshift"} /\ prefix = "none" -> code
      [] OTHER -> "nothing"

(* The flag that a code sets and its release clears, if there is one.      *)
FlagOf(prefix, code) ==
    CASE code = "ctrl" -> IF prefix = "e0" THEN "rctrl" ELSE "lctrl"
      [] code \in {"lshift", "rshift"} /\ prefix = "none" -> code
      [] OTHER -> "nothing"

(* The set of flags after a code.                                          *)
Flags(flags, prefix, code, move) ==
    LET f == FlagOf(prefix, code)
        caps == {f1 \in {"caps"} : code = f1 /\ prefix = "none" /\ move = "press"}
    IN  IF f = "nothing" THEN (flags \ caps) \cup (caps \ flags)
        ELSE IF move = "release" THEN flags \ {f} ELSE flags \cup {f}

(* The byte of a key.  Caps lock is for letters only.                      *)
ByteOf(flags, code) ==
    LET shift == flags \cap {"lshift", "rshift"} # {}
        upper == IF code \in Letter THEN shift # ("caps" \in flags) ELSE shift
    IN  IF code \in Letter /\ flags \cap {"lctrl", "rctrl"} # {} THEN CtrlByte[code]
        ELSE IF upper THEN Shifted[code] ELSE Unshifted[code]

(* Codes that go on to the input buffer.                                   *)
IsArrow(prefix, code, move) == move = "press" /\ prefix = "e0" /\ code \in Arrow
IsByte(prefix, code, move) ==
    move = "press" /\ prefix = "none" /\ code \in Letter \cup Sign
=============================================================================
