-------------------------------- MODULE Ps2 --------------------------------
(***************************************************************************)
(* The PS/2 subsystem (blk.fs B246-248, doc/ps2.txt): (key?) turns the     *)
(* bytes of a keyboard into characters.  A key sends its code when it goes *)
(* down and again while it is held, $f0 and its code when it goes up; some *)
(* keys put $e0 first.  The bytes come through (ps2kc), a driver's word:   *)
(* module Psk is one such driver and KeyFifo what it promises; here it is  *)
(* the queue `line`, which the keyboard never overfills.                   *)
(*                                                                         *)
(* Each byte carries, for the properties only, what (key?) may return for  *)
(* it: the character of a press, with its shift; nothing for other bytes;  *)
(* and either where the keyboard or the driver makes it uncertain.         *)
(***************************************************************************)
EXTENDS Naturals, Sequences

CONSTANTS
  Plain,     \* keys with a character in PS2_CODES
  Shifts,    \* $12 and $59
  Mute,      \* keys with none, or with a code over $7f
  Extended,  \* the keys among these that send $e0 first
  Scrolls,   \* keys the driver keeps for itself: F1 to F3 on the Dan SBC
  Alone,     \* keys only pressed while no other key is down
  Cap        \* bytes that fit between the keyboard and (key?)

Keys == Plain \cup Shifts \cup Mute \cup Scrolls

ASSUME KeysAssumption == /\ Extended \subseteq Plain
                         /\ Plain \cap Shifts = {}
                         /\ (Plain \cup Shifts) \cap (Mute \cup Scrolls) = {}
\* $e0 and $f0 are no codes of keys; a scroll key is not used for typing.
ASSUME CodesAssumption == {"e0", "f0"} \cap Keys = {}
ASSUME AloneAssumption == Scrolls \subseteq Alone
ASSUME CapAssumption == Cap \in Nat

VARIABLES
  held,       \* the keys that are down
  line,       \* bytes sent, not yet read
  PS2_SHIFT,
  pc,         \* "key?", or "break" in (key?)'s loop after $f0
  byte,       \* the byte read last
  char,       \* what (key?) returned for it: the key and its shift, or nothing
  doubt,      \* some shift went down unseen, or two were, and one is down still
  missed      \* a scroll key was let go last: (key?) takes the next byte for it

vars == <<held, line, PS2_SHIFT, pc, byte, char, doubt, missed>>

Codes == Keys \cup {"e0", "f0"}
Nothing == [key |-> "none", shifted |-> FALSE]
Chars == [key : Plain, shifted : BOOLEAN] \cup {Nothing}
Bytes == [kc : Codes, may : SUBSET Chars]

TypeOK ==
  /\ held \subseteq Keys
  /\ line \in Seq(Bytes) /\ Len(line) <= Cap
  /\ PS2_SHIFT \in BOOLEAN
  /\ pc \in {"key?", "break"}
  /\ byte \in Bytes
  /\ char \in Chars
  /\ doubt \in BOOLEAN /\ missed \in BOOLEAN

Quiet(c) == [kc |-> c, may |-> {Nothing}]

Init ==
  /\ held = {} /\ line = <<>>
  /\ PS2_SHIFT = FALSE                                   \* PS2$
  /\ pc = "key?"
  /\ byte = Quiet("e0") /\ char = Nothing
  /\ doubt = FALSE /\ missed = FALSE

-----------------------------------------------------------------------------
(* The keyboard.                                                           *)

Prefix(k) == IF k \in Extended THEN <<Quiet("e0")>> ELSE <<>>

Sends(bytes) ==
  /\ Len(line) + Len(bytes) <= Cap
  /\ line' = line \o bytes
  /\ UNCHANGED <<PS2_SHIFT, pc, byte, char>>

Shifted(keys) == keys \cap Shifts # {}

\* What a press of k may come out as.
May(k) ==
  IF k \in Plain
    THEN [key : {k}, shifted : IF doubt THEN BOOLEAN ELSE {Shifted(held)}]
           \cup (IF missed THEN {Nothing} ELSE {})
    ELSE {Nothing}

\* Down for the first time, or held long enough to repeat.
Press(k) ==
  /\ \A h \in held \ {k} : {h, k} \cap Alone = {}
  /\ Sends(Prefix(k) \o <<[kc |-> k, may |-> May(k)]>>)
  /\ held' = held \cup {k}
  /\ doubt' = (doubt \/ (k \in Shifts /\ (missed \/ Shifted(held \ {k}))))
  /\ missed' = (missed /\ k \in Scrolls)

Release(k) ==
  /\ k \in held
  /\ Sends(Prefix(k) \o <<Quiet("f0"), Quiet(k)>>)
  /\ held' = held \ {k}
  /\ doubt' = (doubt /\ Shifted(held'))
  /\ missed' = (missed \/ k \in Scrolls)

-----------------------------------------------------------------------------
(* (ps2kc) and (key?).                                                     *)

\* The next byte of (ps2kc); a driver keeps its scroll keys for itself.
Takes(c) ==
  /\ line # <<>>
  /\ Head(line).kc = c
  /\ line' = Tail(line)
  /\ byte' = Head(line)
  /\ UNCHANGED <<held, doubt, missed>>

Kept ==
  /\ \E c \in Scrolls : Takes(c)
  /\ char' = Nothing
  /\ UNCHANGED <<PS2_SHIFT, pc>>

Returns(c) == pc' = "key?" /\ char' = c

\* Mutant of Ignore: $f0 is ignored too.
IgnoreBreak ==
  /\ pc = "key?"
  /\ \E c \in {"e0", "f0"} \cup Mute : Takes(c)
  /\ Returns(Nothing)
  /\ UNCHANGED PS2_SHIFT

Ignore ==
  /\ pc = "key?"
  /\ \E c \in {"e0"} \cup Mute : Takes(c)
  /\ Returns(Nothing)
  /\ UNCHANGED PS2_SHIFT

Break ==
  /\ pc = "key?"
  /\ Takes("f0")
  /\ pc' = "break" /\ char' = Nothing
  /\ UNCHANGED PS2_SHIFT

Broken ==
  /\ pc = "break"
  /\ \E c \in Codes \ Scrolls :
       /\ Takes(c)
       /\ PS2_SHIFT' = (PS2_SHIFT /\ c \notin Shifts)
  /\ Returns(Nothing)

Shift ==
  /\ pc = "key?"
  /\ \E c \in Shifts : Takes(c)
  /\ PS2_SHIFT' = TRUE
  /\ Returns(Nothing)

\* Mutant of Char: a shift is for one character.
CharUnshifts(k) ==
  /\ pc = "key?"
  /\ Takes(k)
  /\ Returns([key |-> k, shifted |-> PS2_SHIFT])
  /\ PS2_SHIFT' = FALSE

Char(k) ==
  /\ pc = "key?"
  /\ Takes(k)
  /\ Returns([key |-> k, shifted |-> PS2_SHIFT])
  /\ UNCHANGED PS2_SHIFT

key == Kept \/ Ignore \/ Break \/ Broken \/ Shift \/ \E k \in Plain : Char(k)

Next == (\E k \in Keys : Press(k) \/ Release(k)) \/ key

Spec == Init /\ [][Next]_vars

-----------------------------------------------------------------------------
(* Properties.                                                             *)

\* What is typed is what was pressed: each press of a key with a character
\* comes out of (key?) once, with the shift that was down at that moment, and
\* nothing else comes out, releases and repeats of other keys notwithstanding.
\* Two shifts at once may lose the shift of a press, and a scroll key used
\* alone the press after it; neither makes up a character.
Faithful == char \in byte.may

\* Whichever keys go down and up in whichever order, with nothing on its way
\* PS2_SHIFT says whether a shift is down.  With all keys up there is no doubt,
\* so it is off then: the shift does not stick.
ShiftKnown == line = <<>> /\ ~doubt => PS2_SHIFT = Shifted(held)
=============================================================================
