------------------------------ MODULE Keyboard ------------------------------
(***************************************************************************)
(* The keyboard (kernel/kernel.c): scancodes wait in the one-byte output   *)
(* buffer of the i8042 and are taken by whoever comes first, the interrupt *)
(* handler of IRQ1 or a program that polls in SYS_GETKEY or SYS_GETKEY_NB; *)
(* decoding keeps the modifiers, the 0xE0 prefix and the keys held down,   *)
(* and puts keys into a ring that the reader empties.                      *)
(*                                                                         *)
(* A read of an empty output buffer returns the last byte again.  IRQ1     *)
(* stays latched when a polling reader takes the byte first.  The kernel   *)
(* runs with interrupts off from the start of a call to its first          *)
(* "sti; hlt", and with interrupts on from there.                          *)
(*                                                                         *)
(* Keys are letters, of which "c" is one, and keys sent with the prefix,   *)
(* whose codes may be those of letters.  There is one shift and one        *)
(* control key, and the keyboard sends no shift codes of its own.          *)
(***************************************************************************)
EXTENDS Integers, Sequences, FiniteSets

CONSTANTS
  Letters,        \* keys with a character; "c" with control ends the program
  Arrows,         \* keys with the prefix that give a key of their own
  KBD_BUF_SIZE,
  WireMax,        \* bound: bytes waiting inside the keyboard
  MaxHeld         \* bound: keys held at a time

ASSUME KeyboardAssumption ==
  /\ KBD_BUF_SIZE \in Nat \ {0, 1} /\ WireMax \in Nat /\ MaxHeld \in Nat
  /\ {"shift", "ctrl", "E0"} \cap (Letters \cup Arrows) = {}

Plain(base) == [base |-> base, ext |-> FALSE]
Shift == Plain("shift")
Ctrl == Plain("ctrl")
PhysicalKeys ==
  {Shift, Ctrl} \cup [base : Letters, ext : {FALSE}] \cup [base : Arrows, ext : {TRUE}]

Byte == [code : Letters \cup Arrows \cup {"shift", "ctrl", "E0"}, make : BOOLEAN]
Prefix == [code |-> "E0", make |-> TRUE]

\* What the ring holds: a letter with its case, or a key of its own.
Ascii(base, mod) == [base |-> base, as |-> mod]
Empty == Ascii("none", "key")
KeyCode == [base : Letters \cup Arrows, as : {"lower", "upper", "control", "key"}]

Slots == 0 .. KBD_BUF_SIZE - 1
\* Mutant: the index does not wrap.
SuccNoWrap(i) == i + 1

Succ(i) == (i + 1) % KBD_BUF_SIZE

VARIABLES
  \* the keyboard and the i8042
  held,            \* keys held down
  wire,            \* bytes the keyboard has still to send
  port,            \* the output buffer: last byte and whether it is unread
  irq,             \* IRQ1 is latched
  \* the kernel
  kbd_buf, kbd_head, kbd_tail,
  kbd_shift, kbd_ctrl, kbd_ext,
  key_down, ext_key_down,
  exit_requested,
  \* the program
  pc,              \* "user", or where it is inside kbd_getkey
  mode,            \* "wait", "poll", "last" (the poll's second look), "none"
  iflag,           \* interrupts are enabled
  k,               \* the key kbd_pop has read and not yet removed
  \* history
  typed,           \* keys typed, as the one at the keyboard means them
  due              \* of these, decoded and not dropped, not yet delivered

keyboard == <<held, wire>>
ring == <<kbd_buf, kbd_head, kbd_tail>>
decoder == <<kbd_shift, kbd_ctrl, kbd_ext, key_down, ext_key_down>>
reader == <<pc, mode, iflag, k>>
vars == <<keyboard, port, irq, ring, decoder, exit_requested, reader, typed, due>>

Init ==
  /\ held = {} /\ wire = <<>> /\ irq = FALSE
  /\ port = [byte |-> Prefix, full |-> FALSE]
  /\ kbd_buf = [i \in Slots |-> Empty]
  /\ kbd_head = 0 /\ kbd_tail = 0
  /\ kbd_shift = FALSE /\ kbd_ctrl = FALSE /\ kbd_ext = FALSE
  /\ key_down = {} /\ ext_key_down = {}
  /\ exit_requested = FALSE
  /\ pc = "user" /\ mode = "none" /\ iflag = TRUE /\ k = Empty
  /\ typed = <<>> /\ due = <<>>

(***************************************************************************)
(* The keyboard.                                                           *)
(***************************************************************************)
Bytes(key, make) ==
  (IF key.ext THEN <<Prefix>> ELSE <<>>) \o <<[code |-> key.base, make |-> make]>>

Sends(bytes) ==
  /\ Len(wire) + Len(bytes) <= WireMax
  /\ wire' = wire \o bytes
  /\ UNCHANGED <<port, irq, ring, decoder, exit_requested, reader, due>>

\* What pressing a key means, given the modifiers held at that moment.
Meaning(key) ==
  IF key.ext THEN <<Ascii(key.base, "key")>>
  ELSE IF key \in {Shift, Ctrl} \/ (Ctrl \in held /\ key.base = "c") THEN <<>>
  ELSE <<Ascii(key.base, IF Ctrl \in held THEN "control"
                         ELSE IF Shift \in held THEN "upper" ELSE "lower")>>

\* A key goes down, or repeats.
Press(key) ==
  /\ Sends(Bytes(key, TRUE))
  /\ held' = held \cup {key} /\ Cardinality(held') <= MaxHeld
  /\ typed' = typed \o Meaning(key)

Release(key) ==
  /\ key \in held
  /\ Sends(Bytes(key, FALSE))
  /\ held' = held \ {key}
  /\ UNCHANGED typed

PortFills ==
  /\ ~port.full /\ wire # <<>>
  /\ port' = [byte |-> Head(wire), full |-> TRUE]
  /\ wire' = Tail(wire) /\ irq' = TRUE
  /\ UNCHANGED <<held, ring, decoder, exit_requested, reader, typed, due>>

(***************************************************************************)
(* Decoding.                                                               *)
(***************************************************************************)
kbd_push(key) ==
  IF Succ(kbd_head) = kbd_tail
  THEN UNCHANGED <<kbd_buf, kbd_head, due>>
  ELSE /\ kbd_buf' = [kbd_buf EXCEPT ![kbd_head] = key]
       /\ kbd_head' = Succ(kbd_head)
       /\ due' = IF typed = <<>> THEN due ELSE Append(due, Head(typed))

Pushes(key) ==
  /\ kbd_push(key)
  /\ typed' = IF typed = <<>> THEN <<>> ELSE Tail(typed)
  /\ UNCHANGED kbd_tail
NoKey == UNCHANGED <<ring, due, typed>>

\* Whether the byte completes Ctrl+C.
Kills(sc) == kbd_ctrl /\ ~kbd_ext /\ sc.make /\ sc.code = "c"

DecodeModifier(sc) ==
  /\ kbd_shift' = IF sc.code = "shift" THEN sc.make ELSE kbd_shift
  /\ kbd_ctrl' = IF sc.code = "ctrl" THEN sc.make ELSE kbd_ctrl
  /\ kbd_ext' = FALSE
  /\ NoKey /\ UNCHANGED <<key_down, ext_key_down>>

\* Mutant: the prefix of a released key is taken to belong to the next byte.
BreakKeepsPrefix(sc) ==
  /\ IF kbd_ext THEN ext_key_down' = ext_key_down \ {sc.code} /\ UNCHANGED key_down
     ELSE key_down' = key_down \ {sc.code} /\ UNCHANGED ext_key_down
  /\ NoKey /\ UNCHANGED <<kbd_shift, kbd_ctrl, kbd_ext>>

DecodeBreak(sc) ==
  /\ IF kbd_ext THEN ext_key_down' = ext_key_down \ {sc.code} /\ UNCHANGED key_down
     ELSE key_down' = key_down \ {sc.code} /\ UNCHANGED ext_key_down
  /\ kbd_ext' = FALSE
  /\ NoKey /\ UNCHANGED <<kbd_shift, kbd_ctrl>>

\* Shift+PgUp and Shift+PgDn, which only move the console's view, are left out.
DecodeExt(sc) ==
  /\ ext_key_down' = ext_key_down \cup {sc.code}
  /\ kbd_ext' = FALSE
  /\ IF sc.code \in Arrows THEN Pushes(Ascii(sc.code, "key")) ELSE NoKey
  /\ UNCHANGED <<kbd_shift, kbd_ctrl, key_down>>

DecodeLetter(sc) ==
  /\ key_down' = key_down \cup {sc.code}
  /\ IF Kills(sc) THEN NoKey
     ELSE Pushes(Ascii(sc.code, IF kbd_ctrl THEN "control"
                                ELSE IF kbd_shift THEN "upper" ELSE "lower"))
  /\ UNCHANGED <<kbd_shift, kbd_ctrl, kbd_ext, ext_key_down>>

kbd_handle_scancode(sc) ==
  CASE sc = Prefix -> /\ kbd_ext' = TRUE /\ NoKey
                      /\ UNCHANGED <<kbd_shift, kbd_ctrl, key_down, ext_key_down>>
    [] sc.code \in {"shift", "ctrl"} -> DecodeModifier(sc)
    [] sc.code \in Letters \cup Arrows /\ ~sc.make -> DecodeBreak(sc)
    [] sc.code \in Letters \cup Arrows /\ sc.make /\ kbd_ext -> DecodeExt(sc)
    [] OTHER -> DecodeLetter(sc)

(***************************************************************************)
(* The interrupts.                                                         *)
(***************************************************************************)
\* Mutant: an interrupt ends the hlt, and the ring is not looked at again.
WakeDrains == pc' = IF pc = "halt" THEN "drain" ELSE pc

\* Either interrupt ends a hlt: kbd_getkey goes on with kbd_pop.
Wake == pc' = IF pc = "halt" THEN "pop" ELSE pc

\* The byte is taken; Ctrl+C in user code goes to the trampoline.
Handles ==
  /\ kbd_handle_scancode(port.byte)
  /\ port' = [port EXCEPT !.full = FALSE]
  /\ exit_requested' = (exit_requested \/ (Kills(port.byte) /\ pc # "user"))

\* Mutant: the handler reads without looking whether there is a byte.
IRQ1Unchecked ==
  /\ irq /\ iflag
  /\ irq' = FALSE
  /\ Handles
  /\ Wake
  /\ UNCHANGED <<keyboard, mode, iflag, k>>

IRQ1 ==
  /\ irq /\ iflag
  /\ irq' = FALSE
  /\ IF port.full THEN Handles
     ELSE UNCHANGED <<port, ring, decoder, exit_requested, typed, due>>
  /\ Wake
  /\ UNCHANGED <<keyboard, mode, iflag, k>>

Tick ==
  /\ pc = "halt"
  /\ Wake
  /\ UNCHANGED <<keyboard, port, irq, ring, decoder, exit_requested, mode, iflag, k,
                 typed, due>>

(***************************************************************************)
(* The reader: SYS_GETKEY ("wait") and SYS_GETKEY_NB ("poll").             *)
(***************************************************************************)
Call(m) ==
  /\ pc = "user"
  /\ pc' = "pop" /\ mode' = m /\ iflag' = FALSE
  /\ UNCHANGED <<keyboard, port, irq, ring, decoder, exit_requested, k, typed, due>>

\* Back to the program, or, if exit_requested, to the next one.
Return ==
  /\ pc' = "user" /\ mode' = "none" /\ iflag' = TRUE
  /\ exit_requested' = FALSE

\* kbd_pop up to the read of the key.
PopEmpty ==
  /\ pc = "pop" /\ kbd_head = kbd_tail
  /\ IF mode = "last" THEN Return
     ELSE pc' = "drain" /\ UNCHANGED <<mode, iflag, exit_requested>>
  /\ UNCHANGED <<keyboard, port, irq, ring, decoder, k, typed, due>>

Pop ==
  /\ pc = "pop" /\ kbd_head # kbd_tail
  /\ pc' = "take" /\ k' = kbd_buf[kbd_tail]
  /\ UNCHANGED <<keyboard, port, irq, ring, decoder, exit_requested, mode, iflag,
                 typed, due>>

\* ... and the rest of it: the key is delivered.  What stays in the slot is
\* not read again, and the model forgets it.
Take ==
  /\ pc = "take"
  /\ kbd_tail' = Succ(kbd_tail) /\ kbd_buf' = [kbd_buf EXCEPT ![kbd_tail] = Empty]
  /\ k' = Empty
  /\ due' = IF due = <<>> THEN due ELSE Tail(due)
  /\ Return
  /\ UNCHANGED <<keyboard, port, irq, kbd_head, decoder, typed>>

\* kbd_drain_port finds nothing.
DrainEmpty ==
  /\ pc = "drain" /\ ~port.full
  /\ IF mode = "wait" THEN pc' = "idle" /\ UNCHANGED <<mode, iflag, exit_requested>>
     ELSE Return
  /\ UNCHANGED <<keyboard, port, irq, ring, decoder, k, typed, due>>

\* kbd_drain_port takes a byte.  SYS_GETKEY calls kbd_getkey again when it
\* returns 0 for Ctrl+C.
Drain ==
  /\ pc = "drain" /\ port.full
  /\ kbd_handle_scancode(port.byte)
  /\ port' = [port EXCEPT !.full = FALSE]
  /\ IF Kills(port.byte) /\ mode = "poll" THEN Return
     ELSE /\ pc' = "pop" /\ UNCHANGED iflag
          /\ mode' = IF mode = "poll" THEN "last" ELSE mode
          /\ exit_requested' = (exit_requested \/ Kills(port.byte))
  /\ UNCHANGED <<keyboard, irq, k>>

\* sti; hlt: an interrupt that is pending is taken after the hlt has begun,
\* unless interrupts were enabled before.
Halt ==
  /\ pc = "idle"
  /\ pc' = "halt" /\ iflag' = TRUE
  /\ UNCHANGED <<keyboard, port, irq, ring, decoder, exit_requested, mode, k, typed, due>>

Reader == PopEmpty \/ Pop \/ Take \/ DrainEmpty \/ Drain \/ Halt

Next ==
  \/ \E key \in PhysicalKeys : Press(key) \/ Release(key)
  \/ PortFills \/ IRQ1 \/ Tick
  \/ \E m \in {"wait", "poll"} : Call(m)
  \/ Reader

(***************************************************************************)
(* The keyboard sends what it has, an enabled interrupt is taken, the      *)
(* timer goes on ticking and the kernel goes on running.                   *)
(***************************************************************************)
Fairness == WF_vars(PortFills) /\ WF_vars(IRQ1) /\ WF_vars(Tick) /\ WF_vars(Reader)
Spec == Init /\ [][Next]_vars /\ Fairness

(***************************************************************************)
(* Properties.                                                             *)
(***************************************************************************)
\* Every variable keeps its range.
TypeOK ==
  /\ held \subseteq PhysicalKeys /\ wire \in Seq(Byte) /\ Len(wire) <= WireMax
  /\ port \in [byte : Byte, full : BOOLEAN] /\ irq \in BOOLEAN
  /\ kbd_buf \in [Slots -> KeyCode \cup {Empty}] /\ kbd_head \in Slots /\ kbd_tail \in Slots
  /\ kbd_shift \in BOOLEAN /\ kbd_ctrl \in BOOLEAN /\ kbd_ext \in BOOLEAN
  /\ key_down \subseteq Letters /\ ext_key_down \subseteq Arrows
  /\ exit_requested \in BOOLEAN
  /\ pc \in {"user", "pop", "take", "drain", "idle", "halt"}
  /\ mode \in {"wait", "poll", "last", "none"} /\ iflag \in BOOLEAN
  /\ k \in KeyCode \cup {Empty}
  /\ typed \in Seq(KeyCode) /\ due \in Seq(KeyCode)

\* The keys in the ring, oldest first.
RingKeys ==
  [n \in 1 .. (kbd_head - kbd_tail) % KBD_BUF_SIZE |->
     kbd_buf[(kbd_tail + n - 1) % KBD_BUF_SIZE]]

\* Nothing is on its way from the keyboard.
Quiet == wire = <<>> /\ ~port.full

\* Whoever takes the bytes, the ring holds the keys typed, each once, in order
\* and with the modifiers held when it was typed, less those a full ring
\* dropped; a key half taken by kbd_pop is not overwritten by the interrupt.
RingHoldsTyped ==
  /\ RingKeys = due
  /\ pc = "take" => due # <<>> /\ k = Head(due)
  /\ Quiet => typed = <<>>

\* sys_keystate tells the keys held, also after keys were dropped, and no
\* modifier or prefix is left over from an earlier key.
KeyStateTracksKeys ==
  Quiet =>
    /\ key_down = {b \in Letters : Plain(b) \in held}
    /\ ext_key_down = {b \in Arrows : [base |-> b, ext |-> TRUE] \in held}
    /\ kbd_shift = (Shift \in held) /\ kbd_ctrl = (Ctrl \in held) /\ ~kbd_ext

\* A program that waits for a key gets one that is typed, even when IRQ1 puts
\* it into the ring between kbd_getkey's last look and its hlt.
KeyReachesReader ==
  pc = "halt" /\ (typed # <<>> \/ due # <<>>) ~> pc = "user"

=============================================================================
