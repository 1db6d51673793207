------------------------------ MODULE Ps2Input ------------------------------
(***************************************************************************)
(* The PS/2 controller (aether-drivers i8042), its evdev devices (input)   *)
(* and the keyboard of the virtual terminals (aether-terminal              *)
(* receive_input_event).  The probe and the interrupt handler read the one *)
(* output buffer of the controller; the handler decodes bytes into events, *)
(* queues them for the readers of the device, and passes each to whichever *)
(* terminal is active then.  The terminal keeps the modifiers: switching   *)
(* (VtScreen) runs concurrently, on another CPU.                           *)
(*                                                                         *)
(* A byte is what it says: the prefix of an extended key, a key pressed or *)
(* released, or a byte of a mouse packet.                                  *)
(***************************************************************************)
EXTENDS VtScreen, Sequences

CONSTANTS
    Keys,              \* the keys used, a subset of AllKeys
    QueueCapacity,     \* INPUT_EVENT_QUEUE_CAPACITY
    MaxMoves,          \* bound: presses, releases, mouse moves and reads
    MaxBytes           \* bound: bytes not read yet

AllKeys == {"shiftL", "shiftR", "ctrlL", "ctrlR", "caps", "a", "1", "up"}
ASSUME Ps2Assumption == Keys \subseteq AllKeys /\ QueueCapacity \in Nat \ {0}

VARIABLES
    probe,        \* what the probe does next; "done" once CONTROLLER is set
    port,         \* the bytes the devices have sent, the first in the output buffer
    irq,          \* an interrupt is pending
    ps2,          \* I8042State
    handler,      \* the interrupt handler
    inputQueue,        \* events of the keyboard and of the mouse for the readers
    modifiers,    \* key_shift, key_ctrl, key_capslock of each terminal
    lastChar,     \* what the last key typed gave, and what it should have
    held,         \* the keys and the button held, and whether caps lock should be on
    moves,
    strayed,      \* history: terminals were switched while a modifier was on or in flight,
                  \* or the probe took the byte of a key
    doubled       \* history: one of two like modifiers was released, the other held
ps2Vars == <<probe, port, irq, ps2, handler, inputQueue, modifiers, lastChar, held, moves, strayed, doubled>>
ps2HistoryVars == <<strayed, doubled>>

HandlerIdle == [at |-> "idle"]
Ps2Init ==
    /\ probe = "controller" /\ port = <<>> /\ irq = FALSE
    /\ ps2 = [extended |-> FALSE, packet |-> <<>>, left |-> FALSE, wheel |-> FALSE, mouse |-> FALSE]
    /\ handler = HandlerIdle
    /\ inputQueue = [keyboard |-> <<>>, mouse |-> <<>>]
    /\ modifiers = [v \in Vt |-> {}]
    /\ lastChar = [got |-> "none", meant |-> "none"]
    /\ held = [keys |-> {}, caps |-> FALSE, left |-> FALSE]
    /\ moves = 0 /\ strayed = FALSE /\ doubled = FALSE

---------------------------------------------------------------------------
(* The devices                                                             *)

Extended(key) == key \in {"ctrlR", "up"}
\* The scan code of a key, which an extended key shares with another
ScanCode(key) == CASE key \in {"ctrlL", "ctrlR"} -> "ctrl" [] OTHER -> key
\* evdev_code_from_set1_scancode; "none" is code 0
EvdevCode(scanCode, extended) ==
    CASE scanCode = "ctrl" -> IF extended THEN "ctrlR" ELSE "ctrlL"
      [] scanCode = "up"   -> IF extended THEN "up" ELSE "none"
      [] OTHER             -> IF extended THEN "none" ELSE scanCode

Modifier(key) ==
    CASE key \in {"shiftL", "shiftR"} -> "shift" [] key \in {"ctrlL", "ctrlR"} -> "ctrl"
      [] key = "caps" -> "caps" [] OTHER -> "none"
HeldModifiers(h) == ({Modifier(k) : k \in h.keys} \ {"none", "caps"})
                    \union (IF h.caps THEN {"caps"} ELSE {})

\* A byte raises an interrupt when it reaches the empty output buffer.
Sends(bytes) ==
    /\ Len(port) + Len(bytes) <= MaxBytes
    /\ port' = port \o bytes
    /\ irq' = (irq \/ port = <<>>)
Moving == moves < MaxMoves /\ moves' = moves + 1

KeyMoves(key) ==
    LET pressed == key \notin held.keys
        after   == [held EXCEPT !.keys = IF pressed THEN @ \union {key} ELSE @ \ {key},
                                !.caps = IF pressed /\ key = "caps" THEN ~@ ELSE @]
        byte    == [kind |-> "key", code |-> ScanCode(key), pressed |-> pressed,
                    mods |-> HeldModifiers(after)]
    IN  /\ Moving /\ probe \notin {"controller", "keyboard", "failed"}
        /\ held' = after
        /\ doubled' = (doubled \/ (~pressed /\ Modifier(key) \in HeldModifiers(after) \ {"caps"}))
        /\ Sends(IF Extended(key) THEN <<[kind |-> "prefix"], byte>> ELSE <<byte>>)
        /\ UNCHANGED <<probe, ps2, handler, inputQueue, modifiers, lastChar, strayed, vtVars>>

\* A packet: the header has the buttons, the last byte stands for the motion.
MouseMoves(left, moved) ==
    /\ Moving /\ ps2.mouse
    /\ held' = [held EXCEPT !.left = left]
    /\ Sends(<<[kind |-> "header", left |-> left]>> \o
             (IF ps2.wheel THEN <<[kind |-> "motion", moved |-> FALSE]>> ELSE <<>>) \o
             <<[kind |-> "motion", moved |-> moved]>>)
    /\ UNCHANGED <<probe, ps2, handler, inputQueue, modifiers, lastChar, ps2HistoryVars, vtVars>>

---------------------------------------------------------------------------
(* The probe, which polls the output buffer                                *)

InitController(ok) ==
    /\ probe = "controller"
    /\ probe' = IF ok THEN "keyboard" ELSE "failed"
    /\ UNCHANGED <<port, irq, ps2, handler, inputQueue, modifiers, lastChar, held, moves, ps2HistoryVars, vtVars>>
InitKeyboard(ok) ==
    /\ probe = "keyboard"
    /\ probe' = IF ok THEN "flush" ELSE "failed"
    /\ UNCHANGED <<port, irq, ps2, handler, inputQueue, modifiers, lastChar, held, moves, ps2HistoryVars, vtVars>>
\* init_mouse flushes what a key has left in the buffer ...
MouseFlush(available) ==
    /\ probe = "flush"
    /\ probe' = IF available THEN "mouse" ELSE "register"
    /\ port' = IF available THEN <<>> ELSE port
    /\ strayed' = (strayed \/ (available /\ port # <<>>))
    /\ UNCHANGED <<irq, ps2, handler, inputQueue, modifiers, lastChar, held, moves, doubled, vtVars>>
\* ... and takes what comes after for the mouse's answer.
InitMouse(ok, wheel) ==
    /\ probe = "mouse"
    /\ ok => port = <<>>
    /\ wheel => ok
    /\ port' = IF port = <<>> THEN port ELSE Tail(port)
    /\ irq' = (irq \/ Len(port) > 1)
    /\ ps2' = [ps2 EXCEPT !.mouse = ok, !.wheel = wheel]
    /\ probe' = "register"
    /\ strayed' = (strayed \/ port # <<>>)
    /\ UNCHANGED <<handler, inputQueue, modifiers, lastChar, held, moves, doubled, vtVars>>
\* CONTROLLER is set: from now on the handler reads.
Published ==
    /\ probe = "register" /\ probe' = "done"
    /\ UNCHANGED <<port, irq, ps2, handler, inputQueue, modifiers, lastChar, held, moves, ps2HistoryVars, vtVars>>

---------------------------------------------------------------------------
(* The interrupt handler                                                   *)

\* Before CONTROLLER is set the interrupt is spent and the byte stays.
Ps2Interrupt ==
    /\ irq /\ handler = HandlerIdle
    /\ irq' = FALSE
    /\ handler' = IF probe = "done" THEN [at |-> "loop"] ELSE HandlerIdle
    /\ UNCHANGED <<probe, port, ps2, inputQueue, modifiers, lastChar, held, moves, ps2HistoryVars, vtVars>>

\* emit_events: the oldest gives way
Emitted(q, events) ==
    LET all == q \o events
    IN  IF Len(all) > QueueCapacity THEN SubSeq(all, Len(all) - QueueCapacity + 1, Len(all)) ELSE all

\* The next byte reaches the buffer when one is read.
PendingData == port' = Tail(port) /\ irq' = (irq \/ Len(port) > 1)

\* keyboard_extended after the code
AfterCodeKept == ps2.extended
AfterCode == FALSE
KeyboardData ==
    LET byte == Head(port)
        code == EvdevCode(byte.code, ps2.extended)
        event == [type |-> "key", code |-> code, pressed |-> byte.pressed, mods |-> byte.mods]
    IN  /\ handler.at = "loop" /\ port # <<>> /\ byte.kind \in {"prefix", "key"}
        /\ PendingData
        /\ IF byte.kind = "prefix"
           THEN ps2' = [ps2 EXCEPT !.extended = TRUE] /\ UNCHANGED <<handler, inputQueue>>
           ELSE /\ ps2' = [ps2 EXCEPT !.extended = AfterCode]
                /\ IF code = "none" THEN UNCHANGED <<handler, inputQueue>>
                   ELSE /\ inputQueue' = [inputQueue EXCEPT !.keyboard = Emitted(@, <<<<code, byte.pressed>>, "syn">>)]
                        /\ handler' = [at |-> "listener", event |-> event]
        /\ UNCHANGED <<probe, modifiers, lastChar, held, moves, ps2HistoryVars, vtVars>>

PacketSize == IF ps2.wheel THEN 3 ELSE 2
\* The bytes of a packet are counted; only a whole one is looked at, and dropped
\* when its first byte is no header.
MouseData ==
    LET packet == Append(ps2.packet, Head(port))
        whole  == Len(packet) = PacketSize
        left   == packet[1].left
        button == IF left # ps2.left THEN <<<<"left", left>>>> ELSE <<>>
        events == (IF packet[Len(packet)].moved THEN <<"rel">> ELSE <<>>) \o button
    IN  /\ handler.at = "loop" /\ port # <<>> /\ Head(port).kind \in {"header", "motion"}
        /\ PendingData
        /\ IF ~whole THEN ps2' = [ps2 EXCEPT !.packet = packet] /\ UNCHANGED inputQueue
           ELSE IF packet[1].kind # "header" THEN ps2' = [ps2 EXCEPT !.packet = <<>>] /\ UNCHANGED inputQueue
           ELSE /\ ps2' = [ps2 EXCEPT !.packet = <<>>, !.left = left]
                /\ inputQueue' = [inputQueue EXCEPT !.mouse = IF events = <<>> THEN @
                                                    ELSE Emitted(@, Append(events, "syn"))]
        /\ UNCHANGED <<probe, handler, modifiers, lastChar, held, moves, ps2HistoryVars, vtVars>>

HandlerDone ==
    /\ handler.at = "loop" /\ port = <<>>
    /\ handler' = HandlerIdle
    /\ UNCHANGED <<probe, port, irq, ps2, inputQueue, modifiers, lastChar, held, moves, ps2HistoryVars, vtVars>>

\* on_input_event: the terminal that is active now
ListenerPicks ==
    /\ handler.at = "listener"
    /\ handler' = [at |-> "receive", event |-> handler.event, v |-> activeVt]
    /\ UNCHANGED <<probe, port, irq, ps2, inputQueue, modifiers, lastChar, held, moves, ps2HistoryVars, vtVars>>

\* tty_lookup_key_char: a capital by shift or caps lock, a shifted digit by shift alone
Letter(mods) == IF ("shift" \in mods) # ("caps" \in mods) THEN "A" ELSE "a"
ShiftedDigit == "!"
Digit(mods) == IF "shift" \in mods THEN ShiftedDigit ELSE "1"
\* tty_translate_key: control makes a control character of a letter, in either case;
\* an arrow is an escape sequence
TranslateKey(key, mods) ==
    IF key = "up" THEN "escape"
    ELSE IF key = "a" /\ "ctrl" \in mods THEN "^A"
    ELSE IF key = "a" THEN Letter(mods) ELSE Digit(mods)

\* receive_input_event
ReceiveInput ==
    LET event == handler.event
        v     == handler.v
        m     == Modifier(event.code)
    IN  /\ handler.at = "receive"
        /\ modifiers' = [modifiers EXCEPT ![v] =
               CASE m \in {"shift", "ctrl"}       -> IF event.pressed THEN @ \union {m} ELSE @ \ {m}
                 [] m = "caps" /\ event.pressed   -> IF m \in @ THEN @ \ {m} ELSE @ \union {m}
                 [] OTHER                         -> @]
        /\ lastChar' = IF m = "none" /\ event.pressed
                       THEN [got   |-> TranslateKey(event.code, modifiers[v]),
                             meant |-> TranslateKey(event.code, event.mods)]
                       ELSE lastChar
        /\ handler' = [at |-> "loop"]
        /\ UNCHANGED <<probe, port, irq, ps2, inputQueue, held, moves, ps2HistoryVars, vtVars>>

\* EvdevFile::read: every reader of a device takes from its one queue
EvdevRead(device, n) ==
    /\ Moving /\ inputQueue[device] # <<>>
    /\ inputQueue' = [inputQueue EXCEPT ![device] = IF n >= Len(@) THEN <<>> ELSE SubSeq(@, n + 1, Len(@))]
    /\ UNCHANGED <<probe, port, irq, ps2, handler, modifiers, lastChar, held, ps2HistoryVars, vtVars>>

\* Another CPU switches terminals.
InputSettled == handler = HandlerIdle /\ port = <<>>
SwitchStep(t) ==
    /\ VtSwitching(t)
    /\ strayed' = (strayed \/ (activeVt' # activeVt /\ (HeldModifiers(held) # {} \/ ~InputSettled)))
    /\ UNCHANGED <<probe, port, irq, ps2, handler, inputQueue, modifiers, lastChar, held, moves, doubled>>

Ps2Next ==
    \/ \E key \in Keys : KeyMoves(key)
    \/ \E left, moved \in BOOLEAN : MouseMoves(left, moved)
    \/ \E ok \in BOOLEAN : InitController(ok) \/ InitKeyboard(ok) \/ MouseFlush(ok)
    \/ \E ok, wheel \in BOOLEAN : InitMouse(ok, wheel)
    \/ Published \/ Ps2Interrupt
    \/ KeyboardData \/ MouseData \/ HandlerDone \/ ListenerPicks \/ ReceiveInput
    \/ \E device \in {"keyboard", "mouse"}, n \in {1, QueueCapacity} : EvdevRead(device, n)
    \/ \E t \in VtThread : SwitchStep(t)
Ps2Spec == VtInit /\ Ps2Init /\ [][Ps2Next]_<<vtVars, ps2Vars>>

---------------------------------------------------------------------------
(* Properties                                                              *)

\* What is typed is what was meant: a key gives the character that the modifiers
\* held when it was pressed call for; once every byte is handled no terminal
\* remembers a modifier that is not held, no prefix waits for a code, and the
\* driver's button is the mouse's.  Excepted: terminals switched while a modifier
\* was on (it stays with the terminal that was left), two keys of one modifier
\* held at a time (the first release clears it), and keys the probe took for the
\* answers of the mouse.
InputTrue ==
    /\ strayed \/ doubled \/ lastChar.got = lastChar.meant
    /\ InputSettled /\ probe = "done" =>
          /\ ~ps2.extended /\ ps2.packet = <<>> /\ ps2.left = held.left
          /\ strayed \/ doubled \/ \A v \in Vt : modifiers[v] \subseteq HeldModifiers(held)
=============================================================================
