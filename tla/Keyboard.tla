------------------------------ MODULE Keyboard ------------------------------
(***************************************************************************)
(* Interrupts, the timer and the keyboard: entry32.asm, interrupt/isr.c,   *)
(* interrupt/PIC.c, timer/PIT.c, ps2/keyboard.c.                           *)
(*                                                                         *)
(* Every interrupt goes through a stub that sets the interrupt flag again  *)
(* (isr_common: sti), so a handler may be interrupted at every step; the   *)
(* interrupt controllers hold back lines of lower or equal priority until  *)
(* the handler sends its end-of-interrupt.  `frames' is the stack of       *)
(* handlers, the running one last.  The main program runs when it is       *)
(* empty: it reads keys (wait_for_keypress) or sleeps.                     *)
(***************************************************************************)
EXTENDS Integers, Sequences

CONSTANTS
  Letters,      \* keys that produce a character of their own
  Others,       \* which of the keys below the keyboard has
  SlaveLines,   \* lines 8..15 whose devices ask; none of them is masked
  Masked2,      \* lines 8..15 the firmware had masked in the second controller
  Timer,        \* whether the timer is running
  Naps,         \* the lengths programs sleep for, in ticks
  PanicNap,     \* the 5000 ticks of interrupt_panic
  MaxKeys,      \* bound: keys the user presses, repeats or releases
  MaxWire,      \* bound: bytes waiting in the keyboard
  MaxDepth,     \* bound: handlers on the stack
  MaxTicks      \* bound: where the tick counter stops

ASSUME KeyboardAssumption ==
  /\ Others \subseteq {"enter", "bs", "shift", "caps", "arrow", "menu"}
  /\ Letters \cap {"enter", "bs", "shift", "caps", "arrow", "menu"} = {}
  /\ SlaveLines \subseteq 8 .. 15
  /\ Masked2 \subseteq 8 .. 15
  /\ Timer \in BOOLEAN
  /\ Naps \subseteq Nat
  /\ PanicNap \in Nat
  /\ {MaxKeys, MaxWire, MaxDepth, MaxTicks} \subseteq Nat

VARIABLES
  wire,       \* bytes the keyboard has not handed over yet
  held,       \* the user: the keys held down
  pressed,    \* the user: how often a key was pressed or released
  frames,     \* interrupt handlers on the stack: [irq, at]
  inService,  \* lines in service in the two controllers, the cascade as line 2
  simple,     \* simple_state
  local,      \* local_ticks
  ticks,      \* state.ticks
  pc,         \* where the main program is
  snap,       \* wait_for_keypress: tick
  sleepEnd,   \* sleep_state.end
  panicking,  \* interrupt_panic was entered
  typed,      \* history: characters the handler accepted
  snapAt,     \* history: Len(typed) when the read began
  got         \* history: characters reads returned, and when

keyboardVars == <<wire, held, pressed, simple, typed>>
mainVars == <<pc, snap, sleepEnd, panicking, snapAt, got>>
timerVars == <<local, ticks>>
vars == <<wire, held, pressed, frames, inService, simple, local, ticks, mainVars, typed>>

-----------------------------------------------------------------------------
(* Scan codes: KEY_SCANCODE and KEY_PRESSED of a byte, or KEYBOARD_EXTENDED. *)
Keys == Letters \cup Others
Extended == [key |-> "extended", down |-> FALSE]
Scancodes == [key : Keys, down : BOOLEAN] \cup {Extended}

NoChar == <<"none", FALSE>>
NoKey == "none"

(* keyboard_layout_us: the entry of a key in the plain or the shifted row.   *)
(* "menu" stands for the entries that are 0.                                 *)
keyboard_layout_us(upper, key) ==
  IF key \in Letters THEN <<key, upper>>
  ELSE IF key \in {"enter", "bs"} THEN <<key, FALSE>> ELSE NoChar

Chars == {<<key, FALSE>> : key \in Keys} \cup {<<key, TRUE>> : key \in Keys}

Init ==
  /\ wire = <<>> /\ held = {} /\ pressed = 0
  /\ frames = <<>> /\ inService = {}
  /\ simple = [char |-> NoChar, key |-> NoKey, pressed |-> FALSE,
               shift |-> FALSE, caps |-> FALSE, tick |-> FALSE]
  /\ local = 0 /\ ticks = 0
  /\ pc = "run" /\ snap = FALSE /\ sleepEnd = 0 /\ panicking = FALSE
  /\ typed = <<>> /\ snapAt = 0 /\ got = <<>>

-----------------------------------------------------------------------------
(* The user presses, holds or releases a key; a key with an extended code    *)
(* sends two bytes.                                                          *)
UserKey(key, down) ==
  LET bytes == IF key = "arrow" THEN <<Extended, [key |-> key, down |-> down]>>
                                ELSE <<[key |-> key, down |-> down]>>
  IN /\ pc # "off"
     /\ pressed < MaxKeys
     /\ Len(wire) + Len(bytes) <= MaxWire
     /\ down \/ key \in held
     /\ held' = IF down THEN held \cup {key} ELSE held \ {key}
     /\ wire' = wire \o bytes
     /\ pressed' = pressed + 1
     /\ UNCHANGED <<frames, inService, simple, timerVars, mainVars, typed>>

(* The line of the first controller a line arrives on. *)
Level(irq) == IF irq < 8 THEN irq ELSE 2

Requested(irq) ==
  \/ irq = 0 /\ Timer
  \/ irq = 1 /\ wire # <<>>
  \/ irq \in SlaveLines

(* PIC_remap sends the last initialisation word to the first controller      *)
(* twice, and the second one takes for its own the mask that is restored:    *)
(* its mask stays empty, and with line 9 masked it ends its lines by itself. *)
(* The mode that line 8 selects in the same word is taken to be the PC's.    *)
AutoEnd == 9 \in Masked2

(* A controller lets a line through when none of its lines of that priority  *)
(* or a higher one is in service; hlt ends with any interrupt.               *)
Interrupt(irq) ==
  /\ pc # "off"
  /\ Requested(irq)
  /\ \A i \in inService : i < 8 => Level(irq) < i
  /\ \A i \in inService : irq >= 8 /\ i >= 8 => irq < i
  /\ Len(frames) < MaxDepth
  /\ frames' = Append(frames, [irq |-> irq, at |-> "handler"])
  /\ inService' = inService \cup {Level(irq)} \cup
                    (IF irq >= 8 /\ ~ AutoEnd THEN {irq} ELSE {})
  /\ pc' = IF pc = "halted" THEN "sleep" ELSE pc
  /\ UNCHANGED <<keyboardVars, timerVars, snap, sleepEnd, panicking, snapAt, got>>

Running == frames[Len(frames)]
OnTop(irq, at) == frames # <<>> /\ Running = [irq |-> irq, at |-> at]
Advance(at) == frames' = [frames EXCEPT ![Len(frames)] = [irq |-> Running.irq, at |-> at]]

-----------------------------------------------------------------------------

(* timer_handler: every second interrupt is a tick. *)
timer_handler ==
  /\ OnTop(0, "handler")
  /\ local' = IF local = 1 THEN 0 ELSE local + 1
  /\ ticks' = IF local = 1 /\ ticks < MaxTicks THEN ticks + 1 ELSE ticks
  /\ Advance("ack")
  /\ UNCHANGED <<keyboardVars, inService, mainVars>>

(* keyboard_handler on a key going down: a modifier, an arrow (a code whose  *)
(* prefix was passed over), or a character.                                  *)
Character(s, key) ==
  IF key \in {"shift", "caps", "arrow"} THEN NoChar
  ELSE keyboard_layout_us(s.caps # s.shift, key)

KeyDown(s, key) ==
  LET character == Character(s, key)
      accepted == character # NoChar
  IN [char    |-> IF accepted THEN character ELSE s.char,
      key     |-> IF accepted THEN key ELSE s.key,
      pressed |-> s.pressed \/ accepted,
      shift   |-> s.shift \/ key = "shift",
      caps    |-> IF key = "caps" THEN ~ s.caps ELSE s.caps,
      tick    |-> IF accepted THEN ~ s.tick ELSE s.tick]

KeyUp(s, key) ==
  IF key = "shift" THEN [s EXCEPT !.shift = FALSE] ELSE [s EXCEPT !.pressed = FALSE]

keyboard_handler ==
  LET scancode == Head(wire)
  IN /\ OnTop(1, "handler") /\ wire # <<>>
     /\ wire' = Tail(wire)
     /\ IF scancode = Extended THEN UNCHANGED <<simple, typed>>
        ELSE /\ simple' = IF scancode.down THEN KeyDown(simple, scancode.key)
                                           ELSE KeyUp(simple, scancode.key)
             /\ typed' = IF scancode.down /\ Character(simple, scancode.key) # NoChar
                         THEN Append(typed, Character(simple, scancode.key))
                         ELSE typed
     /\ Advance("ack")
     /\ UNCHANGED <<held, pressed, inService, timerVars, mainVars>>

(* A line nothing was installed for: stub only acknowledges it. *)
NoHandler(irq) ==
  /\ OnTop(irq, "handler")
  /\ Advance("ack")
  /\ UNCHANGED <<keyboardVars, inService, timerVars, mainVars>>

(* The end-of-interrupt command clears the controller's line in service of   *)
(* the highest priority.                                                     *)
EndOf(lines) == {i \in lines : \A j \in lines : i <= j}

\* mutant: a handler's own line is left in service when another is too
AcknowledgedOnce(irq, lines) ==
  LET first == {i \in lines : i < 8}
      second == lines \ first
  IN (IF irq = 0 /\ first # {0} THEN first ELSE first \ EndOf(first)) \cup second

(* The end of stub.  Interrupt numbers are 32 + irq, so that the condition   *)
(* int_no >= 0x40 of the second controller's command never holds: a line of  *)
(* its that does not end by itself stays in service.                         *)
Acknowledged(irq, lines) ==
  LET first == {i \in lines : i < 8}
      second == lines \ first
  IN (first \ EndOf(first)) \cup
     (IF 32 + irq >= 64 THEN second \ EndOf(second) ELSE second)

Acknowledge ==
  /\ frames # <<>> /\ Running.at = "ack"
  /\ inService' = Acknowledged(Running.irq, inService)
  /\ Advance("return")
  /\ UNCHANGED <<keyboardVars, timerVars, mainVars>>

InterruptReturn ==
  /\ frames # <<>> /\ Running.at = "return"
  /\ frames' = SubSeq(frames, 1, Len(frames) - 1)
  /\ UNCHANGED <<keyboardVars, inService, timerVars, mainVars>>

-----------------------------------------------------------------------------
(* The main program, which runs when no handler does. *)
Main == frames = <<>>
MainOnly == UNCHANGED <<keyboardVars, frames, inService, timerVars>>

\* mutant: the tick is only read by the first call
wait_for_keypress_once ==
  /\ Main /\ pc = "run"
  /\ snap' = IF got = <<>> THEN simple.tick ELSE snap
  /\ snapAt' = Len(typed)
  /\ pc' = "poll"
  /\ MainOnly /\ UNCHANGED <<sleepEnd, panicking, got>>

wait_for_keypress ==
  /\ Main /\ pc = "run"
  /\ snap' = simple.tick
  /\ snapAt' = Len(typed)
  /\ pc' = "poll"
  /\ MainOnly /\ UNCHANGED <<sleepEnd, panicking, got>>

\* mutant: the key must still be down when it is seen
PollPressed ==
  /\ Main /\ pc = "poll"
  /\ simple.tick # snap /\ simple.pressed
  /\ pc' = "take"
  /\ MainOnly /\ UNCHANGED <<snap, sleepEnd, panicking, snapAt, got>>

Poll ==
  /\ Main /\ pc = "poll"
  /\ simple.tick # snap
  /\ pc' = "take"
  /\ MainOnly /\ UNCHANGED <<snap, sleepEnd, panicking, snapAt, got>>

TakeKey ==
  /\ Main /\ pc = "take"
  /\ got' = Append(got, [char |-> simple.char, from |-> snapAt, at |-> Len(typed)])
  /\ pc' = "run"
  /\ MainOnly /\ UNCHANGED <<snap, sleepEnd, panicking, snapAt>>

(* sleep, of a program or of interrupt_panic after a fault of one; MaxTicks  *)
(* bounds how late it may begin.                                             *)
sleep(ms) ==
  /\ ticks + ms <= MaxTicks
  /\ sleepEnd' = ticks + ms
  /\ pc' = "sleep"
  /\ MainOnly /\ UNCHANGED <<snap, snapAt, got>>

ProgramSleep(ms) == Main /\ pc = "run" /\ sleep(ms) /\ UNCHANGED panicking

interrupt_panic == Main /\ pc = "run" /\ sleep(PanicNap) /\ panicking' = TRUE

(* The loop of sleep: the test, then hlt as an instruction of its own.  After *)
(* the nap of a panic comes reboot.                                          *)
Awake ==
  /\ Main /\ pc = "sleep"
  /\ ticks >= sleepEnd
  /\ pc' = IF panicking THEN "off" ELSE "run"
  /\ MainOnly /\ UNCHANGED <<snap, sleepEnd, panicking, snapAt, got>>

Drowse ==
  /\ Main /\ pc = "sleep"
  /\ ticks < sleepEnd
  /\ pc' = "drowsy"
  /\ MainOnly /\ UNCHANGED <<snap, sleepEnd, panicking, snapAt, got>>

Halt ==
  /\ Main /\ pc = "drowsy"
  /\ pc' = "halted"
  /\ MainOnly /\ UNCHANGED <<snap, sleepEnd, panicking, snapAt, got>>

MainStep ==
  \/ wait_for_keypress \/ Poll \/ TakeKey
  \/ \E ms \in Naps : ProgramSleep(ms)
  \/ interrupt_panic \/ Awake \/ Drowse \/ Halt

HandlerStep ==
  \/ timer_handler \/ keyboard_handler
  \/ \E irq \in SlaveLines : NoHandler(irq)
  \/ Acknowledge \/ InterruptReturn

Lines == {0, 1} \cup SlaveLines

Next ==
  \/ \E key \in Keys, down \in BOOLEAN : UserKey(key, down)
  \/ \E irq \in Lines : Interrupt(irq)
  \/ HandlerStep
  \/ MainStep

Spec == Init /\ [][Next]_vars

(* Handlers run to their end, and the lines that ask are served; the timer is *)
(* slow enough for every handler to return, and for the program to run.      *)
FairSpec ==
  /\ Spec
  /\ \A depth \in 1 .. MaxDepth : SF_vars(Len(frames) = depth /\ HandlerStep)
  /\ \A irq \in {0, 1} : SF_vars(Interrupt(irq))
  /\ SF_vars(Poll \/ TakeKey)
  /\ SF_vars(Awake \/ Drowse \/ Halt)

-----------------------------------------------------------------------------
TypeOK ==
  /\ wire \in Seq(Scancodes)
  /\ held \subseteq Keys
  /\ pressed \in 0 .. MaxKeys
  /\ frames \in Seq([irq : Lines, at : {"handler", "ack", "return"}])
  /\ inService \subseteq Lines \cup {2}
  /\ simple \in [char : Chars \cup {NoChar}, key : Keys \cup {NoKey}, pressed : BOOLEAN,
                  shift : BOOLEAN, caps : BOOLEAN, tick : BOOLEAN]
  /\ local \in 0 .. 1
  /\ ticks \in 0 .. MaxTicks
  /\ pc \in {"run", "poll", "take", "sleep", "drowsy", "halted", "off"}
  /\ snap \in BOOLEAN
  /\ sleepEnd \in 0 .. MaxTicks
  /\ panicking \in BOOLEAN
  /\ typed \in Seq(Chars)
  /\ snapAt \in Nat
  /\ got \in Seq([char : Chars \cup {NoChar}, from : Nat, at : Nat])

(* wait_for_keypress returns a character typed after it was called, the one  *)
(* typed last: however interrupts fall between reading the tick, seeing it   *)
(* change and reading the character, no character is returned twice, after a *)
(* later one, or from before the call.                                       *)
KeysInOrder ==
  \A i \in 1 .. Len(got) :
    /\ got[i].from < got[i].at
    /\ got[i].at <= Len(typed) /\ got[i].char = typed[got[i].at]
    /\ \A j \in 1 .. i - 1 : got[j].at <= got[i].from

(* Whatever was nested in what, the first controller has no line in service  *)
(* once the main program runs again: each command of stub ended the line of  *)
(* the handler that sent it.  A line left in service would never come again, *)
(* as lines of the second controller do not, of which this says nothing.     *)
FirstControllerAcknowledged == Main => inService \subseteq SlaveLines

(* A key that comes while a program waits for one ends the wait, unless the  *)
(* next one comes before the program looks.                                  *)
KeyIsSeen ==
  (pc = "poll" /\ Len(typed) = snapAt + 1) ~> (pc = "take" \/ Len(typed) > snapAt + 1)

(* A program that sleeps wakes, and a kernel that panics reboots, although   *)
(* the timer may interrupt between the test and the hlt.                     *)
Asleep == pc \in {"sleep", "drowsy", "halted"}
SleepEnds == Asleep ~> (~ Asleep)
=============================================================================
