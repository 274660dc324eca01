------------------------------- MODULE Console -------------------------------
(***************************************************************************)
(* The console: the keyboard's interrupts below, lines read from it and    *)
(* text written to the screen above.  The main program is the kernel's     *)
(* loop, which asks for a file (kernel.c), or a program it started, which  *)
(* reads and writes through terminal.c and writes packets to the teletype. *)
(***************************************************************************)
EXTENDS Keyboard, Terminal, FiniteSets

CONSTANTS
  Reads,      \* the reads programs make: [kind, size]
  PathSize,   \* the size main passes to input, 127
  Writes,     \* what programs write to the terminal
  Packets,    \* what programs write to the teletype
  MaxJobs     \* bound: reads and writes

VARIABLES
  term,       \* the terminal
  reader,     \* the read in progress, or the last one
  line,       \* history: the characters it was given
  jobs        \* how many reads and writes there were

consoleVars == <<term, reader, line, jobs>>
allVars == <<vars, consoleVars>>

(* The character of a key as the screen sees it. *)
CharOf(c) ==
  CASE c[1] = "enter" -> LF
    [] c[1] = "bs"    -> BS
    [] OTHER          -> IF c[2] THEN c[1] \o "^" ELSE c[1]

Prompt == <<">">>
ShellRead == [shell |-> TRUE, line |-> TRUE, echo |-> TRUE]

(* terminal_read's kinds are the bits of its mode.  What is written is a      *)
(* sequence of characters.  The layout's entries that are 0 produce no        *)
(* character, so none is a NUL.                                               *)
ASSUME ConsoleAssumption ==
  /\ Reads \subseteq [kind : [shell : {FALSE}, line : BOOLEAN, echo : BOOLEAN], size : Nat]
  /\ PathSize \in Nat
  /\ \A str \in Writes \cup {packet.buffer : packet \in Packets} : str \in Seq(Range(str))
  /\ \A c \in Chars : CharOf(c) # NUL

Cleared(valid) ==
  clear_screen([cells_valid |-> valid, x |-> 0, y |-> 0, cursor |-> <<0, 0>>,
                cell |-> [p \in Places |-> [ch |-> NUL, color |-> DefaultColor]],
                drawn |-> [p \in Places |-> Drawing(NUL, DefaultColor)]])

ConsoleInit ==
  /\ Init
  /\ term = [text |-> Cleared(TRUE), bitmap |-> Cleared(FALSE), color |-> AnsiDefault]
  /\ reader = NewRead(ShellRead, 0)
  /\ line = <<>>
  /\ jobs = 0

-----------------------------------------------------------------------------
Idle == Main /\ pc = "run" /\ reader.done /\ jobs < MaxJobs
Job == Idle /\ jobs' = jobs + 1 /\ UNCHANGED vars

(* The kernel's loop: clear the screen, ask, read a path. *)
main ==
  /\ Job
  /\ term' = Show(Show(term, clear_screen), LAMBDA s : print(s, Prompt))
  /\ reader' = NewRead(ShellRead, PathSize)
  /\ line' = <<>>

terminal_read(kind, size) ==
  /\ Job
  /\ reader' = NewRead(kind, size)
  /\ line' = <<>>
  /\ UNCHANGED term

Write(buffer) ==
  /\ Job
  /\ term' = terminal_write(term, buffer)
  /\ UNCHANGED <<reader, line>>

WritePacket(packet) ==
  /\ Job
  /\ term' = teletype_write(term, packet)
  /\ UNCHANGED <<reader, line>>

(* A fault: interrupt_panic clears the screen and paints it; only its colour  *)
(* and its title are kept of the report.                                     *)
Panic ==
  /\ interrupt_panic
  /\ reader.done
  /\ term' = Show(term, LAMBDA s : print_color(change_screen_color(clear_screen(s), 31), Prompt, 113))
  /\ UNCHANGED <<reader, line, jobs>>

AskKey ==
  /\ wait_for_keypress
  /\ ~ reader.done
  /\ UNCHANGED consoleVars

ReadKey ==
  LET ch == CharOf(simple.char)
  IN /\ TakeKey
     /\ line' = Append(line, ch)
     /\ reader' = IF reader.kind.shell THEN InputKey(reader, ch) ELSE TerminalKey(reader, ch)
     /\ term' = IF reader.kind.shell THEN InputEcho(term, reader, ch)
                                     ELSE TerminalEcho(term, reader, ch)
     /\ UNCHANGED jobs

ConsoleNext ==
  \/ main
  \/ \E r \in Reads : terminal_read(r.kind, r.size)
  \/ \E buffer \in Writes : Write(buffer)
  \/ \E packet \in Packets : WritePacket(packet)
  \/ Panic
  \/ AskKey
  \/ ReadKey
  \/ /\ \/ \E key \in Keys, down \in BOOLEAN : UserKey(key, down)
        \/ \E irq \in Lines : Interrupt(irq)
        \/ HandlerStep
        \/ Poll \/ Awake \/ Drowse \/ Halt
     /\ UNCHANGED consoleVars

ConsoleSpec == ConsoleInit /\ [][ConsoleNext]_allVars

-----------------------------------------------------------------------------
(* The keys of a line that no backspace took back: none after it erased more *)
(* than was typed after it.                                                  *)
Erasing(keys, from, to) == Cardinality({k \in from .. to : keys[k] = BS})
Typing(keys, from, to) == Cardinality({k \in from .. to : keys[k] # BS})

Survives(keys, i) ==
  /\ keys[i] # BS
  /\ \A j \in i + 1 .. Len(keys) : Erasing(keys, i + 1, j) <= Typing(keys, i + 1, j)

Survivors(keys) == {i \in 1 .. Len(keys) : Survives(keys, i)}

(* `out' is what stands at these places of a line, in their order. *)
TakenInOrder(out, keys, places) ==
  \E at \in [1 .. Len(out) -> places] :
    /\ places = {at[n] : n \in 1 .. Len(out)}
    /\ \A m, n \in 1 .. Len(out) : m < n => at[m] < at[n]
    /\ \A n \in 1 .. Len(out) : out[n] = keys[at[n]]

(* A read by lines gives the program the keys typed, less those taken back,  *)
(* in their order: input without the line feed that ended it, terminal_read  *)
(* with it.  A raw read gives every key.                                     *)
Returned == {i \in Survivors(line) : line[i] # LF \/ ~ reader.kind.shell}

LineIsEdited ==
  IF reader.kind.line THEN TakenInOrder(reader.out, line, Returned) ELSE reader.out = line

(* While a path is typed either branch shows the prompt, the line as it stands *)
(* and nothing else, and the cursor after it, across rows, as long as it has *)
(* not reached the last place of the screen.                                 *)
Shown(s) == [n \in 1 .. Width * Height |-> s.cell[Reading[n]].ch]

Fits(keys) ==
  \A k \in 0 .. Len(keys) :
    Cardinality(Survivors(SubSeq(keys, 1, k))) + Len(Prompt) < Width * Height

ScreenShowsInput ==
  (reader.kind.shell /\ ~ reader.done /\ Fits(line)) =>
    \A s \in {term.text, term.bitmap} :
      LET text == Prompt \o reader.out
      IN /\ SubSeq(Shown(s), 1, Len(text)) = text
         /\ \A n \in Len(text) + 1 .. Width * Height : Shown(s)[n] \in {NUL, Blank}
         /\ <<s.x, s.y>> = Reading[Len(text) + 1]

(* display.c's two branches do the same.  Whatever the driver's mode, storing *)
(* into the cells and moving rows at once, or one cell after the other       *)
(* through the driver's functions, gives the same cells and the same place,  *)
(* and the frame buffer of a driver that draws shows what its cells say.     *)
BranchesAgree ==
  /\ term.text.cell = term.bitmap.cell
  /\ <<term.text.x, term.text.y>> = <<term.bitmap.x, term.bitmap.y>>
  /\ \A p \in Places :
       LET c == term.bitmap.cell[p]
       IN Visible(term.bitmap.drawn[p]) = Visible(Drawing(c.ch, c.color))

(* It makes no difference into how many calls a program cuts what it writes,  *)
(* unless it cuts an escape sequence in two, or writes a NUL, which ends what *)
(* is printed of its segment and nothing else.                               *)
InEscape(buffer, cut) ==
  \E i \in 1 .. cut : /\ buffer[i] = ESC /\ i < Len(buffer) /\ buffer[i + 1] = "["
                      /\ Terminator(buffer, i + 2) > cut

WritesMayBeCut ==
  Idle => \A buffer \in Writes : \A cut \in 1 .. Len(buffer) - 1 :
    (NUL \notin Range(buffer) /\ ~ InEscape(buffer, cut)) =>
      terminal_write(term, buffer) =
      terminal_write(terminal_write(term, SubSeq(buffer, 1, cut)),
                     SubSeq(buffer, cut + 1, Len(buffer)))
=============================================================================
