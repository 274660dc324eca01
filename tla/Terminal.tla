------------------------------ MODULE Terminal ------------------------------
(***************************************************************************)
(* The terminal above the screen: terminal/terminal.c, the teletype of     *)
(* terminal/advanced/advanced.c, and input of ps2/keyboard.c, as operators.*)
(* A terminal is a record of the screen, as either branch of display.c     *)
(* would have it, and of terminal_write's current_color.  A read in progress is a record  *)
(* of its own.                                                             *)
(***************************************************************************)
EXTENDS Screen

CONSTANTS
  SegmentMax    \* the characters of terminal_write's segment, 127

ASSUME TerminalAssumption == SegmentMax \in Nat \ {0}

Digits == {"0", "1", "2", "3", "4", "5", "6", "7", "8", "9"}
Digit(c) == CHOOSE n \in 0 .. 9 : ToString(n) = c

AnsiDefault == 7                         \* light grey on black

(* What is asked of the display functions, for each of their branches. *)
Show(term, Op(_)) ==
  [text |-> Op(term.text), bitmap |-> Op(term.bitmap), color |-> term.color]

-----------------------------------------------------------------------------
(* apply_sgr_code; ansi_fg_bright is ansi_fg with the bright bit. *)
ansi_fg == <<0, 4, 2, 6, 1, 5, 3, 7>>

apply_sgr_code(current, code) ==
  LET fg == current % 16
      bg == current \div 16
      Pair(f, b) == (b * 16) + f
  IN CASE code = 0          -> AnsiDefault
       [] code = 1          -> Pair(IF fg < 8 THEN fg + 8 ELSE fg, bg)
       [] code = 22         -> Pair(fg % 8, bg)
       [] code = 39         -> Pair(AnsiDefault % 16, bg)
       [] code = 49         -> Pair(fg, AnsiDefault \div 16)
       [] code \in 30 .. 37 -> Pair(ansi_fg[code - 29], bg)
       [] code \in 90 .. 97 -> Pair(ansi_fg[code - 89] + 8, bg)
       [] code \in 40 .. 47 -> Pair(fg, ansi_fg[code - 39])
       [] code \in 100 .. 107 -> Pair(fg, ansi_fg[code - 99] + 8)
       [] OTHER             -> current

(* The codes of an escape sequence: a semicolon ends one, 0 when it has no    *)
(* digits; the last one counts when it has some; there is room for eight.    *)
Codes(params) ==
  LET Step(t, c) ==
        IF c = ";"
        THEN [codes |-> Append(t.codes, IF t.have THEN t.value ELSE 0),
              value |-> 0, have |-> FALSE]
        ELSE [t EXCEPT !.value = (10 * t.value) + Digit(c), !.have = TRUE]
      end == FoldLeft(Step, [codes |-> <<>>, value |-> 0, have |-> FALSE], params)
      all == IF end.have THEN Append(end.codes, end.value) ELSE end.codes
  IN SubSeq(all, 1, IF Len(all) < 8 THEN Len(all) ELSE 8)

NewColor(color, codes) ==
  IF codes = <<>> THEN AnsiDefault ELSE FoldLeft(apply_sgr_code, color, codes)

(* flush_segment prints the segment as a string: up to its first NUL. *)
CString(str) ==
  LET ends == {i \in 1 .. Len(str) : str[i] = NUL}
  IN IF ends = {} THEN str ELSE SubSeq(str, 1, (CHOOSE i \in ends : \A j \in ends : i <= j) - 1)

flush_segment(w) ==
  [w EXCEPT !.term = Show(w.term, LAMBDA s : print_color(s, CString(w.segment), w.term.color)),
            !.segment = <<>>]

(* Where the parameters of an escape sequence that begins at i end. *)
Terminator(buffer, i) ==
  CHOOSE j \in i .. Len(buffer) + 1 :
    /\ \A k \in i .. j - 1 : buffer[k] \in Digits \cup {";"}
    /\ j = Len(buffer) + 1 \/ buffer[j] \notin Digits \cup {";"}

(* A turn of terminal_write's loop at the i-th character, the next it looks  *)
(* at: an escape sequence takes it past its end.                             *)
WriteTurn(buffer, w, i) ==
  IF i < w.next THEN w
  ELSE IF buffer[i] = ESC /\ i < Len(buffer) /\ buffer[i + 1] = "["
  THEN LET j == Terminator(buffer, i + 2)
           f == [flush_segment(w) EXCEPT !.next = j + 1]
       IN IF j <= Len(buffer) /\ buffer[j] = "m"
          THEN [f EXCEPT !.term.color = NewColor(@, Codes(SubSeq(buffer, i + 2, j - 1)))]
          ELSE f
  ELSE LET t == [w EXCEPT !.segment = Append(@, buffer[i])]
       IN IF Len(t.segment) = SegmentMax THEN flush_segment(t) ELSE t

\* mutant: current_color is not static, and every call begins with the default
terminal_write_anew(term, buffer) ==
  flush_segment(FoldLeftDomain(LAMBDA w, i : WriteTurn(buffer, w, i),
    [term |-> [term EXCEPT !.color = AnsiDefault], segment |-> <<>>, next |-> 1], buffer)).term

terminal_write(term, buffer) ==
  flush_segment(FoldLeftDomain(LAMBDA w, i : WriteTurn(buffer, w, i),
    [term |-> term, segment |-> <<>>, next |-> 1], buffer)).term

(* A packet for the teletype: its string goes to a place on the screen, and  *)
(* the packet's place moves on by the string, at most to the next row.       *)
teletype_write(term, packet) ==
  LET x == packet.x + Len(packet.buffer)
      color == IF packet.with_color THEN packet.color ELSE DefaultColor
      place == IF x >= Width THEN <<0, packet.y + 1>> ELSE <<x, packet.y>>
      Op(s) == LET t == set_string(s, packet.x, packet.y, packet.buffer, color)
               IN IF packet.move_cursor THEN set_cursor_position(t, place[1], place[2]) ELSE t
  IN Show(term, Op)

-----------------------------------------------------------------------------
(* Reads.  `out' is what the caller's buffer holds of the line, i its index. *)
NewRead(kind, size) == [kind |-> kind, size |-> size, out |-> <<>>, done |-> size = 0]

Erased(out) == SubSeq(out, 1, Len(out) - 1)
Full(read, out) == Len(out) = read.size

(* One key of input, which ends with a line feed or a full buffer.  The zero  *)
(* that ends a full line falls behind the buffer and is left out.            *)
InputKey(read, ch) ==
  CASE ch = LF -> [read EXCEPT !.done = TRUE]
    [] ch = BS -> [read EXCEPT !.out = IF @ = <<>> THEN @ ELSE Erased(@)]
    [] OTHER   -> LET out == Append(read.out, ch)
                  IN [read EXCEPT !.out = out, !.done = Full(read, out)]

(* ... its echo, and the line feed of its end. *)
InputEcho(term, read, ch) ==
  LET echoed == IF ch = LF \/ (ch = BS /\ read.out = <<>>) THEN term
                ELSE Show(term, LAMBDA s : printf_c(s, ch))
  IN IF InputKey(read, ch).done THEN Show(echoed, append_newline) ELSE echoed

\* mutant: the step back leaves the index one too far
TerminalKeyLate(read, ch) ==
  IF read.kind.line /\ ch = BS
  THEN [read EXCEPT !.out = IF @ = <<>> THEN @ ELSE Append(Erased(@), NUL)]
  ELSE LET out == Append(read.out, ch)
       IN [read EXCEPT !.out = out, !.done = Full(read, out) \/ (read.kind.line /\ ch = LF)]

(* One key of terminal_read, raw, or by lines: the line feed is part of the  *)
(* line.                                                                     *)
TerminalKey(read, ch) ==
  IF read.kind.line /\ ch = BS
  THEN [read EXCEPT !.out = IF @ = <<>> THEN @ ELSE Erased(@)]
  ELSE LET out == Append(read.out, ch)
       IN [read EXCEPT !.out = out, !.done = Full(read, out) \/ (read.kind.line /\ ch = LF)]

(* ... and its echo: a backspace is a space that goes forward, and nothing   *)
(* when there is nothing to erase.                                           *)
TerminalEcho(term, read, ch) ==
  CASE ~ read.kind.echo \/ (read.kind.line /\ ch = BS /\ read.out = <<>>) -> term
    [] read.kind.line /\ ch = BS /\ read.out # <<>> /\ read.kind.echo ->
         Show(term, LAMBDA s : print_color(s, <<Blank>>, DefaultColor))
    [] OTHER -> Show(term, LAMBDA s : print_color(s, <<ch>>, DefaultColor))
=============================================================================
