------------------------------- MODULE Screen -------------------------------
(***************************************************************************)
(* The text screen: display/simple/display.c and the text drivers it has   *)
(* its two branches for.  The one branch stores into cells in memory       *)
(* (cells_valid, as of drivers/display/vgabiostext), the other goes        *)
(* through a driver that keeps its cells and draws them itself (as         *)
(* drivers/display/vgabmtext).  A screen is a record: the driver's cells,  *)
(* what such a driver has drawn at each of them, display_data and the      *)
(* hardware cursor.                                                        *)
(*                                                                         *)
(* Width and Height are the mode the installed driver reports: 80 by 25    *)
(* for vgabiostext, 53 by 25 for vgabmtext.  One driver is installed, so   *)
(* they are one pair; nothing here compares what the two drivers would     *)
(* show, each in its own mode.                                             *)
(***************************************************************************)
EXTENDS Integers, Sequences, SequencesExt

CONSTANTS Width, Height

ASSUME ScreenAssumption == Width \in Nat \ {0} /\ Height \in Nat \ {0}

NUL == "NUL"
LF == "LF"
BS == "BS"
ESC == "ESC"
Blank == " "

(* The characters before the space that are told apart. *)
Controls == {NUL, LF, BS, ESC}

DefaultColor == 15                       \* 0x0f, white on black

Cols == 0 .. Width - 1
Rows == 0 .. Height - 1
Places == Cols \X Rows

(* Places in reading order. *)
Reading == [n \in 1 .. Width * Height |-> <<(n - 1) % Width, (n - 1) \div Width>>]

-----------------------------------------------------------------------------
(* vgabmtext: the 16 colours as indexes of the palette it has programmed,    *)
(* and the glyph of a character, a space for those before it.  Characters    *)
(* from 0x80 on, for which the driver reads past its table, are left out.    *)
Palette ==
  <<0, 2, 20, 22, 160, 162, 168, 182, 73, 75, 93, 95, 233, 235, 253, 255>>

letter_bitmap(character) == IF character \in Controls THEN Blank ELSE character

Drawing(character, color) ==
  [glyph |-> letter_bitmap(character), fg |-> Palette[(color % 16) + 1],
   bg |-> Palette[(color \div 16) + 1]]

Visible(d) == IF d.glyph = Blank THEN [d EXCEPT !.fg = d.bg] ELSE d

(* The drivers' functions.  A call outside of the screen does nothing. *)
text_set_char(s, x, y, character, color) ==
  IF <<x, y>> \notin Places THEN s
  ELSE [s EXCEPT !.cell[<<x, y>>] = [ch |-> character, color |-> color]]

bitmap_set_char(s, x, y, character, color) ==
  IF <<x, y>> \notin Places THEN s
  ELSE [s EXCEPT !.cell[<<x, y>>] = [ch |-> character, color |-> color],
                 !.drawn[<<x, y>>] = Drawing(character, color)]

Empty(color) == [p \in Places |-> [ch |-> NUL, color |-> color]]

text_clear_screen(s, color) ==
  [cells_valid |-> s.cells_valid, x |-> s.x, y |-> s.y, cursor |-> s.cursor,
   cell |-> Empty(color), drawn |-> s.drawn]

(* One fill of the frame buffer with the background, and the cells. *)
bitmap_clear_screen(s, color) ==
  [cells_valid |-> s.cells_valid, x |-> s.x, y |-> s.y, cursor |-> s.cursor,
   cell |-> Empty(color),
   drawn |-> [p \in Places |-> [Drawing(NUL, color) EXCEPT !.fg = Drawing(NUL, color).bg]]]

set_char(s, x, y, character, color) ==
  IF s.cells_valid THEN text_set_char(s, x, y, character, color)
                   ELSE bitmap_set_char(s, x, y, character, color)

(* What a cell holds.  display.c asks the drawing driver for it, and takes it *)
(* from memory otherwise: vgabiostext's own get_char has no caller.          *)
get_char(s, x, y) ==
  IF <<x, y>> \in Places THEN s.cell[<<x, y>>] ELSE [ch |-> NUL, color |-> 0]

set_cursor_position(s, x, y) ==
  IF <<x, y>> \in Places /\ s.cells_valid THEN [s EXCEPT !.cursor = <<x, y>>] ELSE s

(* set_string of both drivers: the text wraps to the column it began in and  *)
(* ends with the first character that does not fit.                          *)
set_string(s, x0, y0, str, color) ==
  FoldLeft(LAMBDA t, c :
             IF ~ t.ok THEN t
             ELSE IF c = LF THEN [t EXCEPT !.x = x0, !.y = t.y + 1]
             ELSE LET wraps == t.x + 1 >= Width
                      y == IF wraps THEN t.y + 1 ELSE t.y
                  IN [s |-> set_char(t.s, t.x, t.y, c, color),
                      x |-> IF wraps THEN x0 ELSE t.x + 1, y |-> y,
                      ok |-> <<t.x, t.y>> \in Places /\ y < Height],
           [s |-> s, x |-> x0, y |-> y0, ok |-> TRUE], str).s

-----------------------------------------------------------------------------
(* display.c *)
set_displaydata(s, x, y) ==
  IF x >= Width \/ y >= Height THEN s ELSE [s EXCEPT !.x = x, !.y = y]

inc_displaydata(s) ==
  LET wraps == s.x + 1 >= Width
      y == IF wraps THEN s.y + 1 ELSE s.y
  IN [s EXCEPT !.x = IF wraps THEN 0 ELSE s.x + 1,
               !.y = IF y >= Height THEN Height - 1 ELSE y]

(* One row up, in memory: the last row keeps its colours. *)
ScrollMemory(s) ==
  [s EXCEPT !.cell = [p \in Places |->
     IF p[2] < Height - 1 THEN s.cell[<<p[1], p[2] + 1>>]
                          ELSE [s.cell[p] EXCEPT !.ch = NUL]]]

\* mutant: rows are copied from the bottom up
ScrollDriverUpwards(s) ==
  FoldLeft(LAMBDA t, p :
             IF p[2] < Height - 1
             THEN LET below == get_char(t, p[1], p[2] + 1)
                  IN set_char(t, p[1], p[2], below.ch, below.color)
             ELSE set_char(t, p[1], p[2], NUL, get_char(t, p[1], p[2]).color),
           s, Reverse(Reading))

(* The same with the driver's functions, one cell after the other. *)
ScrollDriver(s) ==
  FoldLeft(LAMBDA t, p :
             IF p[2] < Height - 1
             THEN LET below == get_char(t, p[1], p[2] + 1)
                  IN set_char(t, p[1], p[2], below.ch, below.color)
             ELSE set_char(t, p[1], p[2], NUL, get_char(t, p[1], p[2]).color),
           s, Reading)

Scroll(s) == IF s.cells_valid THEN ScrollMemory(s) ELSE ScrollDriver(s)

(* __write_char_color__, and __write_char__, which keeps the cell's colour. *)
write_char_color(s, x, y, character, color) ==
  LET t == IF y >= Height THEN Scroll(s) ELSE s
      row == IF y >= Height THEN Height - 1 ELSE y
  IN IF character = NUL \/ x >= Width THEN s
     ELSE set_cursor_position(
            set_displaydata(set_char(t, x, row, character, color), x, row), x, row)

write_char(s, x, y, character) ==
  write_char_color(s, x, y, character,
                   get_char(IF y >= Height THEN Scroll(s) ELSE s,
                            x, IF y >= Height THEN Height - 1 ELSE y).color)

append_char(s, character) ==
  LET t == inc_displaydata(write_char(s, s.x, s.y, character))
  IN set_cursor_position(t, t.x, t.y)

append_char_color(s, character, color) ==
  LET t == inc_displaydata(write_char_color(s, s.x, s.y, character, color))
  IN set_cursor_position(t, t.x, t.y)

append_newline(s) ==
  IF s.y + 1 >= Height THEN [Scroll(s) EXCEPT !.x = 0, !.y = Height - 1]
                       ELSE [s EXCEPT !.x = 0, !.y = s.y + 1]

\* mutant: a backspace stays in its row
append_backspace_row(s) ==
  LET x == IF s.x = 0 THEN 0 ELSE s.x - 1
  IN write_char([s EXCEPT !.x = x], x, s.y, Blank)

append_backspace(s) ==
  LET x == IF s.x = 0 THEN Width - 1 ELSE s.x - 1
      y == IF s.x = 0 THEN s.y - 1 ELSE s.y
  IN IF y < 0 THEN write_char([s EXCEPT !.x = 0, !.y = 0], 0, 0, Blank)
     ELSE write_char([s EXCEPT !.x = x, !.y = y], x, y, Blank)

clear_screen(s) ==
  LET t == IF s.cells_valid THEN text_clear_screen(s, DefaultColor)
                            ELSE bitmap_clear_screen(s, DefaultColor)
  IN set_cursor_position([t EXCEPT !.x = 0, !.y = 0], 0, 0)

change_screen_color(s, color) ==
  IF s.cells_valid
  THEN [s EXCEPT !.cell = [p \in Places |-> [s.cell[p] EXCEPT !.color = color]]]
  ELSE FoldLeft(LAMBDA t, p : set_char(t, p[1], p[2], get_char(t, p[1], p[2]).ch, color),
                s, Reading)

(* __append_string__ and what printf does with the characters of its format; *)
(* __append_string_color__ knows the line feed only.                         *)
print(s, str) ==
  FoldLeft(LAMBDA t, c : CASE c = LF -> append_newline(t)
                           [] c = BS -> append_backspace(t)
                           [] OTHER -> append_char(t, c), s, str)

print_color(s, str, color) ==
  FoldLeft(LAMBDA t, c : IF c = LF THEN append_newline(t)
                         ELSE append_char_color(t, c, color), s, str)

(* printf's %c does not leave out the character after a line feed. *)
printf_c(s, c) ==
  LET t == IF c = LF THEN append_newline(s) ELSE s
  IN IF c = BS THEN append_backspace(t) ELSE append_char(t, c)
=============================================================================
