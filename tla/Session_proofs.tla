---------------------------- MODULE Session_proofs ----------------------------
(***************************************************************************)
(* Proofs about Session: descriptors, screen and stored program stay       *)
(* consistent for every table, every set of files and whatever is typed.   *)
(*                                                                         *)
(* Texts are not typed: no property depends on their letters.  What the    *)
(* operators of Basic do to the interpreter's fields is put in relations   *)
(* between the fields before and after (Kept, Goes), which compose.        *)
(***************************************************************************)
EXTENDS Session, FiniteSetTheorems, SequenceTheorems, WellFoundedInduction, TLAPS

(* The fields of the source's two structures, and what they hold.          *)
Fields == {"input", "ch", "end", "buffer", "previous_buffer", "row_dirty", "input_dirty",
           "last_input", "last_running", "variables", "running", "program", "program_maxlen",
           "current_line_number", "goto_performed", "freed", "fault"}
IsProgram(p) == /\ p \in Seq({p[i] : i \in DOMAIN p})
                /\ \A i \in DOMAIN p : p[i].ln \in Nat
IsApp(a) == /\ DOMAIN a = Fields
            /\ a.end \in BOOLEAN /\ a.running \in BOOLEAN /\ a.goto_performed \in BOOLEAN
            /\ a.freed \in BOOLEAN /\ a.input_dirty \in BOOLEAN
            /\ a.buffer = [r \in 1 .. Rows |-> a.buffer[r]]
            /\ a.row_dirty \in [1 .. Rows -> BOOLEAN]
            /\ IsProgram(a.program)
            /\ a.current_line_number \in Nat

(* setup leaves a state of the right shape.                                *)
LEMMA FreshIsApp == IsApp(Fresh)
  <1>1. IsProgram(Fresh.program)
    BY DEF Fresh, IsProgram
  <1> QED BY <1>1 DEF IsApp, Fresh, Fields


(* The cache is left alone, or told that more has changed.                 *)
Caching(a, b) ==
  /\ b.previous_buffer = a.previous_buffer /\ b.last_input = a.last_input
  /\ a.input_dirty => b.input_dirty
  /\ \A r \in 1 .. Rows : a.row_dirty[r] => b.row_dirty[r]

(* Freed and ended go together.                                            *)
Ending(a, b) == \/ (b.freed <=> a.freed) /\ (b.end <=> a.end)
                \/ b.freed /\ b.end

(* What no command touches.                                                *)
Kept(a, b) == b.program = a.program /\ b.input = a.input /\ Caching(a, b) /\ Ending(a, b)

(* ProgramConsistent, of any fields.                                       *)
Ordered(a) == \A i, j \in DOMAIN a.program : i < j => a.program[i].ln < a.program[j].ln
InRange(a) == a.running => a.current_line_number < Len(a.program)

(* A way to go on from a to b.                                             *)
Goes(a, b) == /\ IsApp(b) /\ Caching(a, b) /\ Ending(a, b)
              /\ Ordered(a) => Ordered(b)
              /\ InRange(a) => InRange(b)

Carried(a, r) == /\ IsApp(r.app) /\ r.ok \in BOOLEAN
                 /\ Kept(a, r.app)
                 /\ InRange(a) => InRange(r.app)

(* append_buffer changes the rows and nothing else.                        *)
LEMMA LinesShown ==
  ASSUME NEW a, IsApp(a), NEW lines
  PROVE  /\ IsApp(append_lines(a, lines)) /\ Kept(a, append_lines(a, lines))
         /\ append_lines(a, lines).running = a.running
         /\ append_lines(a, lines).variables = a.variables
         /\ append_lines(a, lines).current_line_number = a.current_line_number
         /\ append_lines(a, lines).freed = a.freed /\ append_lines(a, lines).end = a.end
         /\ InRange(a) => InRange(append_lines(a, lines))
  BY DEF append_lines, IsApp, Fields, Kept, Caching, Ending, InRange

(* Two commands, or two halves of one, leave alone what each leaves alone. *)
LEMMA KeptTwice ==
  ASSUME NEW a, NEW b, NEW c, Kept(a, b), Kept(b, c)
  PROVE  Kept(a, c)
  BY DEF Kept, Caching, Ending

(* atoi of any word is a number.                                           *)
LEMMA Numerals == \A w : atoi(w) \in Nat
  BY BasicAssumption DEF atoi

(* Min of a set of numbers is its least element: goto, the table's first   *)
(* free entry and kmalloc's address are found by it.                       *)
LEMMA LeastExists ==
  ASSUME NEW S \in SUBSET Nat, S # {}
  PROVE  Min(S) \in S /\ \A x \in S : Min(S) <= x
<1> DEFINE Lesser == OpToRel(<, Nat)
<1>1. Lesser = {p \in Nat \X Nat : p[1] < p[2]}
  BY Zenon DEF OpToRel
<1>2. IsWellFoundedOn(Lesser, Nat)
  BY NatLessThanWellFounded
<1> HIDE DEF Lesser
<1>3. PICK x \in S : \A y \in S : <<y, x>> \notin Lesser
  BY <1>2, WFMin
<1>4. ASSUME NEW y \in S PROVE x <= y
  <2> DEFINE p == <<y, x>>
  <2>1. p \in Nat \X Nat /\ p[1] = y /\ p[2] = x /\ p \notin Lesser
    BY <1>3
  <2> HIDE DEF p
  <2>2. ~(y < x)
    BY <1>1, <2>1
  <2> QED BY <2>2
<1> QED BY <1>4 DEF Min

(* A command that says something, or does nothing, is carried out.         *)
LEMMA FailsOrSays ==
  ASSUME NEW a, IsApp(a), NEW message
  PROVE  Carried(a, Error(a, message)) /\ Carried(a, Done(a)) /\ Carried(a, [app |-> a, ok |-> FALSE])
<1>1. Kept(a, a)
  BY DEF Kept, Caching, Ending
<1> QED BY <1>1, LinesShown DEF Carried, Error, Done, append_buffer

(* run starts only at a line that exists.                                  *)
LEMMA RunCarried ==
  ASSUME NEW a, IsApp(a)
  PROVE  Carried(a, run(a))
<1> DEFINE b == IF a.running THEN append_buffer(a, <<"?RUNNING ERROR">>) ELSE a
<1>0. Kept(a, a)
  BY DEF Kept, Caching, Ending
<1>1. /\ IsApp(b) /\ Kept(a, b) /\ b.running = a.running
      /\ b.current_line_number = a.current_line_number
      /\ b.program = a.program
  <2> DEFINE c == append_buffer(a, <<"?RUNNING ERROR">>)
  <2>1. /\ IsApp(c) /\ Kept(a, c) /\ c.running = a.running
        /\ c.current_line_number = a.current_line_number
    BY LinesShown DEF append_buffer
  <2> HIDE DEF c
  <2>2. b = IF a.running THEN c ELSE a
    BY DEF c
  <2> HIDE DEF b
  <2> QED BY <1>0, <2>1, <2>2 DEF Kept
<1> HIDE DEF b
<1>2. CASE a.current_line_number >= Len(a.program)
  <2> DEFINE c == [b EXCEPT !.running = FALSE, !.current_line_number = 0]
  <2>1. IsApp(c) /\ Kept(b, c) /\ InRange(c)
    BY <1>1 DEF IsApp, Fields, Kept, Caching, Ending, InRange
  <2>2. run(a) = Done(append_buffer(c, <<"?NO PROGRAM">>))
    BY <1>2 DEF run, b
  <2>3. Kept(a, c)
    BY <1>1, <2>1, KeptTwice
  <2> HIDE DEF c
  <2> DEFINE d == append_buffer(c, <<"?NO PROGRAM">>)
  <2>4. IsApp(d) /\ Kept(c, d) /\ InRange(d)
    BY <2>1, LinesShown DEF append_buffer
  <2>5. Kept(a, d)
    BY <2>3, <2>4, KeptTwice
  <2> HIDE DEF d
  <2>6. run(a) = [app |-> d, ok |-> TRUE]
    BY <2>2 DEF Done, d
  <2> QED BY <2>4, <2>5, <2>6 DEF Carried
<1>3. CASE ~(a.current_line_number >= Len(a.program))
  <2> DEFINE c == [b EXCEPT !.running = TRUE]
  <2>0. Len(a.program) \in Nat /\ a.current_line_number \in Nat
    BY DEF IsApp, IsProgram
  <2>1. IsApp(c) /\ Kept(b, c) /\ InRange(c)
    BY <1>1, <1>3, <2>0 DEF IsApp, Fields, Kept, Caching, Ending, InRange
  <2>2. run(a) = Done(c)
    BY <1>3 DEF run, b
  <2> HIDE DEF c
  <2>3. Kept(a, c)
    BY <1>1, <2>1, KeptTwice
  <2> QED BY <2>1, <2>2, <2>3 DEF Carried, Done
<1> QED BY <1>2, <1>3

(* end, quit and cls touch neither the program nor the place in it.        *)
LEMMA EndCarried ==
  ASSUME NEW a, IsApp(a)
  PROVE  Carried(a, end(a)) /\ Carried(a, quit(a)) /\ Carried(a, cls(a))
  BY DEF Carried, Done, end, quit, cls, IsApp, Fields, Kept, Caching, Ending, InRange

(* goto moves to a line that exists, or to none.                           *)
LEMMA GotoCarried ==
  ASSUME NEW a, IsApp(a), NEW tokens
  PROVE  Carried(a, goto(a, tokens))
<1> DEFINE found == LinesNumbered(a, atoi(tokens[2]))
<1>1. CASE Len(tokens) < 2 \/ found = {}
  <2>1. goto(a, tokens) = Error(a, "?SYNTAX ERROR") \/ goto(a, tokens) = Error(a, "?LINE ERROR")
    BY <1>1 DEF goto
  <2>2. Carried(a, Error(a, "?SYNTAX ERROR")) /\ Carried(a, Error(a, "?LINE ERROR"))
    BY FailsOrSays
  <2> QED BY <2>1, <2>2
<1>2. CASE ~(Len(tokens) < 2) /\ found # {}
  <2> DEFINE c == [a EXCEPT !.current_line_number = Min(found) - 1,
                            !.goto_performed = a.running \/ a.goto_performed, !.running = TRUE]
  <2>1. Len(a.program) \in Nat
    BY DEF IsApp, IsProgram
  <2>2. Min(found) \in 1 .. Len(a.program)
    <3>1. found \subseteq 1 .. Len(a.program)
      BY DEF LinesNumbered
    <3>2. found \in SUBSET Nat
      BY <2>1, <3>1
    <3> HIDE DEF found
    <3> QED BY <1>2, <3>1, <3>2, LeastExists
  <2>3. IsApp(c) /\ Kept(a, c) /\ InRange(c)
    BY <2>1, <2>2 DEF IsApp, Fields, Kept, Caching, Ending, InRange
  <2>4. goto(a, tokens) = Done(c)
    BY <1>2 DEF goto
  <2> HIDE DEF c
  <2> QED BY <2>3, <2>4 DEF Carried, Done
<1> QED BY <1>1, <1>2

(* print shows a text, a value or an error, or stops the machine.          *)
LEMMA PrintCarried ==
  ASSUME NEW a, IsApp(a), NEW tokens
  PROVE  Carried(a, print(a, tokens))
<1>1. CASE Len(tokens) < 2
  <2> DEFINE c == [a EXCEPT !.fault = "null pointer"]
  <2>1. Carried(a, [app |-> c, ok |-> TRUE])
    BY DEF Carried, IsApp, Fields, Kept, Caching, Ending, InRange
  <2>2. print(a, tokens) = [app |-> c, ok |-> TRUE]
    BY <1>1 DEF print, Fault, Done
  <2> HIDE DEF c
  <2> QED BY <2>1, <2>2
<1>0. CASE ~(Len(tokens) < 2) /\ tokens[2] \in DOMAIN Literals
  <2> DEFINE c == append_buffer(a, Literals[tokens[2]])
  <2>1. print(a, tokens) = [app |-> c, ok |-> TRUE]
    BY <1>0 DEF print, Done
  <2>2. IsApp(c) /\ Kept(a, c) /\ (InRange(a) => InRange(c))
    BY LinesShown DEF append_buffer
  <2> HIDE DEF c
  <2> QED BY <2>1, <2>2 DEF Carried
<1>2. CASE ~(Len(tokens) < 2) /\ tokens[2] \notin DOMAIN Literals /\ tokens[2] \in Vars
  <2> DEFINE c == append_buffer(a, <<itoa(a.variables[tokens[2]])>>)
  <2>1. print(a, tokens) = [app |-> c, ok |-> TRUE]
    BY <1>2 DEF print, Done
  <2>2. IsApp(c) /\ Kept(a, c) /\ (InRange(a) => InRange(c))
    BY LinesShown DEF append_buffer
  <2> HIDE DEF c
  <2> QED BY <2>1, <2>2 DEF Carried
<1>3. CASE ~(Len(tokens) < 2) /\ tokens[2] \notin DOMAIN Literals /\ tokens[2] \notin Vars
  <2>1. print(a, tokens) = Error(a, "?SYNTAX ERROR")
    BY <1>3 DEF print
  <2> QED BY <2>1, FailsOrSays
<1> QED BY <1>0, <1>1, <1>2, <1>3

(* An assignment changes the variables only.                               *)
LEMMA AssignCarried ==
  ASSUME NEW a, IsApp(a), NEW e
  PROVE  Carried(a, Assign(a, e))
<1>1. \A why : Carried(a, [app |-> [a EXCEPT !.fault = why], ok |-> TRUE])
  BY DEF Carried, IsApp, Fields, Kept, Caching, Ending, InRange
<1>2. \A v : Carried(a, [app |-> [a EXCEPT !.variables = v], ok |-> TRUE])
  BY DEF Carried, IsApp, Fields, Kept, Caching, Ending, InRange
<1>3. [a EXCEPT !.variables[e.to] = eval(a, e)]
        = [a EXCEPT !.variables = [a.variables EXCEPT ![e.to] = eval(a, e)]]
  OBVIOUS
<1> QED BY <1>1, <1>2, <1>3 DEF Assign, Fault, Done

(* list changes the rows only, whatever the freed texts hold by then, or   *)
(* stops the machine.                                                      *)
LEMMA ListCarried ==
  ASSUME NEW a, IsApp(a), NEW r \in list(a)
  PROVE  Carried(a, r)
<1>1. \/ \E lines : r = [app |-> append_lines(a, lines), ok |-> TRUE]
      \/ \E why : r = [app |-> [a EXCEPT !.fault = why], ok |-> TRUE]
  BY Zenon DEF list, Done, Fault
<1>2. \A why : Carried(a, [app |-> [a EXCEPT !.fault = why], ok |-> TRUE])
  BY DEF Carried, IsApp, Fields, Kept, Caching, Ending, InRange
<1>3. ASSUME NEW lines, r = [app |-> append_lines(a, lines), ok |-> TRUE] PROVE Carried(a, r)
  BY <1>3, LinesShown DEF Carried
<1> QED BY <1>1, <1>2, <1>3

(* Every command keeps the place in the program, and leaves the program,   *)
(* the input and the cache alone.                                          *)
LEMMA CommandCarried ==
  ASSUME NEW a, IsApp(a), NEW tokens, NEW r \in commit_instruction(a, tokens)
  PROVE  Carried(a, r)
<1>1. \/ r = [app |-> a, ok |-> FALSE]
      \/ r \in {run(a), end(a), goto(a, tokens), print(a, tokens), cls(a), quit(a)}
      \/ r = Assign(a, Assignments[tokens[1]])
      \/ r \in list(a)
      \/ r = Error(a, "?SYNTAX ERROR")
  BY Zenon DEF commit_instruction
<1>2. CASE r = [app |-> a, ok |-> FALSE] \/ r = Error(a, "?SYNTAX ERROR")
  BY <1>2, FailsOrSays
<1>3. CASE r \in {run(a), end(a), goto(a, tokens), print(a, tokens), cls(a), quit(a)}
  BY <1>3, RunCarried, EndCarried, GotoCarried, PrintCarried
<1>4. CASE r = Assign(a, Assignments[tokens[1]])
  BY <1>4, AssignCarried
<1>5. CASE r \in list(a)
  BY <1>5, ListCarried
<1> QED BY <1>1, <1>2, <1>3, <1>4, <1>5

(* Goes is transitive.                                                     *)
LEMMA GoesTwice ==
  ASSUME NEW a, NEW b, NEW c, Goes(a, b), Goes(b, c)
  PROVE  Goes(a, c)
  BY DEF Goes, Caching, Ending

(* A command carried out is a way to go on.                                *)
LEMMA CarriedGoes ==
  ASSUME NEW a, NEW r, Carried(a, r)
  PROVE  Goes(a, r.app) /\ r.app.input = a.input /\ r.app.program = a.program
  BY DEF Carried, Goes, Kept, Ordered

(* A line behind the last one.                                             *)
LEMMA ProgramAppended ==
  ASSUME NEW p, IsProgram(p), NEW l, l.ln \in Nat
  PROVE  /\ IsProgram(Append(p, l)) /\ Len(Append(p, l)) = Len(p) + 1
         /\ Len(p) \in Nat /\ DOMAIN p = 1 .. Len(p)
         /\ DOMAIN Append(p, l) = 1 .. Len(p) + 1
         /\ \A i \in 1 .. Len(p) + 1 : Append(p, l)[i] = IF i = Len(p) + 1 THEN l ELSE p[i]
<1> DEFINE S == {p[i] : i \in DOMAIN p}
           q == Append(p, l)
<1>1. p \in Seq(S) /\ p \in Seq(S \cup {l}) /\ l \in S \cup {l}
  BY SeqMonotonic DEF IsProgram
<1>2. q \in Seq(S \cup {l}) /\ Len(q) = Len(p) + 1
      /\ \A i \in 1 .. Len(p) + 1 : q[i] = IF i = Len(p) + 1 THEN l ELSE p[i]
  BY <1>1
<1>3. Len(p) \in Nat /\ DOMAIN p = 1 .. Len(p) /\ DOMAIN q = 1 .. Len(p) + 1
  BY <1>1, <1>2, LenProperties
<1>4. \A i \in DOMAIN q : q[i].ln \in Nat
  BY <1>2, <1>3 DEF IsProgram
<1> HIDE DEF q
<1>5. q \in Seq({q[i] : i \in DOMAIN q})
  BY <1>2, <1>3, LenProperties
<1> QED BY <1>2, <1>3, <1>4, <1>5 DEF IsProgram, q

(* A line in the place of another.                                         *)
LEMMA ProgramReplaced ==
  ASSUME NEW p, IsProgram(p), NEW i \in 1 .. Len(p), NEW l, l.ln \in Nat
  PROVE  /\ IsProgram([p EXCEPT ![i] = l]) /\ Len([p EXCEPT ![i] = l]) = Len(p)
         /\ Len(p) \in Nat /\ DOMAIN p = 1 .. Len(p)
         /\ DOMAIN [p EXCEPT ![i] = l] = 1 .. Len(p)
         /\ \A j \in 1 .. Len(p) : [p EXCEPT ![i] = l][j] = IF j = i THEN l ELSE p[j]
<1> DEFINE S == {p[j] : j \in DOMAIN p}
           q == [p EXCEPT ![i] = l]
<1>1. p \in Seq(S \cup {l}) /\ l \in S \cup {l}
  BY SeqMonotonic DEF IsProgram
<1>2. q \in Seq(S \cup {l}) /\ Len(q) = Len(p)
      /\ \A j \in 1 .. Len(p) : q[j] = IF j = i THEN l ELSE p[j]
  BY <1>1, ExceptSeq
<1>3. Len(p) \in Nat /\ DOMAIN p = 1 .. Len(p) /\ DOMAIN q = 1 .. Len(p)
  BY <1>1, <1>2, LenProperties
<1>4. \A j \in DOMAIN q : q[j].ln \in Nat
  BY <1>2, <1>3 DEF IsProgram
<1> HIDE DEF q
<1>5. q \in Seq({q[j] : j \in DOMAIN q})
  BY <1>2, <1>3, LenProperties
<1> QED BY <1>2, <1>3, <1>4, <1>5 DEF IsProgram, q

LEMMA ProgramSet ==
  ASSUME NEW a, IsApp(a), NEW p, IsProgram(p), NEW m
  PROVE  /\ IsApp([a EXCEPT !.program = p]) /\ IsApp([a EXCEPT !.program = p, !.program_maxlen = m])
         /\ Caching(a, [a EXCEPT !.program = p])
         /\ Caching(a, [a EXCEPT !.program = p, !.program_maxlen = m])
         /\ Ending(a, [a EXCEPT !.program = p])
         /\ Ending(a, [a EXCEPT !.program = p, !.program_maxlen = m])
  BY DEF IsApp, Fields, Caching, Ending

(* A stored line keeps the order: it takes the place of its number, or     *)
(* follows the last, which is less.                                        *)
LEMMA StoreLineGoes ==
  ASSUME NEW a, IsApp(a), NEW l, l.ln \in Nat
  PROVE  Goes(a, StoreLine(a, l)) /\ StoreLine(a, l).input = a.input
<1> DEFINE p == a.program
           reached == {i \in 1 .. Len(p) : p[i].ln >= l.ln}
<1>1. IsProgram(p) /\ Len(p) \in Nat /\ DOMAIN p = 1 .. Len(p) /\ a.current_line_number \in Nat
  BY ProgramAppended DEF IsApp
<1>2. CASE reached = {} /\ Len(p) >= ProgramMax
  <2>1. StoreLine(a, l) = Fault(a, "past the program's block")
    BY <1>2 DEF StoreLine, AppendLine
  <2>2. Goes(a, [a EXCEPT !.fault = "past the program's block"])
    BY DEF Goes, IsApp, Fields, Caching, Ending, Ordered, InRange
  <2> QED BY <2>1, <2>2 DEF Fault, IsApp, Fields
<1>3. CASE reached = {} /\ ~(Len(p) >= ProgramMax)
  <2> DEFINE q == Append(p, l)
             m == IF Len(p) = a.program_maxlen THEN 2 * a.program_maxlen ELSE a.program_maxlen
             c == [a EXCEPT !.program = q, !.program_maxlen = m]
  <2>1. StoreLine(a, l) = c
    BY <1>3 DEF StoreLine, AppendLine
  <2>2. /\ IsProgram(q) /\ Len(q) = Len(p) + 1 /\ DOMAIN q = 1 .. Len(p) + 1
        /\ \A i \in 1 .. Len(p) + 1 : q[i] = IF i = Len(p) + 1 THEN l ELSE p[i]
    BY <1>1, ProgramAppended
  <2>3. \A i \in 1 .. Len(p) : p[i].ln < l.ln
    <3> SUFFICES ASSUME NEW i \in 1 .. Len(p) PROVE p[i].ln < l.ln
      OBVIOUS
    <3>1. ~(p[i].ln >= l.ln)
      BY <1>3
    <3>2. p[i].ln \in Nat
      BY <1>1 DEF IsProgram
    <3> QED BY <3>1, <3>2
  <2> HIDE DEF q, m, reached
  <2>4. c.program = q /\ c.input = a.input /\ c.running = a.running
        /\ c.current_line_number = a.current_line_number
    BY DEF IsApp, Fields
  <2>5. IsApp(c) /\ Caching(a, c) /\ Ending(a, c)
    BY <2>2, ProgramSet
  <2>6. Ordered(a) => Ordered(c)
    <3> SUFFICES ASSUME Ordered(a), NEW i \in 1 .. Len(p) + 1, NEW j \in 1 .. Len(p) + 1, i < j
                 PROVE  q[i].ln < q[j].ln
      BY <2>2, <2>4 DEF Ordered
    <3>1. i \in 1 .. Len(p) /\ q[i] = p[i]
      BY <1>1, <2>2
    <3>2. CASE j = Len(p) + 1
      BY <2>2, <2>3, <3>1, <3>2
    <3>3. CASE j # Len(p) + 1
      <4>1. j \in 1 .. Len(p) /\ q[j] = p[j]
        BY <1>1, <2>2, <3>3
      <4>2. p[i].ln < p[j].ln
        BY <1>1, <3>1, <4>1 DEF Ordered
      <4> QED BY <3>1, <4>1, <4>2
    <3> QED BY <3>2, <3>3
  <2>7. InRange(a) => InRange(c)
    BY <1>1, <2>2, <2>4 DEF InRange
  <2> QED BY <2>1, <2>4, <2>5, <2>6, <2>7 DEF Goes
<1>4. CASE reached # {}
  <2> DEFINE i == Min(reached)
  <2>1. i \in 1 .. Len(p)
    <3>1. reached \subseteq 1 .. Len(p) /\ reached \in SUBSET Nat
      BY <1>1
    <3> HIDE DEF reached
    <3> QED BY <1>4, <3>1, LeastExists
  <2>2. CASE p[i].ln = l.ln
    <3> DEFINE q == [p EXCEPT ![i] = l]
               c == [a EXCEPT !.program = q]
    <3>1. StoreLine(a, l) = c
      BY <1>4, <2>2 DEF StoreLine
    <3> HIDE DEF i, reached
    <3>2. /\ IsProgram(q) /\ Len(q) = Len(p) /\ DOMAIN q = 1 .. Len(p)
          /\ \A j \in 1 .. Len(p) : q[j] = IF j = i THEN l ELSE p[j]
      BY <1>1, <2>1, ProgramReplaced
    <3>3. \A j \in 1 .. Len(p) : q[j].ln = p[j].ln
      BY <2>2, <3>2
    <3> HIDE DEF q
    <3>4. c.program = q /\ c.input = a.input /\ c.running = a.running
          /\ c.current_line_number = a.current_line_number
      BY DEF IsApp, Fields
    <3>5. IsApp(c) /\ Caching(a, c) /\ Ending(a, c)
      BY <3>2, ProgramSet
    <3>6. Ordered(a) => Ordered(c)
      BY <1>1, <3>2, <3>3, <3>4 DEF Ordered
    <3>7. InRange(a) => InRange(c)
      BY <1>1, <3>2, <3>4 DEF InRange
    <3> QED BY <3>1, <3>4, <3>5, <3>6, <3>7 DEF Goes
  <2>3. CASE p[i].ln # l.ln
    <3> DEFINE c == append_buffer(a, <<"?LAZINESS ERROR">>)
    <3>1. StoreLine(a, l) = c
      BY <1>4, <2>3 DEF StoreLine
    <3>2. IsApp(c) /\ Kept(a, c) /\ (InRange(a) => InRange(c))
      BY LinesShown DEF append_buffer
    <3> HIDE DEF c
    <3> QED BY <3>1, <3>2 DEF Goes, Kept, Ordered
  <2> QED BY <2>2, <2>3
<1> QED BY <1>2, <1>3, <1>4

(* A typed line is stored or carried out; an empty one does nothing.       *)
LEMMA InterpretedGoes ==
  ASSUME NEW a, IsApp(a), NEW b \in u32erpret_basic(a)
  PROVE  Goes(a, b) /\ b.input = a.input /\ (a.input = << >> => b = a)
<1>0. Goes(a, a)
  BY DEF Goes, Caching, Ending
<1>1. CASE a.input = << >>
  BY <1>0, <1>1 DEF u32erpret_basic
<1>2. CASE a.input # << >> /\ a.input[1] \in DOMAIN NumberOf
  <2> DEFINE l == [ln |-> atoi(a.input[1]), line |-> FirstWord(Tail(a.input))]
  <2>1. b = StoreLine(a, l)
    BY <1>2 DEF u32erpret_basic
  <2>2. l.ln \in Nat
    BY Numerals
  <2> HIDE DEF l
  <2> QED BY <1>2, <2>1, <2>2, StoreLineGoes
<1>3. CASE a.input # << >> /\ a.input[1] \notin DOMAIN NumberOf
  <2>1. PICK r \in commit_instruction(a, a.input) : b = r.app
    BY <1>3 DEF u32erpret_basic
  <2> QED BY <1>3, <2>1, CommandCarried, CarriedGoes
<1> QED BY <1>1, <1>2, <1>3

(* The next line exists, or nothing runs any more.                         *)
LEMMA NextLineGoes ==
  ASSUME NEW a, IsApp(a), InRange(a)
  PROVE  Goes(a, NextLine(a)) /\ NextLine(a).input = a.input
<1> DEFINE first == [a EXCEPT !.running = FALSE, !.goto_performed = FALSE, !.current_line_number = 0]
           next == [a EXCEPT !.current_line_number = a.current_line_number + 1]
<1>1. Len(a.program) \in Nat /\ a.current_line_number \in Nat
  BY ProgramAppended DEF IsApp
<1>2. Goes(a, first) /\ first.input = a.input
  BY DEF Goes, IsApp, Fields, Caching, Ending, Ordered, InRange
<1>3. a.current_line_number + 1 # Len(a.program) => InRange(next)
  BY <1>1 DEF IsApp, Fields, InRange
<1>4. IsApp(next) /\ Caching(a, next) /\ Ending(a, next) /\ next.input = a.input
      /\ next.program = a.program
  BY <1>1 DEF IsApp, Fields, Caching, Ending
<1>5. a.current_line_number + 1 # Len(a.program) => Goes(a, next)
  BY <1>3, <1>4 DEF Goes, Ordered
<1>6. NextLine(a) = IF a.current_line_number + 1 = Len(a.program) THEN first ELSE next
  BY DEF NextLine
<1> QED BY <1>2, <1>4, <1>5, <1>6

(* After a command of the program the interpreter is at a line that        *)
(* exists, or does not run.                                                *)
LEMMA AfterCommitGoes ==
  ASSUME NEW r, IsApp(r.app), InRange(r.app), r.ok \in BOOLEAN
  PROVE  Goes(r.app, AfterCommit(r)) /\ AfterCommit(r).input = r.app.input
<1> DEFINE b == r.app
           stopped == [b EXCEPT !.running = FALSE]
           waiting == [b EXCEPT !.goto_performed = FALSE]
<1>1. Goes(b, stopped) /\ stopped.input = b.input
  BY DEF Goes, IsApp, Fields, Caching, Ending, Ordered, InRange
<1>2. Goes(b, waiting) /\ waiting.input = b.input
  BY DEF Goes, IsApp, Fields, Caching, Ending, Ordered, InRange
<1>3. AfterCommit(r) \in {stopped, waiting, NextLine(waiting)}
  BY DEF AfterCommit
<1> HIDE DEF stopped, waiting
<1>4. Goes(b, NextLine(waiting)) /\ NextLine(waiting).input = b.input
  BY <1>2, NextLineGoes, GoesTwice DEF Goes
<1> QED BY <1>1, <1>2, <1>3, <1>4

(* A turn of the running program, whose stored line is cut after its first *)
(* word.                                                                   *)
LEMMA ContinuedGoes ==
  ASSUME NEW a, IsApp(a), a.running, InRange(a), NEW b \in continue_program(a)
  PROVE  Goes(a, b) /\ b.input = a.input
<1> DEFINE n == a.current_line_number + 1
           l == [a.program[n] EXCEPT !.line = FirstWord(a.program[n].line)]
           p == [a.program EXCEPT ![n] = l]
           cut == [a EXCEPT !.program = p]
<1>1. /\ IsProgram(a.program) /\ Len(a.program) \in Nat /\ DOMAIN a.program = 1 .. Len(a.program)
      /\ n \in 1 .. Len(a.program)
  BY ProgramAppended DEF IsApp, InRange
<1>2. a.program[n].ln \in Nat
  BY <1>1 DEF IsProgram
<1>3. l.ln = a.program[n].ln
  OBVIOUS
<1>4. cut = [a EXCEPT !.program[n].line = FirstWord(a.program[n].line)]
  OBVIOUS
<1>5. PICK r \in commit_instruction(cut, a.program[n].line) : b = AfterCommit(r)
  BY <1>4 DEF continue_program
<1> HIDE DEF l, n
<1>6. /\ IsProgram(p) /\ Len(p) = Len(a.program) /\ DOMAIN p = 1 .. Len(a.program)
      /\ \A j \in 1 .. Len(a.program) : p[j] = IF j = n THEN l ELSE a.program[j]
  BY <1>1, <1>2, <1>3, ProgramReplaced
<1>7. \A j \in 1 .. Len(a.program) : p[j].ln = a.program[j].ln
  BY <1>3, <1>6
<1> HIDE DEF p
<1>8. cut.program = p /\ cut.input = a.input /\ cut.running = a.running
      /\ cut.current_line_number = a.current_line_number
  BY DEF IsApp, Fields
<1>9. IsApp(cut) /\ Caching(a, cut) /\ Ending(a, cut)
  BY <1>6, ProgramSet
<1>10. Goes(a, cut) /\ InRange(cut)
  BY <1>1, <1>6, <1>7, <1>8, <1>9 DEF Goes, Ordered, InRange
<1> HIDE DEF cut
<1>11. Carried(cut, r)
  BY <1>5, <1>9, CommandCarried
<1>12. Goes(cut, r.app) /\ r.app.input = cut.input
  BY <1>11, CarriedGoes
<1>13. Goes(r.app, b) /\ b.input = r.app.input
  BY <1>5, <1>10, <1>11, AfterCommitGoes DEF Carried
<1> QED BY <1>8, <1>10, <1>12, <1>13, GoesTwice

-----------------------------------------------------------------------------
(* The screen and its cache.                                               *)

Prompt(text) == <<"]">> \o text

(* A row that is not dirty is on the screen as it was last drawn, and so   *)
(* is the command line.                                                    *)
Cached(a) == /\ \A r \in 1 .. Rows : ~a.row_dirty[r] => screen.history[r] = a.previous_buffer[r]
             /\ ~a.input_dirty => screen.command = Prompt(a.last_input)

(* What ScreenShowsState asks of the screen.                               *)
Shows(a) == /\ screen.history = a.buffer
            /\ screen.command = Prompt(IF a.input = NULL THEN << >> ELSE a.input)

(* A sequence of one.                                                      *)
LEMMA OneText ==
  ASSUME NEW x
  PROVE  <<x>> # << >> /\ Head(<<x>>) = x
  OBVIOUS

(* What render_command draws while no program runs with an input open:     *)
(* always the prompt and the input, or nothing when the cache says they    *)
(* are there.                                                              *)
LEMMA CommandDrawn ==
  ASSUME NEW a
  PROVE  /\ a.input = NULL => Command(a) # << >> /\ Head(Command(a)) = Prompt(Blank)
         /\ a.input # NULL /\ ~InputChanged(a) => Command(a) = << >>
         /\ a.input # NULL /\ InputChanged(a) /\ ~a.running
              => Command(a) # << >> /\ Head(Command(a)) = Prompt(a.input)
<1>1. <<"]">> = Prompt(Blank)
  <2> DEFINE w == "]"
  <2>1. <<w>> \in Seq({w})
    <3> HIDE DEF w
    <3> QED OBVIOUS
  <2>2. <<w>> \o << >> = <<w>>
    BY <2>1, ConcatEmptySeq
  <2> QED BY <2>2, Zenon DEF Prompt, Blank
<1>2. a.input = NULL => Command(a) = << Prompt(Blank) >>
  BY <1>1, Zenon DEF Command
<1>3. a.input # NULL /\ ~InputChanged(a) => Command(a) = << >>
  BY Zenon DEF Command
<1>4. a.input # NULL /\ InputChanged(a) /\ ~a.running => Command(a) = << Prompt(a.input) >>
  BY Zenon DEF Command, Prompt
<1> QED BY <1>2, <1>3, <1>4, OneText

(* What render does to the cache.                                          *)
LEMMA RenderedApp ==
  ASSUME NEW a, IsApp(a)
  PROVE  LET b == Rendered(a)
         IN  /\ IsApp(b) /\ b.freed = a.freed /\ b.end = a.end
             /\ b.input = a.input /\ b.running = a.running /\ b.buffer = a.buffer
             /\ b.program = a.program /\ b.current_line_number = a.current_line_number
             /\ b.variables = a.variables
             /\ \A r \in 1 .. Rows :
                  b.previous_buffer[r] = IF r \in Stale(a) THEN a.buffer[r] ELSE a.previous_buffer[r]
             /\ b.input_dirty <=> (Command(a) = << >> /\ a.input_dirty)
             /\ b.last_input = IF Command(a) = << >> THEN a.last_input
                               ELSE IF a.input = NULL \/ a.running THEN Blank ELSE a.input
  BY DEF Rendered, IsApp, Fields, Ending

(* After render the screen shows the state, and the cache knows it.        *)
LEMMA RenderShows ==
  ASSUME IsApp(app), app.running => app.input = NULL, Cached(app),
         app' = Rendered(app), screen' = Drawn(app)
  PROVE  Cached(app)' /\ Shows(app)'
<1> DEFINE a == app
           b == Rendered(app)
<1>1. /\ b.input = a.input /\ b.buffer = a.buffer
      /\ \A r \in 1 .. Rows :
           b.previous_buffer[r] = IF r \in Stale(a) THEN a.buffer[r] ELSE a.previous_buffer[r]
      /\ b.input_dirty <=> (Command(a) = << >> /\ a.input_dirty)
      /\ b.last_input = IF Command(a) = << >> THEN a.last_input
                        ELSE IF a.input = NULL \/ a.running THEN Blank ELSE a.input
  BY RenderedApp
<1>2. \A r \in 1 .. Rows :
        (IF r \in Stale(a) THEN a.buffer[r] ELSE screen.history[r]) = a.buffer[r]
  BY DEF Cached, Stale
<1>3. screen'.history = a.buffer
  <2>1. screen'.history = [r \in 1 .. Rows |->
                             IF r \in Stale(a) THEN a.buffer[r] ELSE screen.history[r]]
    BY DEF Drawn
  <2>2. a.buffer = [r \in 1 .. Rows |-> a.buffer[r]]
    BY DEF IsApp
  <2> QED BY <1>2, <2>1, <2>2
<1>4. screen'.command = IF Command(a) = << >> THEN screen.command ELSE Head(Command(a))
  BY DEF Drawn
<1>5. screen'.command = Prompt(IF a.input = NULL THEN Blank ELSE a.input)
      /\ (Command(a) = << >> => ~a.input_dirty /\ a.last_input = a.input /\ a.input # NULL)
  <2>1. CASE a.input = NULL
    BY <1>4, <2>1, CommandDrawn
  <2>2. CASE a.input # NULL /\ InputChanged(a)
    BY <1>4, <2>2, CommandDrawn
  <2>3. CASE a.input # NULL /\ ~InputChanged(a)
    <3>1. ~a.input_dirty /\ a.last_input = a.input
      BY <2>3 DEF InputChanged, IsApp
    <3>2. screen.command = Prompt(a.input)
      BY <3>1 DEF Cached
    <3> QED BY <1>4, <2>3, <3>1, <3>2, CommandDrawn
  <2> QED BY <2>1, <2>2, <2>3
<1>6. \A r \in 1 .. Rows : b.previous_buffer[r] = a.buffer[r]
  BY <1>1, <1>2 DEF Stale
<1>7. b.last_input = IF a.input = NULL THEN Blank ELSE a.input
  BY <1>1, <1>5
<1>8. screen'.command = Prompt(b.last_input)
  BY <1>5, <1>7
<1> HIDE DEF b
<1>9. app' = b
  BY DEF b
<1>10. Cached(app)'
  BY <1>3, <1>6, <1>8, <1>9 DEF Cached
<1>11. screen'.history = b.buffer
  BY <1>1, <1>3
<1>12. screen'.command = Prompt(IF b.input = NULL THEN << >> ELSE b.input)
  BY <1>1, <1>5 DEF Blank
<1> QED BY <1>9, <1>10, <1>11, <1>12 DEF Shows

-----------------------------------------------------------------------------
(* Typing.                                                                 *)

(* Nothing of the program has changed.                                     *)
Same(a, c) == /\ c.program = a.program /\ c.variables = a.variables
              /\ c.current_line_number = a.current_line_number /\ c.freed = a.freed

(* A block for the input when there was none, and the key read.            *)
LEMMA PreparedGoes ==
  ASSUME NEW a, IsApp(a), NEW key
  PROVE  LET b == [Prepared(a) EXCEPT !.ch = key]
         IN  /\ Goes(a, b) /\ Same(a, b) /\ b.running = a.running /\ b.ch = key
             /\ a.input = NULL => b.input = << >>
<1> DEFINE p == Prepared(a)
           b == [p EXCEPT !.ch = key]
<1>1. /\ Goes(a, p) /\ Same(a, p) /\ p.running = a.running
      /\ a.input = NULL => p.input = << >>
  BY DEF Prepared, Goes, Same, IsApp, Fields, Caching, Ending, Ordered, InRange
<1> HIDE DEF p
<1>2. Goes(p, b) /\ Same(p, b) /\ b.running = p.running /\ b.ch = key /\ b.input = p.input
  BY <1>1 DEF Goes, Same, IsApp, Fields, Caching, Ending, Ordered, InRange
<1> HIDE DEF b
<1> QED BY <1>1, <1>2, GoesTwice DEF Same, b, p

(* The end of a line: shown, interpreted, and its block given back.        *)
LEMMA EnteredGoes ==
  ASSUME NEW a, IsApp(a), a.ch = LF, ~(Len(a.input) >= InputSize), NEW c \in Typed(a)
  PROVE  Goes(a, c) /\ c.input = NULL /\ (a.input = << >> => Same(a, c))
<1>1. PICK lines : append_buffer(a, <<"]">> \o a.input) = append_lines(a, lines)
  BY Zenon DEF append_buffer
<1> DEFINE s == append_lines(a, lines)
           m == [s EXCEPT !.input_dirty = TRUE]
<1>2. PICK b \in u32erpret_basic(m) : c = [b EXCEPT !.input = NULL]
  BY <1>1, Zenon DEF Typed
<1>3. Goes(a, s) /\ Same(a, s) /\ s.input = a.input
  BY LinesShown DEF Goes, Same, Kept, Ordered
<1> HIDE DEF s
<1>4. Goes(s, m) /\ Same(s, m) /\ m.input = s.input
  BY <1>3 DEF Goes, Same, IsApp, Fields, Caching, Ending, Ordered, InRange
<1> HIDE DEF m
<1>5. Goes(m, b) /\ (m.input = << >> => b = m)
  BY <1>2, <1>4, InterpretedGoes DEF Goes
<1>6. Goes(b, c) /\ Same(b, c) /\ c.input = NULL
  BY <1>2, <1>5 DEF Goes, Same, IsApp, Fields, Caching, Ending, Ordered, InRange
<1>7. Goes(a, m) /\ Goes(m, c)
  BY <1>3, <1>4, <1>5, <1>6, GoesTwice
<1> QED BY <1>3, <1>4, <1>5, <1>6, <1>7, GoesTwice DEF Same

(* Any key: with an empty input, as after quit, nothing of the program     *)
(* changes.                                                                *)
LEMMA TypedGoes ==
  ASSUME NEW a, IsApp(a), ~a.running, NEW c \in Typed(a)
  PROVE  /\ Goes(a, c) /\ (c.running => c.input = NULL)
         /\ a.input = << >> => Same(a, c)
<1>1. CASE a.ch = LF /\ ~(Len(a.input) >= InputSize)
  BY <1>1, EnteredGoes
<1>2. CASE ~(a.ch = LF /\ ~(Len(a.input) >= InputSize))
  <2>1. \/ c = a
        \/ \E why : c = [a EXCEPT !.fault = why]
        \/ \E text : c = [a EXCEPT !.input = text, !.input_dirty = TRUE]
    BY <1>2, Zenon DEF Typed, Fault
  <2> QED BY <2>1 DEF Goes, Same, IsApp, Fields, Caching, Ending, Ordered, InRange
<1> QED BY <1>1, <1>2

-----------------------------------------------------------------------------
(* The interpreter's part of the invariant.                                *)

(* A running program has no input block; a freed one is left in this turn. *)
BasicInv ==
  /\ IsApp(app) /\ Ordered(app) /\ InRange(app)
  /\ app.running => app.input = NULL
  /\ app.freed => app.end /\ (pc = "left" \/ (pc = "keys" /\ app.input = NULL))
  /\ (pc = "first" \/ Writable(fd)) => Cached(app)
  /\ (pc = "continue" /\ Writable(fd)) => Shows(app)

(* basicbasic starts with everything to be drawn.                          *)
LEMMA FreshStarts ==
  ASSUME NEW key
  PROVE  LET a == [Fresh EXCEPT !.ch = key]
         IN  /\ IsApp(a) /\ Ordered(a) /\ InRange(a) /\ ~a.running /\ ~a.freed
             /\ a.input_dirty /\ \A r \in 1 .. Rows : a.row_dirty[r]
<1>1. /\ ~Fresh.running /\ ~Fresh.freed /\ Fresh.input_dirty /\ Fresh.program = << >>
      /\ \A r \in 1 .. Rows : Fresh.row_dirty[r]
  BY DEF Fresh
<1> DEFINE a == [Fresh EXCEPT !.ch = key]
<1>2. /\ IsApp(a) /\ a.program = << >> /\ a.running = Fresh.running /\ a.freed = Fresh.freed
      /\ a.input_dirty = Fresh.input_dirty /\ a.row_dirty = Fresh.row_dirty
  BY <1>1, FreshIsApp DEF IsApp, Fields
<1> HIDE DEF a
<1>3. Ordered(a) /\ InRange(a)
  BY <1>1, <1>2 DEF Ordered, InRange
<1> QED BY <1>1, <1>2, <1>3 DEF a

(* The interpreter's part holds at the start.                              *)
LEMMA InitBasicInv == Init => BasicInv
<1> SUFFICES ASSUME Init PROVE BasicInv
  OBVIOUS
<1>1. app = Fresh /\ pc = "first"
  BY DEF Init
<1>2. /\ ~Fresh.running /\ ~Fresh.freed /\ Fresh.input_dirty /\ Fresh.program = << >>
      /\ \A r \in 1 .. Rows : Fresh.row_dirty[r]
  BY DEF Fresh
<1> QED BY <1>1, <1>2, FreshIsApp DEF BasicInv, Cached, Ordered, InRange

(* The first program's calls do not touch the interpreter.                 *)
LEMMA FirstKeepsBasic ==
  ASSUME BasicInv, First, UNCHANGED <<basicVars, pc, fd, typed>>
  PROVE  BasicInv'
  BY DEF BasicInv, First, basicVars, Cached, Shows

(* loadnew starts the interpreter.                                         *)
LEMMA LoadKeepsBasic ==
  ASSUME BasicInv, LoadBasic
  PROVE  BasicInv'
<1>1. PICK key : app' = [Fresh EXCEPT !.ch = key]
  BY DEF LoadBasic
<1>2. pc' = "render" /\ screen' = screen
  BY DEF LoadBasic
<1> DEFINE a == [Fresh EXCEPT !.ch = key]
<1>3. /\ IsApp(a) /\ Ordered(a) /\ InRange(a) /\ ~a.running /\ ~a.freed
      /\ a.input_dirty /\ \A r \in 1 .. Rows : a.row_dirty[r]
  BY FreshStarts
<1> HIDE DEF a
<1>4. app' = a
  BY <1>1 DEF a
<1> QED BY <1>2, <1>3, <1>4 DEF BasicInv, Cached

(* What changes a row or the input marks it, so the cache stays true.      *)
LEMMA CacheCarried ==
  ASSUME Cached(app), Goes(app, app'), screen' = screen
  PROVE  Cached(app)'
  BY DEF Cached, Goes, Caching, IsApp

(* The interpreter's descriptor stays as writable as it was.               *)
LEMMA WritableKept ==
  ASSUME UnchangedSystem
  PROVE  Writable(fd)' <=> Writable(fd)
  BY DEF UnchangedSystem, Writable, Supports

(* render.                                                                 *)
LEMMA RenderKeepsBasic ==
  ASSUME BasicInv, Render
  PROVE  BasicInv'
<1>1. /\ app' = Rendered(app) /\ pc = "render" /\ pc' = "continue" /\ UnchangedSystem
      /\ screen' = IF Writable(fd) THEN Drawn(app) ELSE screen
  BY DEF Render, AsApp, At
<1>2. /\ IsApp(app') /\ app'.freed = app.freed /\ app'.input = app.input /\ app'.running = app.running
      /\ app'.program = app.program /\ app'.current_line_number = app.current_line_number
  BY <1>1, RenderedApp DEF BasicInv
<1>3. Ordered(app') /\ InRange(app') /\ ~app'.freed
  BY <1>1, <1>2 DEF BasicInv, Ordered, InRange
<1>4. ASSUME Writable(fd) PROVE Cached(app)' /\ Shows(app)'
  BY <1>1, <1>4, RenderShows DEF BasicInv
<1>5. Writable(fd)' => Writable(fd)
  BY <1>1, WritableKept
<1> QED BY <1>1, <1>2, <1>3, <1>4, <1>5 DEF BasicInv

(* continue_program: a quit in the program leaves the turn's keysin to     *)
(* come.                                                                   *)
LEMMA ContinueKeepsBasic ==
  ASSUME BasicInv, Continue
  PROVE  BasicInv'
<1>1. /\ pc = "continue" /\ pc' = "keys" /\ UnchangedSystem /\ screen' = screen
      /\ app' \in IF app.running THEN continue_program(app) ELSE {app}
  BY DEF Continue, AsApp, At
<1>2. Goes(app, app') /\ app'.input = app.input /\ (app'.running => app.input = NULL)
      /\ (app'.freed => app.input = NULL)
  <2>1. CASE app.running
    BY <1>1, <2>1, ContinuedGoes DEF BasicInv
  <2>2. CASE ~app.running
    BY <1>1, <2>2 DEF BasicInv, Goes, Caching, Ending
  <2> QED BY <2>1, <2>2
<1>3. app'.freed => app'.end
  BY <1>1, <1>2 DEF BasicInv, Goes, Ending
<1>4. Writable(fd)' => Cached(app)'
  BY <1>1, <1>2, WritableKept, CacheCarried DEF BasicInv
<1> QED BY <1>1, <1>2, <1>3, <1>4 DEF BasicInv, Goes

(* keysin with a key, in full.                                             *)
LEMMA KeysInGoes ==
  ASSUME BasicInv, KeysIn
  PROVE  /\ pc = "keys" /\ pc' = TurnEnd(app') /\ UnchangedSystem /\ screen' = screen
         /\ Goes(app, app') /\ (app'.running => app'.input = NULL)
         /\ app.freed => Same(app, app')
<1>1. PICK key : \E a \in Typed([Prepared(app) EXCEPT !.ch = key]) : AsApp(a, TurnEnd(a))
  BY DEF KeysIn
<1>2. /\ pc = "keys" /\ ~app.running /\ UnchangedSystem /\ screen' = screen
  BY DEF KeysIn, At
<1> DEFINE b == [Prepared(app) EXCEPT !.ch = key]
<1>3. app' \in Typed(b) /\ pc' = TurnEnd(app')
  BY <1>1 DEF AsApp
<1>4. /\ Goes(app, b) /\ Same(app, b) /\ b.running = app.running
      /\ app.input = NULL => b.input = << >>
  BY PreparedGoes DEF BasicInv
<1> HIDE DEF b
<1>5. /\ Goes(b, app') /\ (app'.running => app'.input = NULL)
      /\ b.input = << >> => Same(b, app')
  BY <1>2, <1>3, <1>4, TypedGoes DEF Goes
<1>6. app.freed => app.input = NULL
  BY <1>2 DEF BasicInv
<1>7. app.freed => Same(app, app')
  BY <1>4, <1>5, <1>6 DEF Same
<1> QED BY <1>2, <1>3, <1>4, <1>5, <1>7, GoesTwice

(* keysin with a key.                                                      *)
LEMMA KeysInKeepsBasic ==
  ASSUME BasicInv, KeysIn
  PROVE  BasicInv'
<1>1. /\ pc = "keys" /\ pc' = TurnEnd(app') /\ UnchangedSystem /\ screen' = screen
      /\ Goes(app, app') /\ (app'.running => app'.input = NULL)
  BY KeysInGoes
<1>2. app'.freed => app'.end
  BY <1>1 DEF BasicInv, Goes, Ending
<1>3. Writable(fd)' => Cached(app)'
  BY <1>1, WritableKept, CacheCarried DEF BasicInv
<1>4. pc' \in {"left", "render"} /\ (app'.end => pc' = "left")
  BY <1>1 DEF TurnEnd, Left
<1> QED BY <1>1, <1>2, <1>3, <1>4 DEF BasicInv, Goes

(* keysin while a program runs.                                            *)
LEMMA NoKeysKeepsBasic ==
  ASSUME BasicInv, NoKeys
  PROVE  BasicInv'
<1>1. /\ pc = "keys" /\ pc' = TurnEnd(app) /\ UnchangedSystem /\ screen' = screen /\ app' = app
  BY DEF NoKeys, AsApp, At
<1>2. pc' \in {"left", "render"} /\ (app.end => pc' = "left")
  BY <1>1 DEF TurnEnd, Left
<1>3. Writable(fd)' <=> Writable(fd)
  BY <1>1, WritableKept
<1> QED BY <1>1, <1>2, <1>3 DEF BasicInv, Cached

-----------------------------------------------------------------------------
(* The descriptors.                                                        *)

FopNames == {"null", "terminal_fops", "teletype_fops", "fat32_fops"}
Descriptors == [exists : BOOLEAN, mode : Nat, internal : Nat, fops : FopNames]
Owners == {i \in Fds : open_fds[i].fops = "fat32_fops"}
Blocks == [path : DOMAIN Content, position : Nat]

(* Each block has one descriptor and is within its file.                   *)
TableInv ==
  /\ open_fds \in [Fds -> Descriptors]
  /\ \A i \in Fds : ~open_fds[i].exists => open_fds[i].fops = "null"
  /\ \A i, j \in Owners : open_fds[i].internal = open_fds[j].internal => i = j
  /\ DOMAIN files = {open_fds[i].internal : i \in Owners}
  /\ DOMAIN files \subseteq 1 .. NFds + 1
  /\ Cardinality(Owners) = Cardinality(DOMAIN files)
  /\ files \in [DOMAIN files -> Blocks]
  /\ \A f \in DOMAIN files : files[f].position <= Len(Content[files[f].path])

(* What was open is open still, at the same place.                         *)
Extends == /\ \A i \in Fds : open_fds[i].exists => open_fds'[i] = open_fds[i]
           /\ \A f \in DOMAIN files : f \in DOMAIN files' /\ files'[f] = files[f]

(* terminal_install opens no file.                                         *)
LEMMA InitTableInv == SyscallsInit => TableInv
<1> SUFFICES ASSUME SyscallsInit PROVE TableInv
  OBVIOUS
<1>1. /\ open_fds \in [Fds -> Descriptors]
      /\ \A i \in Fds : open_fds[i].fops # "fat32_fops"
      /\ \A i \in Fds : ~open_fds[i].exists => open_fds[i].fops = "null"
  BY DEF SyscallsInit, terminal_install, Closed, NoFile, Descriptors, FopNames
<1>2. Owners = {}
  BY <1>1 DEF Owners
<1>3. files = << >> /\ DOMAIN files = {}
  BY DEF SyscallsInit
<1> QED BY <1>1, <1>2, <1>3 DEF TableInv

(* The table has NFds entries.                                             *)
LEMMA FdsFinite == IsFiniteSet(Fds) /\ Cardinality(Fds) = NFds
  BY SyscallsAssumption, FS_Interval DEF Fds

(* open takes an entry that was free.                                      *)
LEMMA NextFdFree ==
  ASSUME FreeFds # {}
  PROVE  NextFd \in Fds /\ ~open_fds[NextFd].exists
<1>1. FreeFds \in SUBSET Nat
  BY SyscallsAssumption DEF FreeFds, Fds
<1> QED BY <1>1, LeastExists DEF NextFd, FreeFds

(* There are never more blocks than entries of the table, so kmalloc has   *)
(* an address left for one more.                                           *)
LEMMA NewFileNew ==
  ASSUME TableInv
  PROVE  NewFile \in 1 .. NFds + 1 /\ NewFile \notin DOMAIN files
<1> DEFINE all == 1 .. NFds + 1
           F == DOMAIN files
<1>1. IsFiniteSet(all) /\ Cardinality(all) = NFds + 1
  BY SyscallsAssumption, FS_Interval
<1>2. IsFiniteSet(Owners) /\ Cardinality(Owners) <= NFds
  BY FdsFinite, FS_Subset DEF Owners
<1>3. Cardinality(F) <= NFds /\ F \subseteq all
  BY <1>2 DEF TableInv
<1>4. F # all
  BY <1>1, <1>3, SyscallsAssumption
<1>0. all \subseteq Nat
  BY SyscallsAssumption
<1> HIDE DEF all, F
<1>5. all \ F # {} /\ all \ F \in SUBSET Nat
  BY <1>0, <1>3, <1>4
<1>6. Min(all \ F) \in all \ F
  BY <1>5, LeastExists
<1> QED BY <1>6 DEF NewFile, all, F

(* teletype_open fills in an entry that had no file.                       *)
LEMMA OpenTeletypeKeeps ==
  ASSUME TableInv, OpenTeletype
  PROVE  TableInv' /\ Extends
<1> DEFINE n == NextFd
<1>1. n \in Fds /\ ~open_fds[n].exists /\ open_fds[n].fops = "null"
  BY NextFdFree DEF OpenTeletype, TableInv
<1>2. open_fds' = [open_fds EXCEPT ![n].exists = TRUE, ![n].fops = "teletype_fops"] /\ files' = files
  BY DEF OpenTeletype
<1> HIDE DEF n
<1>3. open_fds' \in [Fds -> Descriptors]
      /\ \A i \in Fds : i # n => open_fds'[i] = open_fds[i]
  BY <1>1, <1>2 DEF TableInv, Descriptors, FopNames
<1>4. open_fds'[n].exists /\ open_fds'[n].fops = "teletype_fops"
  BY <1>1, <1>2 DEF TableInv, Descriptors
<1>5. Owners' = Owners
  BY <1>1, <1>3, <1>4 DEF Owners
<1>6. \A i \in Owners : open_fds'[i] = open_fds[i]
  BY <1>1, <1>3 DEF Owners
<1>7. {open_fds'[i].internal : i \in Owners} = {open_fds[i].internal : i \in Owners}
  BY <1>6
<1>8. \A i \in Fds : ~open_fds'[i].exists => open_fds'[i].fops = "null"
  BY <1>3, <1>4 DEF TableInv
<1>9. \A i, j \in Owners' : open_fds'[i].internal = open_fds'[j].internal => i = j
  BY <1>5, <1>6 DEF TableInv
<1>10. DOMAIN files' = {open_fds'[i].internal : i \in Owners'}
  BY <1>2, <1>5, <1>7 DEF TableInv
<1>11. TableInv'
  BY <1>2, <1>3, <1>5, <1>8, <1>9, <1>10 DEF TableInv
<1> QED BY <1>1, <1>2, <1>3, <1>11 DEF Extends

(* A file that opens has its descriptor and its block, both new.           *)
LEMMA OpenFileKeeps ==
  ASSUME TableInv, NEW path, NEW mode \in Nat, OpenFile(path, mode)
  PROVE  /\ TableInv' /\ Extends
         /\ eax' \in Fds /\ ~open_fds[eax'].exists /\ open_fds'[eax'].exists
         /\ eax' \in Owners'
         /\ files'[open_fds'[eax'].internal] = [path |-> path, position |-> 0]
<1> DEFINE n == NextFd
           f == NewFile
           d == [exists |-> TRUE, mode |-> mode, internal |-> f, fops |-> "fat32_fops"]
           b == [path |-> path, position |-> 0]
<1>1. /\ n \in Fds /\ ~open_fds[n].exists /\ open_fds[n].fops = "null"
      /\ path \in DOMAIN Content /\ eax' = n
  BY NextFdFree DEF OpenFile, TableInv
<1>2. f \in 1 .. NFds + 1 /\ f \notin DOMAIN files
  BY NewFileNew
<1>3. /\ open_fds' = [open_fds EXCEPT ![n] = d]
      /\ files' = [g \in DOMAIN files \cup {f} |-> IF g = f THEN b ELSE files[g]]
  BY DEF OpenFile, Allocated
<1> HIDE DEF n, f
<1>4. d \in Descriptors /\ b \in Blocks /\ d.fops = "fat32_fops" /\ d.exists /\ d.internal = f
  BY <1>1, <1>2, SyscallsAssumption DEF Descriptors, Blocks, FopNames
<1>5. b.position = 0 /\ Len(Content[b.path]) \in Nat
  BY <1>1, SyscallsAssumption, LenProperties
<1> HIDE DEF d, b
<1>6. /\ open_fds' \in [Fds -> Descriptors] /\ open_fds'[n] = d
      /\ \A i \in Fds : i # n => open_fds'[i] = open_fds[i]
  BY <1>1, <1>3, <1>4 DEF TableInv
<1>7. Owners' = Owners \cup {n} /\ n \notin Owners
  BY <1>1, <1>4, <1>6 DEF Owners
<1>8. \A i \in Owners : open_fds'[i] = open_fds[i]
  BY <1>1, <1>6 DEF Owners
<1>9. DOMAIN files' = DOMAIN files \cup {f}
  BY <1>3
<1>10. DOMAIN files' = {open_fds'[i].internal : i \in Owners'}
  <2>1. {open_fds'[i].internal : i \in Owners'} = {open_fds[i].internal : i \in Owners} \cup {f}
    BY <1>4, <1>6, <1>7, <1>8
  <2> QED BY <1>9, <2>1 DEF TableInv
<1>11. \A i, j \in Owners' : open_fds'[i].internal = open_fds'[j].internal => i = j
  BY <1>2, <1>4, <1>6, <1>7, <1>8 DEF TableInv
<1>12. Cardinality(Owners') = Cardinality(DOMAIN files')
  <2>1. IsFiniteSet(Owners)
    BY FdsFinite, FS_Subset DEF Owners
  <2>2. IsFiniteSet(DOMAIN files)
    <3>1. IsFiniteSet(1 .. NFds + 1)
      BY SyscallsAssumption, FS_Interval
    <3> QED BY <3>1, FS_Subset DEF TableInv
  <2>3. Cardinality(Owners') = Cardinality(Owners) + 1
    BY <1>7, <2>1, FS_AddElement
  <2>4. Cardinality(DOMAIN files') = Cardinality(DOMAIN files) + 1
    BY <1>2, <1>9, <2>2, FS_AddElement
  <2> QED BY <2>3, <2>4 DEF TableInv
<1>13. /\ files' \in [DOMAIN files' -> Blocks] /\ files'[f] = b
       /\ \A g \in DOMAIN files : files'[g] = files[g]
  BY <1>2, <1>3, <1>4, <1>9 DEF TableInv
<1>14. \A g \in DOMAIN files' : files'[g].position <= Len(Content[files'[g].path])
  BY <1>5, <1>9, <1>13 DEF TableInv
<1>15. \A i \in Fds : ~open_fds'[i].exists => open_fds'[i].fops = "null"
  BY <1>4, <1>6 DEF TableInv
<1>16. DOMAIN files' \subseteq 1 .. NFds + 1
  BY <1>2, <1>9 DEF TableInv
<1>17. TableInv'
  BY <1>6, <1>10, <1>11, <1>12, <1>13, <1>14, <1>15, <1>16 DEF TableInv
<1>18. Extends
  BY <1>1, <1>6, <1>9, <1>13 DEF Extends
<1> QED BY <1>1, <1>4, <1>6, <1>7, <1>13, <1>17, <1>18 DEF b

(* A call that changes neither table.                                      *)
LEMMA TableStays ==
  ASSUME TableInv, UNCHANGED <<open_fds, files>>
  PROVE  TableInv' /\ Extends
  BY DEF TableInv, Extends, Owners

(* open, whatever it is asked for and however it ends.                     *)
LEMMA OpenKeeps ==
  ASSUME TableInv, NEW path, NEW mode \in Nat, open(path, mode)
  PROVE  /\ TableInv' /\ Extends
         /\ eax' \in Fds /\ path \in DOMAIN Content => OpenFile(path, mode)
<1>1. CASE path = "teletype" /\ OpenTeletype
  BY <1>1, OpenTeletypeKeeps, SyscallsAssumption
<1>2. CASE OpenFile(path, mode)
  BY <1>2, OpenFileKeeps
<1>3. CASE OpenFails(path) \/ Refuse
  <2>1. UNCHANGED <<open_fds, files>> /\ eax' \in {-1, FAT_ERR_PATH, FAT_ERR_IO}
    BY <1>3 DEF OpenFails, Refuse, AfterFailedOpen
  <2>2. eax' \notin Fds
    BY <2>1 DEF FAT_ERR_PATH, FAT_ERR_IO, Fds
  <2> QED BY <2>1, <2>2, TableStays
<1> QED BY <1>1, <1>2, <1>3 DEF open

(* setmode changes the mode of an entry only.                              *)
LEMMA SetModeKeeps ==
  ASSUME TableInv, NEW f, NEW mode \in Nat, setmode(f, mode)
  PROVE  /\ TableInv' /\ files' = files /\ Owners' = Owners
         /\ \A i \in Fds : open_fds'[i].internal = open_fds[i].internal
<1>1. /\ files' = files
      /\ \/ open_fds' = open_fds
         \/ f \in Fds /\ open_fds' = [open_fds EXCEPT ![f].mode = mode]
  BY DEF setmode, Supports
<1>2. open_fds' \in [Fds -> Descriptors]
  BY <1>1 DEF TableInv, Descriptors
<1>3. \A i \in Fds : /\ open_fds'[i].internal = open_fds[i].internal
                     /\ open_fds'[i].fops = open_fds[i].fops
                     /\ open_fds'[i].exists = open_fds[i].exists
  BY <1>1 DEF TableInv, Descriptors
<1>4. Owners' = Owners
  BY <1>3 DEF Owners
<1>5. {open_fds'[i].internal : i \in Owners} = {open_fds[i].internal : i \in Owners}
  BY <1>3 DEF Owners
<1>6. \A i \in Fds : ~open_fds'[i].exists => open_fds'[i].fops = "null"
  BY <1>3 DEF TableInv
<1>7. \A i, j \in Owners' : open_fds'[i].internal = open_fds'[j].internal => i = j
  BY <1>3, <1>4 DEF TableInv, Owners
<1>8. TableInv'
  BY <1>1, <1>2, <1>4, <1>5, <1>6, <1>7 DEF TableInv
<1> QED BY <1>1, <1>3, <1>4, <1>8

-----------------------------------------------------------------------------
(* The streams of the first program.                                       *)

Bytes == UNION {{Content[p][i] : i \in DOMAIN Content[p]} : p \in DOMAIN Content}
Streams == [fd : Fds, path : DOMAIN Content, data : Seq(Bytes)]
(* A stream has read its file as far as its block's position.              *)
Follows(s) ==
  /\ s.fd \in Owners
  /\ files[open_fds[s.fd].internal].path = s.path
  /\ files[open_fds[s.fd].internal].position = Len(s.data)
  /\ \A n \in 1 .. Len(s.data) : s.data[n] = Content[s.path][n]

StreamsInv ==
  /\ streams \in Seq(Streams)
  /\ \A k \in DOMAIN streams : Follows(streams[k])
  /\ \A k, m \in DOMAIN streams : streams[k].fd = streams[m].fd => k = m

(* A file is a sequence of bytes.                                          *)
LEMMA ContentTyped ==
  ASSUME NEW p \in DOMAIN Content
  PROVE  /\ Content[p] \in Seq(Bytes) /\ Len(Content[p]) \in Nat
         /\ DOMAIN Content[p] = 1 .. Len(Content[p])
<1> DEFINE own == {Content[p][i] : i \in DOMAIN Content[p]}
<1>1. Content[p] \in Seq(own)
  BY SyscallsAssumption
<1>2. own \subseteq Bytes
  BY DEF Bytes
<1> HIDE DEF own
<1> QED BY <1>1, <1>2, SeqMonotonic, LenProperties

(* Without streams there is nothing to follow.                             *)
LEMMA NoStreams == streams = << >> => StreamsInv
<1>1. << >> \in Seq(Streams) /\ DOMAIN << >> = {}
  BY EmptySeq
<1> QED BY <1>1 DEF StreamsInv

(* The streams follow their files while neither changes.                   *)
LEMMA StreamsStay ==
  ASSUME TableInv, StreamsInv, UNCHANGED <<streams, files>>, Owners' = Owners,
         \A i \in Fds : open_fds'[i].internal = open_fds[i].internal
  PROVE  StreamsInv'
<1>1. \A k \in DOMAIN streams : Follows(streams[k])'
  BY DEF StreamsInv, Follows, Owners
<1> QED BY <1>1 DEF StreamsInv

(* A stream's descriptor and block outlive another open.                   *)
LEMMA FollowsStill ==
  ASSUME TableInv, Extends, NEW s, Follows(s)
  PROVE  /\ s.fd \in Owners' /\ open_fds[s.fd].exists
         /\ open_fds'[s.fd] = open_fds[s.fd]
         /\ files'[open_fds[s.fd].internal] = files[open_fds[s.fd].internal]
<1>1. s.fd \in Fds /\ open_fds[s.fd].fops = "fat32_fops" /\ open_fds[s.fd].internal \in DOMAIN files
  BY DEF Follows, Owners, TableInv
<1>2. open_fds[s.fd].exists
  BY <1>1 DEF TableInv
<1> QED BY <1>1, <1>2 DEF Extends, Owners

(* An open of the first program.                                           *)
LEMMA UserOpenKeeps ==
  ASSUME TableInv, StreamsInv, UserOpen
  PROVE  TableInv' /\ StreamsInv'
<1>a. PICK path : \E mode \in 0 .. 1 : open(path, mode) /\ streams' = Opened(path)
  BY DEF UserOpen
<1>1. PICK mode \in 0 .. 1 : open(path, mode) /\ streams' = Opened(path)
  BY <1>a
<1>2. TableInv' /\ Extends
  BY <1>1, OpenKeeps
<1>3. \A k \in DOMAIN streams :
        /\ streams[k].fd \in Owners' /\ open_fds[streams[k].fd].exists
        /\ open_fds'[streams[k].fd] = open_fds[streams[k].fd]
        /\ files'[open_fds[streams[k].fd].internal] = files[open_fds[streams[k].fd].internal]
  BY <1>2, FollowsStill DEF StreamsInv
<1>4. CASE eax' \in Fds /\ path \in DOMAIN Content
  <2> DEFINE new == [fd |-> eax', path |-> path, data |-> << >>]
             n == Len(streams)
  <2>1. streams' = Append(streams, new)
    BY <1>1, <1>4 DEF Opened
  <2>2. /\ ~open_fds[eax'].exists /\ eax' \in Owners'
        /\ files'[open_fds'[eax'].internal] = [path |-> path, position |-> 0]
    BY <1>1, <1>4, OpenKeeps, OpenFileKeeps
  <2>3. new \in Streams /\ new.fd = eax' /\ new.path = path /\ new.data = << >>
    BY <1>4 DEF Streams
  <2>4. /\ streams \in Seq(Streams) /\ n \in Nat /\ DOMAIN streams = 1 .. n
    BY LenProperties DEF StreamsInv
  <2> HIDE DEF new, n
  <2>5. /\ streams' \in Seq(Streams) /\ DOMAIN streams' = 1 .. n + 1
        /\ streams'[n + 1] = new
        /\ \A k \in 1 .. n : streams'[k] = streams[k]
    BY <2>1, <2>3, <2>4, LenProperties DEF n
  <2>6. \A k \in 1 .. n : Follows(streams[k])'
    <3> SUFFICES ASSUME NEW k \in 1 .. n PROVE Follows(streams[k])'
      OBVIOUS
    <3>1. Follows(streams[k]) /\ streams'[k] = streams[k]
      BY <2>4, <2>5 DEF StreamsInv
    <3> QED BY <1>3, <2>4, <3>1 DEF Follows
  <2>7. \A k \in {n + 1} : Follows(streams[k])'
    <3>1. Len(new.data) = 0
      BY <2>3, EmptySeq
    <3> QED BY <2>2, <2>3, <2>5, <3>1 DEF Follows
  <2>8. \A k, m \in DOMAIN streams' : streams'[k].fd = streams'[m].fd => k = m
    <3> SUFFICES ASSUME NEW k \in 1 .. n + 1, NEW m \in 1 .. n + 1,
                        streams'[k].fd = streams'[m].fd
                 PROVE  k = m
      BY <2>5
    <3>1. CASE k \in 1 .. n /\ m \in 1 .. n
      BY <2>4, <2>5, <3>1 DEF StreamsInv
    <3>2. CASE k = n + 1 /\ m = n + 1
      BY <3>2
    <3>3. \A j \in 1 .. n : streams'[j].fd # eax'
      BY <1>3, <2>2, <2>4, <2>5
    <3> QED BY <2>3, <2>4, <2>5, <3>1, <3>2, <3>3
  <2>9. \A k \in DOMAIN streams' : Follows(streams[k])'
    <3> SUFFICES ASSUME NEW k \in 1 .. n + 1 PROVE Follows(streams[k])'
      BY <2>5
    <3>1. k \in 1 .. n \/ k = n + 1
      BY <2>4
    <3> QED BY <2>6, <2>7, <3>1
  <2> QED BY <1>2, <2>5, <2>8, <2>9 DEF StreamsInv
<1>5. CASE ~(eax' \in Fds /\ path \in DOMAIN Content)
  <2>1. streams' = streams
    BY <1>1, <1>5 DEF Opened
  <2>2. \A k \in DOMAIN streams : Follows(streams[k])'
    BY <1>3, <2>1 DEF StreamsInv, Follows
  <2> QED BY <1>2, <2>1, <2>2 DEF StreamsInv
<1> QED BY <1>4, <1>5

(* The byte a read takes is the next of the file, and at its end there is  *)
(* none.                                                                   *)
LEMMA NextBytesRead ==
  ASSUME TableInv, StreamsInv, NEW k \in DOMAIN streams
  PROVE  LET s == streams[k]
             t == NextBytes(s.fd)
         IN  /\ s \in Streams /\ t \in Seq(Bytes) /\ Len(t) \in 0 .. 1
             /\ Len(s.data) \in Nat /\ Len(s.data) + Len(t) <= Len(Content[s.path])
             /\ \A n \in 1 .. Len(t) : t[n] = Content[s.path][Len(s.data) + n]
<1> DEFINE s == streams[k]
           t == NextBytes(s.fd)
           f == files[open_fds[s.fd].internal]
           c == Content[s.path]
<1>1. s \in Streams /\ Follows(s)
  BY ElementOfSeq, LenProperties DEF StreamsInv
<1> HIDE DEF s
<1>2. /\ open_fds[s.fd].internal \in DOMAIN files /\ f.path = s.path /\ f.position = Len(s.data)
      /\ f.position \in Nat /\ f.position <= Len(c)
  BY <1>1 DEF TableInv, Follows, Owners, Blocks
<1>3. c \in Seq(Bytes) /\ Len(c) \in Nat
  BY <1>1, ContentTyped DEF Streams
<1>4. t = IF f.position = Len(c) THEN << >> ELSE <<c[f.position + 1]>>
  BY <1>2 DEF NextBytes
<1> HIDE DEF t, f, c
<1>5. CASE f.position = Len(c)
  <2>1. t = << >> /\ t \in Seq(Bytes) /\ Len(t) = 0
    BY <1>4, <1>5, EmptySeq
  <2> QED BY <1>1, <1>2, <1>3, <2>1 DEF t, s, c
<1>6. CASE f.position # Len(c)
  <2>1. f.position + 1 \in 1 .. Len(c)
    BY <1>2, <1>3, <1>6
  <2>2. c[f.position + 1] \in Bytes
    BY <1>3, <2>1, ElementOfSeq
  <2>3. t \in Seq(Bytes) /\ Len(t) = 1 /\ t[1] = c[f.position + 1]
    BY <1>4, <1>6, <2>2
  <2> QED BY <1>1, <1>2, <1>3, <2>1, <2>3 DEF t, s, c
<1> QED BY <1>5, <1>6

(* A read of the first program moves its own stream and no other.          *)
LEMMA UserReadKeeps ==
  ASSUME TableInv, StreamsInv, UserRead
  PROVE  TableInv' /\ StreamsInv'
<1>1. PICK i \in DOMAIN streams :
        /\ read_file(streams[i].fd)
        /\ streams' = [streams EXCEPT ![i].data = streams[i].data \o NextBytes(streams[i].fd)]
  BY DEF UserRead
<1> DEFINE s == streams[i]
           t == NextBytes(s.fd)
           x == open_fds[s.fd].internal
           c == Content[s.path]
           r == [fd |-> s.fd, path |-> s.path, data |-> s.data \o t]
<1>2. /\ s \in Streams /\ t \in Seq(Bytes) /\ Len(t) \in 0 .. 1
      /\ Len(s.data) \in Nat /\ Len(s.data) + Len(t) <= Len(c)
      /\ \A n \in 1 .. Len(t) : t[n] = c[Len(s.data) + n]
  BY NextBytesRead
<1>3. /\ open_fds' = open_fds
      /\ files' = [files EXCEPT ![x].position = files[x].position + Len(t)]
  BY <1>1 DEF read_file
<1>4. [s EXCEPT !.data = s.data \o t] = r
  <2>1. \A d : \A y \in Streams : [y EXCEPT !.data = d] = [fd |-> y.fd, path |-> y.path, data |-> d]
    BY DEF Streams
  <2> QED BY <1>2, <2>1
<1>5. streams' = [streams EXCEPT ![i] = r]
  BY <1>1, <1>4
<1>6. Follows(s)
  BY DEF StreamsInv
<1> HIDE DEF s, t
<1>7. /\ s.fd \in Fds /\ x \in DOMAIN files /\ files[x] \in Blocks /\ files[x].path = s.path
      /\ files[x].position = Len(s.data)
  BY <1>6 DEF Follows, Owners, TableInv
<1>8. /\ r.data \in Seq(Bytes) /\ Len(r.data) = Len(s.data) + Len(t)
      /\ \A n \in 1 .. Len(r.data) : r.data[n] = c[n]
      /\ r \in Streams /\ r.fd = s.fd /\ r.path = s.path
  <2>1. s.data \in Seq(Bytes)
    BY <1>2 DEF Streams
  <2>2. /\ s.data \o t \in Seq(Bytes) /\ Len(s.data \o t) = Len(s.data) + Len(t)
        /\ \A n \in 1 .. Len(s.data) + Len(t) :
             (s.data \o t)[n] = IF n <= Len(s.data) THEN s.data[n] ELSE t[n - Len(s.data)]
    BY <1>2, <2>1, ConcatProperties
  <2>3. \A n \in 1 .. Len(s.data) + Len(t) : (s.data \o t)[n] = c[n]
    <3> SUFFICES ASSUME NEW n \in 1 .. Len(s.data) + Len(t) PROVE (s.data \o t)[n] = c[n]
      OBVIOUS
    <3>1. CASE n <= Len(s.data)
      BY <1>2, <1>6, <2>2, <3>1 DEF Follows
    <3>2. CASE ~(n <= Len(s.data))
      <4>1. n - Len(s.data) \in 1 .. Len(t) /\ Len(s.data) + (n - Len(s.data)) = n
        BY <1>2, <3>2
      <4> QED BY <1>2, <2>2, <3>2, <4>1
    <3> QED BY <3>1, <3>2
  <2> QED BY <1>2, <2>2, <2>3 DEF Streams
<1>9. /\ files' \in [DOMAIN files -> Blocks] /\ DOMAIN files' = DOMAIN files
      /\ files'[x].path = s.path /\ files'[x].position = Len(r.data)
      /\ \A g \in DOMAIN files : g # x => files'[g] = files[g]
  BY <1>2, <1>3, <1>7, <1>8 DEF TableInv, Blocks
<1> HIDE DEF r, x, c
<1>10. Owners' = Owners
  BY <1>3 DEF Owners
<1>11. TableInv'
  <2>1. \A g \in DOMAIN files' : files'[g].position <= Len(Content[files'[g].path])
    <3> SUFFICES ASSUME NEW g \in DOMAIN files PROVE files'[g].position <= Len(Content[files'[g].path])
      BY <1>9
    <3>1. CASE g = x
      BY <1>2, <1>8, <1>9, <3>1 DEF c
    <3>2. CASE g # x
      BY <1>9, <3>2 DEF TableInv
    <3> QED BY <3>1, <3>2
  <2> QED BY <1>3, <1>9, <1>10, <2>1 DEF TableInv
<1>12. /\ streams' \in Seq(Streams) /\ DOMAIN streams' = DOMAIN streams /\ streams'[i] = r
       /\ \A k \in DOMAIN streams : k # i => streams'[k] = streams[k]
  BY <1>5, <1>8, ExceptSeq, LenProperties DEF StreamsInv
<1>13. \A k \in DOMAIN streams' : streams'[k].fd = streams[k].fd
  BY <1>8, <1>12 DEF s
<1>14. \A k \in DOMAIN streams' : Follows(streams[k])'
  <2> SUFFICES ASSUME NEW k \in DOMAIN streams PROVE Follows(streams[k])'
    BY <1>12
  <2>1. CASE k = i
    BY <1>3, <1>6, <1>8, <1>9, <1>10, <1>12, <2>1 DEF Follows, x, c
  <2>2. CASE k # i
    <3>1. Follows(streams[k]) /\ streams'[k] = streams[k] /\ streams[k].fd # s.fd
      BY <1>12, <2>2 DEF StreamsInv, s
    <3>2. /\ open_fds[streams[k].fd].internal # x
          /\ open_fds[streams[k].fd].internal \in DOMAIN files
      BY <1>6, <3>1 DEF Follows, TableInv, x
    <3> QED BY <1>3, <1>9, <1>10, <3>1, <3>2 DEF Follows
  <2> QED BY <2>1, <2>2
<1>15. \A k, m \in DOMAIN streams' : streams'[k].fd = streams'[m].fd => k = m
  BY <1>12, <1>13 DEF StreamsInv
<1> QED BY <1>11, <1>12, <1>14, <1>15 DEF StreamsInv

-----------------------------------------------------------------------------
(* The whole invariant.                                                    *)

IInv == BasicInv /\ TableInv /\ StreamsInv

(* A step that makes no system call.                                       *)
LEMMA SystemStays ==
  ASSUME TableInv, StreamsInv, UNCHANGED <<open_fds, files, streams>>
  PROVE  TableInv' /\ StreamsInv'
<1>1. TableInv' /\ Owners' = Owners
  BY TableStays DEF Owners
<1> QED BY <1>1, StreamsStay

(* The invariant holds at the start...                                     *)
LEMMA InitIInv == Init => IInv
<1> SUFFICES ASSUME Init PROVE IInv
  OBVIOUS
<1> QED BY InitBasicInv, InitTableInv, NoStreams DEF IInv, Init

(* ... and every step keeps it, action by action.                          *)
LEMMA NextIInv ==
  ASSUME IInv, [Next]_sessionVars
  PROVE  IInv'
<1>0. BasicInv /\ TableInv /\ StreamsInv
  BY DEF IInv
<1>1. CASE UserOpen
  BY <1>0, <1>1, UserOpenKeeps, FirstKeepsBasic DEF IInv, UserOpen, UnchangedBasic
<1>2. CASE UserRead
  BY <1>0, <1>2, UserReadKeeps, FirstKeepsBasic DEF IInv, UserRead, UnchangedBasic
<1>3. CASE UserSetMode
  <2>1. PICK f : \E mode \in 0 .. 1 : setmode(f, mode)
    BY <1>3 DEF UserSetMode
  <2>2. PICK mode \in 0 .. 1 : setmode(f, mode)
    BY <2>1
  <2>3. /\ TableInv' /\ files' = files /\ Owners' = Owners /\ streams' = streams
        /\ \A i \in Fds : open_fds'[i].internal = open_fds[i].internal
    BY <1>0, <1>3, <2>2, SetModeKeeps DEF UserSetMode
  <2>4. StreamsInv'
    BY <1>0, <2>3, StreamsStay
  <2> QED BY <1>0, <1>3, <2>3, <2>4, FirstKeepsBasic DEF IInv, UserSetMode, UnchangedBasic
<1>4. CASE UserStops
  <2>1. UNCHANGED <<open_fds, files, streams>>
    BY <1>4 DEF UserStops, abort, CallNothing
  <2> QED BY <1>0, <1>4, <2>1, SystemStays, FirstKeepsBasic DEF IInv, UserStops, UnchangedBasic
<1>5. CASE LoadBasic
  <2>0. open("teletype", 0) /\ streams' = << >>
    BY <1>5 DEF LoadBasic
  <2> DEFINE teletype == "teletype"
             read_only == 0
  <2>1. open(teletype, read_only) /\ read_only \in Nat
    BY <2>0
  <2> HIDE DEF teletype, read_only
  <2>2. TableInv'
    BY <1>0, <2>1, OpenKeeps
  <2>3. StreamsInv'
    <3>1. << >> \in Seq(Streams) /\ DOMAIN << >> = {}
      BY EmptySeq
    <3> QED BY <2>0, <3>1 DEF StreamsInv
  <2> QED BY <1>0, <1>5, <2>2, <2>3, LoadKeepsBasic DEF IInv
<1>6. CASE Render
  <2>1. UNCHANGED <<open_fds, files, streams>>
    BY <1>6 DEF Render, UnchangedSystem
  <2> QED BY <1>0, <1>6, <2>1, SystemStays, RenderKeepsBasic DEF IInv
<1>7. CASE Continue
  <2>1. UNCHANGED <<open_fds, files, streams>>
    BY <1>7 DEF Continue, UnchangedSystem
  <2> QED BY <1>0, <1>7, <2>1, SystemStays, ContinueKeepsBasic DEF IInv
<1>8. CASE KeysIn
  <2>1. UNCHANGED <<open_fds, files, streams>>
    BY <1>8 DEF KeysIn, UnchangedSystem
  <2> QED BY <1>0, <1>8, <2>1, SystemStays, KeysInKeepsBasic DEF IInv
<1>9. CASE NoKeys
  <2>1. UNCHANGED <<open_fds, files, streams>>
    BY <1>9 DEF NoKeys, UnchangedSystem
  <2> QED BY <1>0, <1>9, <2>1, SystemStays, NoKeysKeepsBasic DEF IInv
<1>10. CASE UNCHANGED sessionVars
  <2>1. UNCHANGED <<open_fds, files, streams, app, screen, pc, fd>>
    BY <1>10 DEF sessionVars, sysVars, basicVars
  <2>2. BasicInv'
    BY <1>0, <2>1 DEF BasicInv, Cached, Shows, Writable, Supports
  <2> QED BY <1>0, <2>1, <2>2, SystemStays DEF IInv
<1> QED BY <1>1, <1>2, <1>3, <1>4, <1>5, <1>6, <1>7, <1>8, <1>9, <1>10 DEF Next

(* For every table, every set of files and paths, every size of the        *)
(* screen, the input block and the program, and everything typed: the      *)
(* inductive invariant.                                                    *)
THEOREM SessionInvariant == Spec => []IInv
<1>1. Init => IInv
  BY InitIInv
<1>2. IInv /\ [Next]_sessionVars => IInv'
  BY NextIInv
<1> QED BY <1>1, <1>2, PTL DEF Spec

(* A stream that follows its file has read a prefix of it.                 *)
LEMMA StreamIsPrefix ==
  ASSUME TableInv, StreamsInv, NEW k \in DOMAIN streams
  PROVE  IsPrefix(streams[k].data, Content[streams[k].path])
<1> DEFINE s == streams[k].data
           c == Content[streams[k].path]
<1>1. streams[k] \in Streams /\ Follows(streams[k])
  BY ElementOfSeq, LenProperties DEF StreamsInv
<1>2. s \in Seq(Bytes) /\ c \in Seq(Bytes) /\ Len(s) \in Nat
  BY <1>1, ContentTyped, LenProperties DEF Streams
<1>3. Len(s) <= Len(c)
  BY <1>1 DEF Follows, TableInv, Owners
<1>4. \A n \in 1 .. Len(s) : s[n] = c[n]
  BY <1>1 DEF Follows
<1> HIDE DEF s, c
<1>5. Len(c) \in Nat
  BY <1>2, LenProperties
<1>6. \A n \in 1 .. Len(s) : s[n] \in Bytes /\ c[n] \in Bytes
  BY <1>2, <1>3, <1>4, <1>5, ElementOfSeq
<1>7. /\ SubSeq(s, 1, Len(s)) \in Seq(Bytes) /\ Len(SubSeq(s, 1, Len(s))) = Len(s)
      /\ \A n \in 1 .. Len(s) : SubSeq(s, 1, Len(s))[n] = s[n]
  BY <1>2, <1>6
<1>8. /\ SubSeq(c, 1, Len(s)) \in Seq(Bytes) /\ Len(SubSeq(c, 1, Len(s))) = Len(s)
      /\ \A n \in 1 .. Len(s) : SubSeq(c, 1, Len(s))[n] = c[n]
  BY <1>2, <1>3, <1>5, <1>6
<1>9. SubSeq(s, 1, Len(s)) = SubSeq(c, 1, Len(s))
  BY <1>4, <1>7, <1>8, SeqEqual
<1> QED BY <1>3, <1>9 DEF IsPrefix, s, c

(* For any number of descriptors and any files: what a program reads       *)
(* through a descriptor is its file from the first byte on, and every      *)
(* block has its descriptor (open, fat32_read_struct).                     *)
THEOREM DescriptorsAreApart == Spec => []DescriptorsApart
<1>1. IInv => DescriptorsApart
  <2> SUFFICES ASSUME IInv PROVE DescriptorsApart
    OBVIOUS
  <2>1. StreamsIndependent
    BY StreamIsPrefix DEF StreamsIndependent, IInv
  <2>2. FilesOwned
    BY DEF FilesOwned, IInv, TableInv, Owners
  <2> QED BY <2>1, <2>2 DEF DescriptorsApart
<1> QED BY <1>1, SessionInvariant, PTL

(* After every render the screen shows the history and the typed line, for *)
(* every number of rows and everything typed (render_history,              *)
(* render_command).                                                        *)
THEOREM ScreenShows == Spec => []ScreenShowsState
<1>1. IInv => ScreenShowsState
  BY Zenon DEF IInv, BasicInv, ScreenShowsState, Shows, Prompt
<1> QED BY <1>1, SessionInvariant, PTL

(* The stored lines stay in order and a running program is at a line it    *)
(* has, for every sequence of commands, stored lines, gotos and errors     *)
(* (u32erpret_basic, continue_program).                                    *)
THEOREM ProgramIsConsistent == Spec => []ProgramConsistent
<1>1. IInv => ProgramConsistent
  BY DEF IInv, BasicInv, ProgramConsistent, ProgramOrdered, RunningInRange, Ordered, InRange
<1> QED BY <1>1, SessionInvariant, PTL

(* A step that is taken once the program is freed: only the key that the   *)
(* turn still waits for.                                                   *)
LEMMA FreedStep ==
  ASSUME IInv, app.freed, [Next]_sessionVars
  PROVE  Same(app, app')
<1>1. pc \in {"left", "keys"} /\ BasicInv
  BY DEF IInv, BasicInv
<1>2. CASE KeysIn
  BY <1>1, <1>2, KeysInGoes
<1>3. CASE NoKeys \/ UNCHANGED sessionVars
  BY <1>3 DEF NoKeys, AsApp, Same, sessionVars, basicVars
<1>4. ~(UserOpen \/ UserRead \/ UserSetMode \/ UserStops \/ LoadBasic \/ Render \/ Continue)
  BY <1>1 DEF UserOpen, UserRead, UserSetMode, UserStops, LoadBasic, First, Render, Continue, At
<1> QED BY <1>2, <1>3, <1>4 DEF Next

(* Once quit has freed the program nothing is stored or carried out any    *)
(* more, from whichever action quit came (quit, main).                     *)
THEOREM QuitIsFinal == Spec => NothingAfterQuit
<1>1. IInv /\ [Next]_sessionVars =>
        [app.freed => /\ app'.program = app.program
                      /\ app'.variables = app.variables
                      /\ app'.current_line_number = app.current_line_number]_sessionVars
  BY FreedStep DEF Same
<1> QED BY <1>1, SessionInvariant, PTL DEF Spec, NothingAfterQuit
=============================================================================
