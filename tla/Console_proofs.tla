--------------------------- MODULE Console_proofs ----------------------------
(***************************************************************************)
(* Proofs about Keyboard: type correctness, that reads return keys in      *)
(* order, and that the first controller is acknowledged; and about         *)
(* Console: what a read makes of a line, what the screen shows of it, and  *)
(* that the two branches of display.c show the same of everything.         *)
(***************************************************************************)
EXTENDS Console, FiniteSetTheorems, SequenceTheorems, WellFoundedInduction, TLAPS

(* The parity of the tick counts the characters, so that a tick other than   *)
(* the one read when the wait began means that a character was typed since.  *)
Waiting == pc \in {"poll", "take"}

KeyInv ==
  /\ simple.tick = (Len(typed) % 2 = 1)
  /\ typed # <<>> => simple.char = typed[Len(typed)]
  /\ snapAt <= Len(typed)
  /\ Waiting => snap = (snapAt % 2 = 1)
  /\ pc = "take" => snapAt < Len(typed)
  /\ \A i \in 1 .. Len(got) :
       /\ got[i].at <= Len(typed)
       /\ Waiting => got[i].at <= snapAt
  /\ KeysInOrder

(* The lines of the first controller in service are those of the handlers    *)
(* that have not acknowledged theirs, each of a lower number than those of   *)
(* the handlers it interrupted.                                              *)
Open == {n \in 1 .. Len(frames) : frames[n].at # "return"}
LineOf(n) == Level(frames[n].irq)

AckInv ==
  /\ \A i \in inService : i < 8 => \E n \in Open : i = LineOf(n)
  /\ \A n \in Open : LineOf(n) \in inService
  /\ \A m, n \in Open : m < n => LineOf(n) < LineOf(m)
-----------------------------------------------------------------------------
(* Small facts about the sequences of the model. *)
LEMMA PopType ==
  ASSUME NEW S, NEW s \in Seq(S), s # <<>>
  PROVE  /\ SubSeq(s, 1, Len(s) - 1) \in Seq(S)
         /\ Len(SubSeq(s, 1, Len(s) - 1)) = Len(s) - 1
         /\ \A n \in 1 .. Len(s) - 1 : SubSeq(s, 1, Len(s) - 1)[n] = s[n]
<1>1. Len(s) \in Nat /\ Len(s) # 0
  BY EmptySeq, LenProperties
<1>2. \A n \in 1 .. Len(s) - 1 : s[n] \in S
  BY <1>1, ElementOfSeq
<1> DEFINE n == Len(s) - 1
<1>3. n \in Nat /\ 1 \in Int /\ n \in Int /\ (n - 1) + 1 = n
  BY <1>1
<1>4. \A i \in 1 .. n : s[i] \in S
  BY <1>2
<1> HIDE DEF n
<1>5. /\ SubSeq(s, 1, n) \in Seq(S)
      /\ Len(SubSeq(s, 1, n)) = IF 1 <= n THEN (n - 1) + 1 ELSE 0
      /\ \A i \in 1 .. (n - 1) + 1 : SubSeq(s, 1, n)[i] = s[(1 + i) - 1]
  BY <1>3, <1>4, SubSeqProperties
<1>6. /\ SubSeq(s, 1, n) \in Seq(S) /\ Len(SubSeq(s, 1, n)) = n
      /\ \A i \in 1 .. n : SubSeq(s, 1, n)[i] = s[i]
  BY <1>3, <1>5
<1>7. QED BY <1>6 DEF n

LEMMA TopFrame ==
  ASSUME TypeOK, frames # <<>>
  PROVE  /\ Len(frames) \in Nat \ {0}
         /\ Running \in [irq : Lines, at : {"handler", "ack", "return"}]
<1>1. frames \in Seq([irq : Lines, at : {"handler", "ack", "return"}])
  BY DEF TypeOK
<1>2. Len(frames) \in Nat /\ Len(frames) # 0
  BY <1>1, EmptySeq, LenProperties
<1>3. Len(frames) \in 1 .. Len(frames)
  BY <1>2
<1>4. frames[Len(frames)] \in [irq : Lines, at : {"handler", "ack", "return"}]
  BY <1>1, <1>3, ElementOfSeq
<1>5. QED BY <1>2, <1>4 DEF Running

LEMMA AdvanceType ==
  ASSUME TypeOK, frames # <<>>, NEW at \in {"handler", "ack", "return"}, Advance(at)
  PROVE  /\ frames' \in Seq([irq : Lines, at : {"handler", "ack", "return"}])
         /\ Len(frames') = Len(frames)
         /\ frames'[Len(frames)] = [irq |-> Running.irq, at |-> at]
         /\ \A n \in 1 .. Len(frames) - 1 : frames'[n] = frames[n]
<1> DEFINE frame == [irq |-> Running.irq, at |-> at]
<1>1. frame \in [irq : Lines, at : {"handler", "ack", "return"}]
  BY TopFrame
<1>2. Len(frames) \in 1 .. Len(frames)
  BY TopFrame
<1>3. frames' = [frames EXCEPT ![Len(frames)] = frame]
  BY DEF Advance
<1> HIDE DEF frame
<1>4. /\ frames' \in Seq([irq : Lines, at : {"handler", "ack", "return"}])
      /\ Len(frames') = Len(frames)
      /\ \A j \in 1 .. Len(frames) : frames'[j] = IF j = Len(frames) THEN frame ELSE frames[j]
  BY <1>1, <1>2, <1>3, ExceptSeq DEF TypeOK
<1>5. QED BY <1>2, <1>4, TopFrame DEF frame

LEMMA CharacterType ==
  ASSUME NEW s, NEW key \in Keys
  PROVE  Character(s, key) \in Chars \cup {NoChar}
  BY DEF Character, keyboard_layout_us, Chars, NoChar, Keys

(* The four ways simple_state changes. *)
LEMMA KeyDownType ==
  ASSUME TypeOK, NEW key \in Keys
  PROVE  /\ KeyDown(simple, key) \in [char : Chars \cup {NoChar}, key : Keys \cup {NoKey},
                  pressed : BOOLEAN, shift : BOOLEAN, caps : BOOLEAN, tick : BOOLEAN]
         /\ Character(simple, key) = NoChar =>
              /\ KeyDown(simple, key).char = simple.char
              /\ KeyDown(simple, key).tick = simple.tick
         /\ Character(simple, key) # NoChar =>
              /\ KeyDown(simple, key).char = Character(simple, key)
              /\ KeyDown(simple, key).tick = ~ simple.tick
<1>1. Character(simple, key) \in Chars \cup {NoChar}
  BY CharacterType
<1>2. QED BY <1>1 DEF KeyDown, TypeOK

LEMMA KeyUpType ==
  ASSUME TypeOK, NEW key \in Keys
  PROVE  /\ KeyUp(simple, key) \in [char : Chars \cup {NoChar}, key : Keys \cup {NoKey},
                  pressed : BOOLEAN, shift : BOOLEAN, caps : BOOLEAN, tick : BOOLEAN]
         /\ KeyUp(simple, key).char = simple.char
         /\ KeyUp(simple, key).tick = simple.tick
  BY DEF KeyUp, TypeOK

(* What keyboard_handler does to the tick, the character and the history. *)
LEMMA HandlerEffect ==
  ASSUME TypeOK, keyboard_handler
  PROVE  /\ simple' \in [char : Chars \cup {NoChar}, key : Keys \cup {NoKey},
                  pressed : BOOLEAN, shift : BOOLEAN, caps : BOOLEAN, tick : BOOLEAN]
         /\ wire' \in Seq(Scancodes)
         /\ \/ typed' = typed /\ simple'.char = simple.char /\ simple'.tick = simple.tick
            \/ \E c \in Chars : /\ typed' = Append(typed, c)
                                /\ simple'.char = c /\ simple'.tick = ~ simple.tick
<1>1. wire # <<>> /\ wire' = Tail(wire)
  BY DEF keyboard_handler
<1>2. Head(wire) \in Scancodes /\ wire' \in Seq(Scancodes)
  BY <1>1, HeadTailProperties DEF TypeOK
<1>3. CASE Head(wire) = Extended
  BY <1>2, <1>3 DEF keyboard_handler, TypeOK
<1>4. CASE Head(wire) # Extended /\ Head(wire).down
  <2>1. Head(wire).key \in Keys
    BY <1>2, <1>4 DEF Scancodes
  <2>2. simple' = KeyDown(simple, Head(wire).key)
    BY <1>4 DEF keyboard_handler
  <2>3. typed' = IF Character(simple, Head(wire).key) # NoChar
                 THEN Append(typed, Character(simple, Head(wire).key)) ELSE typed
    BY <1>4 DEF keyboard_handler
  <2>4. QED BY <1>2, <2>1, <2>2, <2>3, KeyDownType, CharacterType
<1>5. CASE Head(wire) # Extended /\ ~ Head(wire).down
  <2>1. Head(wire).key \in Keys
    BY <1>2, <1>5 DEF Scancodes
  <2>2. simple' = KeyUp(simple, Head(wire).key) /\ typed' = typed
    BY <1>5 DEF keyboard_handler
  <2>3. QED BY <1>2, <2>1, <2>2, KeyUpType
<1>6. QED BY <1>3, <1>4, <1>5

-----------------------------------------------------------------------------
(* Type correctness, one step per action. *)
LEMMA InitType == Init => TypeOK
<1> SUFFICES ASSUME Init PROVE TypeOK
  OBVIOUS
<1>1. simple \in [char : Chars \cup {NoChar}, key : Keys \cup {NoKey}, pressed : BOOLEAN,
                 shift : BOOLEAN, caps : BOOLEAN, tick : BOOLEAN]
  BY DEF Init
<1>2. /\ wire \in Seq(Scancodes) /\ typed \in Seq(Chars)
      /\ frames \in Seq([irq : Lines, at : {"handler", "ack", "return"}])
      /\ got \in Seq([char : Chars \cup {NoChar}, from : Nat, at : Nat])
  BY EmptySeq DEF Init
<1>3. pressed \in 0 .. MaxKeys /\ ticks \in 0 .. MaxTicks /\ sleepEnd \in 0 .. MaxTicks
  BY KeyboardAssumption DEF Init
<1>4. held \subseteq Keys /\ inService \subseteq Lines \cup {2}
  BY DEF Init
<1>5. /\ local \in 0 .. 1 /\ snapAt \in Nat
      /\ pc \in {"run", "poll", "take", "sleep", "drowsy", "halted", "off"}
  BY DEF Init
<1>6. snap \in BOOLEAN /\ panicking \in BOOLEAN
  BY DEF Init
<1>7. QED BY <1>1, <1>2, <1>3, <1>4, <1>5, <1>6 DEF TypeOK

LEMMA NextType == TypeOK /\ [Next]_vars => TypeOK'
<1> SUFFICES ASSUME TypeOK, [Next]_vars PROVE TypeOK'
  OBVIOUS
<1> USE KeyboardAssumption
<1>1. ASSUME NEW key \in Keys, NEW down \in BOOLEAN, UserKey(key, down) PROVE TypeOK'
  <2>1. [key |-> key, down |-> down] \in Scancodes /\ Extended \in Scancodes
    BY DEF Scancodes, Extended
  <2>2. /\ <<[key |-> key, down |-> down]>> \in Seq(Scancodes)
        /\ <<Extended, [key |-> key, down |-> down]>> \in Seq(Scancodes)
    BY <2>1
  <2>3. wire' \in Seq(Scancodes)
    BY <1>1, <2>2, ConcatProperties DEF UserKey, TypeOK
  <2>4. pressed' \in 0 .. MaxKeys /\ held' \subseteq Keys
    BY <1>1 DEF UserKey, TypeOK
  <2>5. QED BY <1>1, <2>3, <2>4 DEF UserKey, TypeOK, timerVars, mainVars
<1>2. ASSUME NEW irq \in Lines, Interrupt(irq) PROVE TypeOK'
  <2>1. [irq |-> irq, at |-> "handler"] \in [irq : Lines, at : {"handler", "ack", "return"}]
    OBVIOUS
  <2>2. frames' \in Seq([irq : Lines, at : {"handler", "ack", "return"}])
    BY <1>2, <2>1 DEF Interrupt, TypeOK
  <2>3. Level(irq) \in Lines \cup {2}
    BY DEF Level
  <2>4. inService' \subseteq Lines \cup {2}
    BY <1>2, <2>3 DEF Interrupt, TypeOK
  <2>5. pc' \in {"run", "poll", "take", "sleep", "drowsy", "halted", "off"}
    BY <1>2 DEF Interrupt, TypeOK
  <2>6. QED BY <1>2, <2>2, <2>4, <2>5 DEF Interrupt, TypeOK, keyboardVars, timerVars
<1>3. ASSUME timer_handler PROVE TypeOK'
  <2>1. frames # <<>> /\ Advance("ack")
    BY <1>3 DEF timer_handler, OnTop
  <2>2. local' \in 0 .. 1 /\ ticks' \in 0 .. MaxTicks
    BY <1>3 DEF timer_handler, TypeOK
  <2>3. QED BY <1>3, <2>1, <2>2, AdvanceType DEF timer_handler, TypeOK, keyboardVars, mainVars
<1>4. ASSUME keyboard_handler PROVE TypeOK'
  <2>1. frames # <<>> /\ Advance("ack")
    BY <1>4 DEF keyboard_handler, OnTop
  <2>2. typed' \in Seq(Chars)
    <3>1. typed' = typed \/ \E c \in Chars : typed' = Append(typed, c)
      BY <1>4, HandlerEffect
    <3>2. CASE typed' = typed
      BY <3>2 DEF TypeOK
    <3>3. ASSUME NEW c \in Chars, typed' = Append(typed, c) PROVE typed' \in Seq(Chars)
      <4>1. typed \in Seq(Chars)
        BY DEF TypeOK
      <4>2. QED BY <3>3, <4>1, AppendProperties
    <3>4. QED BY <3>1, <3>2, <3>3
  <2>3. QED BY <1>4, <2>1, <2>2, AdvanceType, HandlerEffect
            DEF keyboard_handler, TypeOK, timerVars, mainVars
<1>5. ASSUME NEW irq \in SlaveLines, NoHandler(irq) PROVE TypeOK'
  <2>1. frames # <<>> /\ Advance("ack")
    BY <1>5 DEF NoHandler, OnTop
  <2>2. QED BY <1>5, <2>1, AdvanceType DEF NoHandler, TypeOK, keyboardVars, timerVars, mainVars
<1>6. ASSUME Acknowledge PROVE TypeOK'
  <2>1. frames # <<>> /\ Advance("return")
    BY <1>6 DEF Acknowledge
  <2>2. inService' \subseteq inService
    BY <1>6 DEF Acknowledge, Acknowledged
  <2>3. QED BY <1>6, <2>1, <2>2, AdvanceType
            DEF Acknowledge, TypeOK, keyboardVars, timerVars, mainVars
<1>7. ASSUME InterruptReturn PROVE TypeOK'
  <2>1. frames' \in Seq([irq : Lines, at : {"handler", "ack", "return"}])
    BY <1>7, PopType DEF InterruptReturn, TypeOK
  <2>2. QED BY <1>7, <2>1 DEF InterruptReturn, TypeOK, keyboardVars, timerVars, mainVars
<1>8. ASSUME wait_for_keypress PROVE TypeOK'
  <2>1. Len(typed) \in Nat
    BY LenProperties DEF TypeOK
  <2>2. QED BY <1>8, <2>1 DEF wait_for_keypress, MainOnly, TypeOK, keyboardVars, timerVars
<1>9. ASSUME Poll PROVE TypeOK'
  BY <1>9 DEF Poll, MainOnly, TypeOK, keyboardVars, timerVars
<1>10. ASSUME TakeKey PROVE TypeOK'
  <2>1. Len(typed) \in Nat
    BY LenProperties DEF TypeOK
  <2>2. [char |-> simple.char, from |-> snapAt, at |-> Len(typed)]
          \in [char : Chars \cup {NoChar}, from : Nat, at : Nat]
    BY <2>1 DEF TypeOK
  <2>3. got' \in Seq([char : Chars \cup {NoChar}, from : Nat, at : Nat])
    BY <1>10, <2>2 DEF TakeKey, TypeOK
  <2>4. QED BY <1>10, <2>3 DEF TakeKey, MainOnly, TypeOK, keyboardVars, timerVars
<1>11. ASSUME NEW ms \in Naps, ProgramSleep(ms) PROVE TypeOK'
  <2>1. sleepEnd' \in 0 .. MaxTicks
    BY <1>11 DEF ProgramSleep, sleep, TypeOK
  <2>2. QED BY <1>11, <2>1 DEF ProgramSleep, sleep, MainOnly, TypeOK, keyboardVars, timerVars
<1>12. ASSUME interrupt_panic PROVE TypeOK'
  <2>1. sleepEnd' \in 0 .. MaxTicks
    BY <1>12 DEF interrupt_panic, sleep, TypeOK
  <2>2. QED BY <1>12, <2>1 DEF interrupt_panic, sleep, MainOnly, TypeOK, keyboardVars, timerVars
<1>13. ASSUME Awake PROVE TypeOK'
  BY <1>13 DEF Awake, MainOnly, TypeOK, keyboardVars, timerVars
<1>14. ASSUME Drowse PROVE TypeOK'
  BY <1>14 DEF Drowse, MainOnly, TypeOK, keyboardVars, timerVars
<1>15. ASSUME Halt PROVE TypeOK'
  BY <1>15 DEF Halt, MainOnly, TypeOK, keyboardVars, timerVars
<1>16. ASSUME UNCHANGED vars PROVE TypeOK'
  BY <1>16 DEF vars, mainVars, TypeOK
<1>17. QED
  BY <1>1, <1>2, <1>3, <1>4, <1>5, <1>6, <1>7, <1>8, <1>9, <1>10, <1>11, <1>12, <1>13,
     <1>14, <1>15, <1>16 DEF Next, HandlerStep, MainStep

(* simple_state, the stack of handlers and the program's place stay of their *)
(* types, whatever interrupts whatever.                                      *)
THEOREM KeyboardTypeCorrect == Spec => []TypeOK
  BY InitType, NextType, PTL DEF Spec

-----------------------------------------------------------------------------
(* Keys in order.  KeyInv mentions a few variables only; the other actions   *)
(* keep them, and at most leave the wait.                                    *)
LEMMA KeyKept ==
  ASSUME KeyInv, UNCHANGED <<simple, typed, snapAt, snap, got>>,
         pc' \in {"poll", "take"} => pc' = pc
  PROVE  KeyInv'
  BY DEF KeyInv, Waiting, KeysInOrder

LEMMA InitKey == Init => KeyInv
<1> SUFFICES ASSUME Init PROVE KeyInv
  OBVIOUS
<1>1. typed = <<>> /\ got = <<>> /\ Len(typed) = 0 /\ Len(got) = 0
  BY EmptySeq DEF Init
<1>2. simple.tick = FALSE /\ snapAt = 0 /\ pc = "run"
  BY DEF Init
<1>3. ~ Waiting /\ pc # "take"
  BY <1>2 DEF Waiting
<1>4. 1 .. Len(got) = {}
  BY <1>1
<1>5. simple.tick = (Len(typed) % 2 = 1) /\ snapAt <= Len(typed)
  <2>1. ~ (0 % 2 = 1) /\ 0 <= 0
    OBVIOUS
  <2>2. QED BY <1>1, <1>2, <2>1
<1>6. KeysInOrder
  BY <1>4 DEF KeysInOrder
<1>7. QED BY <1>1, <1>3, <1>4, <1>5, <1>6 DEF KeyInv

LEMMA HandlerKey ==
  ASSUME TypeOK, KeyInv, keyboard_handler
  PROVE  KeyInv'
<1>1. UNCHANGED <<pc, snap, snapAt, got>>
  BY DEF keyboard_handler, mainVars
<1>2. CASE typed' = typed /\ simple'.char = simple.char /\ simple'.tick = simple.tick
  BY <1>1, <1>2 DEF KeyInv, Waiting, KeysInOrder
<1>3. ASSUME NEW c \in Chars, typed' = Append(typed, c),
             simple'.char = c, simple'.tick = ~ simple.tick
      PROVE  KeyInv'
  <2>1. typed \in Seq(Chars) /\ Len(typed) \in Nat
    BY LenProperties DEF TypeOK
  <2>2. /\ Len(typed') = Len(typed) + 1
        /\ \A i \in 1 .. Len(typed) : typed'[i] = typed[i]
        /\ typed'[Len(typed) + 1] = c
    BY <1>3, <2>1, AppendProperties
  <2>3. simple'.tick = (Len(typed') % 2 = 1)
    <3>1. simple.tick = (Len(typed) % 2 = 1)
      BY DEF KeyInv
    <3>2. (Len(typed) + 1) % 2 = 1 <=> ~ (Len(typed) % 2 = 1)
      BY <2>1
    <3>3. QED BY <1>3, <2>2, <3>1, <3>2
  <2>4. typed' # <<>> => simple'.char = typed'[Len(typed')]
    BY <1>3, <2>2
  <2>5. snapAt' <= Len(typed') /\ (pc' = "take" => snapAt' < Len(typed'))
    BY <1>1, <2>1, <2>2 DEF KeyInv, TypeOK
  <2>6. Waiting' => snap' = (snapAt' % 2 = 1)
    BY <1>1 DEF KeyInv, Waiting
  <2>7. \A i \in 1 .. Len(got) : got[i] \in [char : Chars \cup {NoChar}, from : Nat, at : Nat]
    BY ElementOfSeq DEF TypeOK
  <2>8. \A i \in 1 .. Len(got') : got'[i].at <= Len(typed') /\ (Waiting' => got'[i].at <= snapAt')
    BY <1>1, <2>1, <2>2, <2>7 DEF KeyInv, Waiting
  <2>9. ASSUME NEW i \in 1 .. Len(got') 
        PROVE  /\ got'[i].from < got'[i].at
               /\ got'[i].at <= Len(typed') /\ got'[i].char = typed'[got'[i].at]
               /\ \A j \in 1 .. i - 1 : got'[j].at <= got'[i].from
    <3>1. /\ got[i].from < got[i].at /\ got[i].at <= Len(typed)
          /\ got[i].char = typed[got[i].at]
          /\ \A j \in 1 .. i - 1 : got[j].at <= got[i].from
      BY <1>1, <2>9 DEF KeyInv, KeysInOrder
    <3>2. got[i].at \in 1 .. Len(typed)
      BY <1>1, <2>1, <2>7, <2>9, <3>1
    <3>3. QED BY <1>1, <2>1, <2>2, <3>1, <3>2
  <2>10. KeysInOrder'
    BY <2>9 DEF KeysInOrder
  <2>11. QED BY <2>3, <2>4, <2>5, <2>6, <2>8, <2>10 DEF KeyInv
<1>4. QED BY <1>2, <1>3, HandlerEffect

LEMMA TakeKeyKey ==
  ASSUME TypeOK, KeyInv, TakeKey
  PROVE  KeyInv'
<1> DEFINE new == [char |-> simple.char, from |-> snapAt, at |-> Len(typed)]
<1>1. /\ pc = "take" /\ pc' = "run" /\ got' = Append(got, new)
      /\ UNCHANGED <<simple, typed, snapAt, snap>>
  BY DEF TakeKey, MainOnly, keyboardVars
<1>2. /\ typed \in Seq(Chars) /\ Len(typed) \in Nat /\ snapAt \in Nat
      /\ got \in Seq([char : Chars \cup {NoChar}, from : Nat, at : Nat]) /\ Len(got) \in Nat
  BY LenProperties DEF TypeOK
<1>3. new \in [char : Chars \cup {NoChar}, from : Nat, at : Nat]
  BY <1>2 DEF TypeOK
<1>4. /\ new.at = Len(typed) /\ new.from = snapAt /\ new.char = simple.char
      /\ snapAt < Len(typed) /\ typed # <<>> /\ simple.char = typed[Len(typed)]
  BY <1>1, <1>2, EmptySeq DEF KeyInv
<1> HIDE DEF new
<1>5. /\ Len(got') = Len(got) + 1
      /\ \A i \in 1 .. Len(got) : got'[i] = got[i]
      /\ got'[Len(got) + 1] = new
  BY <1>1, <1>2, <1>3, AppendProperties
<1>6. \A i \in 1 .. Len(got) : got[i].at <= snapAt /\ got[i].at <= Len(typed)
  BY <1>1 DEF KeyInv, Waiting
<1>7. \A i \in 1 .. Len(got') : got'[i].at <= Len(typed')
  BY <1>1, <1>2, <1>4, <1>5, <1>6
<1>8. ASSUME NEW i \in 1 .. Len(got')
      PROVE  /\ got'[i].from < got'[i].at
             /\ got'[i].at <= Len(typed') /\ got'[i].char = typed'[got'[i].at]
             /\ \A j \in 1 .. i - 1 : got'[j].at <= got'[i].from
  <2>1. CASE i = Len(got) + 1
    BY <1>1, <1>2, <1>4, <1>5, <1>6, <2>1
  <2>2. CASE i \in 1 .. Len(got)
    BY <1>1, <1>2, <1>5, <2>2 DEF KeyInv, KeysInOrder
  <2>3. QED BY <1>2, <1>5, <1>8, <2>1, <2>2
<1>9. KeysInOrder'
  BY <1>8 DEF KeysInOrder
<1>10. QED BY <1>1, <1>7, <1>9 DEF KeyInv, Waiting

LEMMA NextKey == TypeOK /\ KeyInv /\ [Next]_vars => KeyInv'
<1> SUFFICES ASSUME TypeOK, KeyInv, [Next]_vars PROVE KeyInv'
  OBVIOUS
<1>1. ASSUME NEW key \in Keys, NEW down \in BOOLEAN, UserKey(key, down) PROVE KeyInv'
  BY <1>1, KeyKept DEF UserKey, mainVars
<1>2. ASSUME NEW irq \in Lines, Interrupt(irq) PROVE KeyInv'
  BY <1>2, KeyKept DEF Interrupt, keyboardVars
<1>3. CASE timer_handler
  BY <1>3, KeyKept DEF timer_handler, keyboardVars, mainVars
<1>4. CASE keyboard_handler
  BY <1>4, HandlerKey
<1>5. ASSUME NEW irq \in SlaveLines, NoHandler(irq) PROVE KeyInv'
  BY <1>5, KeyKept DEF NoHandler, keyboardVars, mainVars
<1>6. CASE Acknowledge
  BY <1>6, KeyKept DEF Acknowledge, keyboardVars, mainVars
<1>7. CASE InterruptReturn
  BY <1>7, KeyKept DEF InterruptReturn, keyboardVars, mainVars
<1>8. CASE wait_for_keypress
  <2>1. /\ snap' = simple.tick /\ snapAt' = Len(typed) /\ pc' = "poll"
        /\ UNCHANGED <<simple, typed, got>> /\ Len(typed) \in Nat
    BY <1>8, LenProperties DEF wait_for_keypress, MainOnly, keyboardVars, TypeOK
  <2>2. QED BY <2>1 DEF KeyInv, KeysInOrder, Waiting
<1>9. CASE Poll
  <2>1. /\ simple.tick # snap /\ pc = "poll" /\ pc' = "take"
        /\ UNCHANGED <<simple, typed, snap, snapAt, got>>
    BY <1>9 DEF Poll, MainOnly, keyboardVars
  <2>2. Len(typed) \in Nat /\ snapAt \in Nat
    BY LenProperties DEF TypeOK
  <2>3. snapAt # Len(typed)
    BY <2>1 DEF KeyInv, Waiting
  <2>4. snapAt < Len(typed)
    BY <2>2, <2>3 DEF KeyInv
  <2>5. QED BY <2>1, <2>4 DEF KeyInv, KeysInOrder, Waiting
<1>10. CASE TakeKey
  BY <1>10, TakeKeyKey
<1>11. ASSUME NEW ms \in Naps, ProgramSleep(ms) PROVE KeyInv'
  BY <1>11, KeyKept DEF ProgramSleep, sleep, MainOnly, keyboardVars
<1>12. CASE interrupt_panic
  BY <1>12, KeyKept DEF interrupt_panic, sleep, MainOnly, keyboardVars
<1>13. CASE Awake
  BY <1>13, KeyKept DEF Awake, MainOnly, keyboardVars
<1>14. CASE Drowse
  BY <1>14, KeyKept DEF Drowse, MainOnly, keyboardVars
<1>15. CASE Halt
  BY <1>15, KeyKept DEF Halt, MainOnly, keyboardVars
<1>16. CASE UNCHANGED vars
  BY <1>16, KeyKept DEF vars, mainVars
<1>17. QED
  BY <1>1, <1>2, <1>3, <1>4, <1>5, <1>6, <1>7, <1>8, <1>9, <1>10, <1>11, <1>12, <1>13,
     <1>14, <1>15, <1>16 DEF Next, HandlerStep, MainStep

(* No read returns a key twice, an old one, or one that a later read's key   *)
(* came after: for any number of keys, lines and nested handlers.            *)
THEOREM ReadsAreInOrder == Spec => []KeysInOrder
<1>1. TypeOK /\ KeyInv /\ [Next]_vars => (TypeOK /\ KeyInv)'
  BY NextType, NextKey
<1>2. KeyInv => KeysInOrder
  BY DEF KeyInv
<1>3. QED BY InitType, InitKey, <1>1, <1>2, PTL DEF Spec

-----------------------------------------------------------------------------
(* The first controller.  Lines are numbers, and a frame's level is one of   *)
(* the first controller.                                                     *)
LEMMA LineNumbers ==
  ASSUME TypeOK
  PROVE  /\ Lines \subseteq 0 .. 15 /\ inService \subseteq 0 .. 15
         /\ \A irq \in Lines : Level(irq) \in 0 .. 7
         /\ Len(frames) \in Nat
         /\ \A n \in 1 .. Len(frames) : frames[n].irq \in Lines /\ LineOf(n) \in 0 .. 7
<1>1. Lines \subseteq 0 .. 15
  BY KeyboardAssumption DEF Lines
<1>2. inService \subseteq 0 .. 15
  BY <1>1 DEF TypeOK
<1>3. \A irq \in Lines : Level(irq) \in 0 .. 7
  BY <1>1 DEF Level
<1>4. Len(frames) \in Nat
  BY LenProperties DEF TypeOK
<1>5. \A n \in 1 .. Len(frames) : frames[n] \in [irq : Lines, at : {"handler", "ack", "return"}]
  BY ElementOfSeq DEF TypeOK
<1>6. QED BY <1>1, <1>2, <1>3, <1>4, <1>5 DEF LineOf

LEMMA AckKept ==
  ASSUME AckInv, UNCHANGED <<frames, inService>>
  PROVE  AckInv'
  BY DEF AckInv, Open, LineOf

(* A handler that has run has not acknowledged its line yet. *)
LEMMA AckAdvance ==
  ASSUME TypeOK, AckInv, UNCHANGED inService,
         frames # <<>>, Running.at = "handler", Advance("ack")
  PROVE  AckInv'
<1>1. /\ Len(frames') = Len(frames)
      /\ frames'[Len(frames)] = [irq |-> Running.irq, at |-> "ack"]
      /\ \A n \in 1 .. Len(frames) - 1 : frames'[n] = frames[n]
  BY AdvanceType
<1>2. Len(frames) \in Nat \ {0}
  BY TopFrame
<1>3. \A n \in 1 .. Len(frames) :
        /\ frames'[n].irq = frames[n].irq
        /\ (frames'[n].at # "return") = (frames[n].at # "return")
  <2>1. TAKE n \in 1 .. Len(frames)
  <2>2. CASE n = Len(frames)
    BY <1>1, <2>2 DEF Running
  <2>3. CASE n \in 1 .. Len(frames) - 1
    BY <1>1, <2>3
  <2>4. QED BY <1>2, <2>2, <2>3
<1>4. Open' = Open
  BY <1>1, <1>3 DEF Open
<1>5. \A n \in Open : LineOf(n)' = LineOf(n)
  BY <1>3 DEF Open, LineOf
<1>6. QED BY <1>4, <1>5 DEF AckInv

LEMMA InterruptAck ==
  ASSUME TypeOK, AckInv, NEW irq \in Lines, Interrupt(irq)
  PROVE  AckInv'
<1> DEFINE frame == [irq |-> irq, at |-> "handler"]
<1>0. PICK top \in Int : top = Len(frames) + 1
  BY LineNumbers
<1>1. /\ frames' = Append(frames, frame)
      /\ Level(irq) \in inService' /\ inService \subseteq inService'
      /\ \A i \in inService' : i \in inService \/ i = Level(irq) \/ (i = irq /\ irq >= 8)
      /\ \A i \in inService : i < 8 => Level(irq) < i
  BY DEF Interrupt
<1>2. frame \in [irq : Lines, at : {"handler", "ack", "return"}]
  OBVIOUS
<1>3. frames \in Seq([irq : Lines, at : {"handler", "ack", "return"}])
  BY DEF TypeOK
<1>4. frame.irq = irq /\ frame.at = "handler"
  OBVIOUS
<1> HIDE DEF frame
<1>5. /\ Len(frames') = top /\ frames'[top] = frame
      /\ \A n \in 1 .. Len(frames) : frames'[n] = frames[n]
  BY <1>0, <1>1, <1>2, <1>3, AppendProperties
<1>6. Len(frames) \in Nat
  BY LineNumbers
<1>7. Open' = Open \cup {top}
  BY <1>0, <1>4, <1>5, <1>6 DEF Open
<1>8. LineOf(top)' = Level(irq) /\ \A n \in Open : LineOf(n)' = LineOf(n)
  <2>1. LineOf(top)' = Level(irq)
    BY <1>4, <1>5 DEF LineOf, Level
  <2>2. ASSUME NEW n \in Open PROVE LineOf(n)' = LineOf(n)
    BY <1>5, <2>2 DEF LineOf, Open
  <2>3. QED BY <2>1, <2>2
<1>9. \A n \in Open : LineOf(n) \in inService /\ Level(irq) < LineOf(n) /\ n < top
  BY <1>0, <1>1, <1>6, LineNumbers DEF AckInv, Open
<1>10. ASSUME NEW i \in inService', i < 8 PROVE \E n \in Open' : i = LineOf(n)'
  <2>1. CASE i \in inService
    BY <1>7, <1>8, <1>10, <2>1 DEF AckInv
  <2>2. CASE i = Level(irq)
    BY <1>7, <1>8, <2>2
  <2>3. irq \in Int
    BY LineNumbers
  <2>4. QED BY <1>1, <1>10, <2>1, <2>2, <2>3
<1>11. \A n \in Open' : LineOf(n)' \in inService'
  BY <1>1, <1>7, <1>8, <1>9
<1>12. ASSUME NEW m \in Open', NEW n \in Open', m < n PROVE LineOf(n)' < LineOf(m)'
  <2>1. CASE m \in Open /\ n \in Open
    BY <1>8, <1>12, <2>1 DEF AckInv
  <2>2. CASE m \in Open /\ n = top
    BY <1>8, <1>9, <2>2
  <2>3. CASE m = top
    <3>1. n = top \/ n < top
      BY <1>7, <1>9
    <3>2. top \in Int /\ n \in Int
      BY <1>6, <1>7 DEF Open
    <3>3. QED BY <1>12, <2>3, <3>1, <3>2
  <2>4. QED BY <1>7, <2>1, <2>2, <2>3
<1>13. QED BY <1>10, <1>11, <1>12 DEF AckInv

(* The command ends the handler's own line: every handler below it has a     *)
(* line of lower priority, and those above it have ended theirs.             *)
LEMMA AcknowledgeAck ==
  ASSUME TypeOK, AckInv, Acknowledge
  PROVE  AckInv'
<1> DEFINE top == Len(frames)
           mine == LineOf(top)
           first == {i \in inService : i < 8}
<1>1. frames # <<>> /\ Running.at = "ack" /\ Advance("return")
      /\ inService' = Acknowledged(Running.irq, inService)
  BY DEF Acknowledge
<1>2. top \in Nat \ {0}
  BY <1>1, TopFrame
<1>3. /\ Len(frames') = top
      /\ frames'[top] = [irq |-> Running.irq, at |-> "return"]
      /\ \A n \in 1 .. top - 1 : frames'[n] = frames[n]
  BY <1>1, AdvanceType
<1>4. top \in Open
  BY <1>1, <1>2 DEF Open, Running
<1>5. Open' = Open \ {top}
  <2>1. \A n \in 1 .. top : n \in Open' <=> (n \in Open /\ n # top)
    BY <1>2, <1>3 DEF Open
  <2>2. Open \subseteq 1 .. top /\ Open' \subseteq 1 .. top
    BY <1>3 DEF Open
  <2>3. QED BY <2>1, <2>2
<1>6. \A n \in Open' : LineOf(n)' = LineOf(n) /\ n < top
  BY <1>2, <1>3, <1>5 DEF Open, LineOf
<1>7. mine \in first /\ \A i \in first : mine <= i
  <2>1. mine \in first
    BY <1>4, LineNumbers DEF AckInv, Open
  <2>2. ASSUME NEW i \in first PROVE mine <= i
    <3>1. PICK n \in Open : i = LineOf(n)
      BY DEF AckInv
    <3>2. n = top \/ n < top
      BY <1>2 DEF Open
    <3>3. CASE n < top
      BY <1>4, <3>1, <3>3, LineNumbers DEF AckInv, Open
    <3>4. QED BY <2>1, <3>1, <3>2, <3>3, LineNumbers
  <2>3. QED BY <2>1, <2>2
<1>8. EndOf(first) = {mine}
  <2>1. first \subseteq Int
    BY LineNumbers
  <2>2. QED BY <1>7, <2>1 DEF EndOf
<1>9. \A i \in 0 .. 7 : i \in inService' <=> (i \in inService /\ i # mine)
  <2>1. inService' \subseteq inService
    BY <1>1 DEF Acknowledged
  <2>2. \A i \in 0 .. 7 : i \in inService' <=> i \in first \ EndOf(first)
    BY <1>1 DEF Acknowledged
  <2>3. QED BY <1>8, <2>2
<1> HIDE DEF mine
<1>10. ASSUME NEW i \in inService', i < 8 PROVE \E n \in Open' : i = LineOf(n)'
  <2>1. i \in inService
    BY <1>1, <1>10 DEF Acknowledged
  <2>2. i \in 0 .. 7
    BY <1>10, <2>1, LineNumbers
  <2>3. PICK n \in Open : i = LineOf(n)
    BY <1>10, <2>1 DEF AckInv
  <2>4. n # top
    BY <1>9, <1>10, <2>2, <2>3 DEF mine
  <2>5. QED BY <1>5, <1>6, <2>3, <2>4
<1>11. ASSUME NEW n \in Open' PROVE LineOf(n)' \in inService'
  <2>1. n \in Open /\ n < top
    BY <1>5, <1>6
  <2>2. LineOf(n) \in inService /\ LineOf(n) \in 0 .. 7 /\ mine < LineOf(n) /\ mine \in 0 .. 7
    BY <1>4, <2>1, LineNumbers DEF AckInv, mine, Open
  <2>3. QED BY <1>6, <1>9, <2>2
<1>12. \A m, n \in Open' : m < n => LineOf(n)' < LineOf(m)'
  BY <1>5, <1>6 DEF AckInv
<1>13. QED BY <1>10, <1>11, <1>12 DEF AckInv

LEMMA ReturnAck ==
  ASSUME TypeOK, AckInv, InterruptReturn
  PROVE  AckInv'
<1>1. frames # <<>> /\ Running.at = "return" /\ UNCHANGED inService
      /\ frames' = SubSeq(frames, 1, Len(frames) - 1)
  BY DEF InterruptReturn
<1>2. frames \in Seq([irq : Lines, at : {"handler", "ack", "return"}])
  BY DEF TypeOK
<1>3. Len(frames) \in Nat \ {0}
  BY <1>1, TopFrame
<1>4. /\ Len(frames') = Len(frames) - 1
      /\ \A n \in 1 .. Len(frames) - 1 : frames'[n] = frames[n]
  BY <1>1, <1>2, PopType
<1>5. \A n \in 1 .. Len(frames) : n \in Open' <=> n \in Open
  BY <1>1, <1>3, <1>4 DEF Open, Running
<1>6. Open' = Open
  <2>1. Open \subseteq 1 .. Len(frames) /\ Open' \subseteq 1 .. Len(frames)
    BY <1>3, <1>4 DEF Open
  <2>2. QED BY <1>5, <2>1
<1>7. \A n \in Open : LineOf(n)' = LineOf(n)
  <2>1. \A n \in Open : n \in 1 .. Len(frames) - 1
    BY <1>4, <1>6 DEF Open
  <2>2. QED BY <1>4, <2>1 DEF LineOf
<1>8. QED BY <1>1, <1>6, <1>7 DEF AckInv

LEMMA NextAck == TypeOK /\ AckInv /\ [Next]_vars => AckInv'
<1> SUFFICES ASSUME TypeOK, AckInv, [Next]_vars PROVE AckInv'
  OBVIOUS
<1>1. ASSUME NEW key \in Keys, NEW down \in BOOLEAN, UserKey(key, down) PROVE AckInv'
  BY <1>1, AckKept DEF UserKey
<1>2. ASSUME NEW irq \in Lines, Interrupt(irq) PROVE AckInv'
  BY <1>2, InterruptAck
<1>3. CASE timer_handler
  <2>1. frames # <<>> /\ Running.at = "handler"
    BY <1>3 DEF timer_handler, OnTop
  <2>2. QED BY <1>3, <2>1, AckAdvance DEF timer_handler
<1>4. CASE keyboard_handler
  <2>1. frames # <<>> /\ Running.at = "handler"
    BY <1>4 DEF keyboard_handler, OnTop
  <2>2. QED BY <1>4, <2>1, AckAdvance DEF keyboard_handler
<1>5. ASSUME NEW irq \in SlaveLines, NoHandler(irq) PROVE AckInv'
  <2>1. frames # <<>> /\ Running.at = "handler"
    BY <1>5 DEF NoHandler, OnTop
  <2>2. QED BY <1>5, <2>1, AckAdvance DEF NoHandler
<1>6. CASE Acknowledge
  BY <1>6, AcknowledgeAck
<1>7. CASE InterruptReturn
  BY <1>7, ReturnAck
<1>8. CASE MainStep
  <2>1. UNCHANGED <<frames, inService>>
    BY <1>8 DEF MainStep, wait_for_keypress, Poll, TakeKey, ProgramSleep, interrupt_panic,
                sleep, Awake, Drowse, Halt, MainOnly
  <2>2. QED BY <2>1, AckKept
<1>9. CASE UNCHANGED vars
  BY <1>9, AckKept DEF vars
<1>10. QED
  BY <1>1, <1>2, <1>3, <1>4, <1>5, <1>6, <1>7, <1>8, <1>9 DEF Next, HandlerStep

(* However deep the handlers nest, none leaves a line of the first           *)
(* controller in service behind.                                             *)
THEOREM FirstControllerIsAcknowledged == Spec => []FirstControllerAcknowledged
<1>1. Init => AckInv
  <2>1. Init => frames = <<>> /\ inService = {} /\ Len(frames) = 0
    BY EmptySeq DEF Init
  <2>2. frames = <<>> /\ inService = {} /\ Len(frames) = 0 => Open = {}
    BY DEF Open
  <2>3. QED BY <2>1, <2>2 DEF AckInv
<1>2. TypeOK /\ AckInv /\ [Next]_vars => (TypeOK /\ AckInv)'
  BY NextType, NextAck
<1>3. ASSUME TypeOK, AckInv PROVE FirstControllerAcknowledged
  <2>1. SUFFICES ASSUME frames = <<>> PROVE inService \subseteq SlaveLines
    BY DEF FirstControllerAcknowledged, Main
  <2>2. Open = {}
    BY <2>1, EmptySeq DEF Open
  <2>3. \A i \in inService : ~ (i < 8)
    BY <1>3, <2>2 DEF AckInv
  <2>4. inService \subseteq {0, 1, 2} \cup SlaveLines
    BY <1>3 DEF TypeOK, Lines
  <2>5. QED BY <2>3, <2>4
<1>4. QED BY InitType, <1>1, <1>2, <1>3, PTL DEF Spec
-----------------------------------------------------------------------------
(* Lines.  What a read has made of its line stands at the places `at' of it, *)
(* and after each of these more was typed than erased, by as many as are     *)
(* behind it: the next backspace takes back the last one, and no other.      *)
Symbols == {CharOf(c) : c \in Chars \cup {NoChar}}

Stands(at, out, keys) ==
  /\ at \in [1 .. Len(out) -> Survivors(keys)]
  /\ Survivors(keys) = {at[n] : n \in 1 .. Len(out)}
  /\ \A m, n \in 1 .. Len(out) : m < n => at[m] < at[n]
  /\ \A n \in 1 .. Len(out) : out[n] = keys[at[n]]
  /\ \A n \in 1 .. Len(out) :
       Typing(keys, at[n] + 1, Len(keys)) = Erasing(keys, at[n] + 1, Len(keys)) + (Len(out) - n)

LineInv ==
  /\ reader \in [kind : [shell : BOOLEAN, line : BOOLEAN, echo : BOOLEAN], size : Nat,
                 out : Seq(Symbols), done : BOOLEAN]
  /\ line \in Seq(Symbols)
  /\ Waiting => ~ reader.done
  /\ reader.kind.shell => reader.kind.line
  /\ reader.kind.shell /\ ~ reader.done => \A n \in 1 .. Len(line) : line[n] # LF
  /\ reader.kind.line /\ ~ reader.done => \E at : Stands(at, reader.out, line)
  /\ LineIsEdited

(* How often a key stands between two places of a line that a key is *)
(* added to.                                                                 *)
LEMMA CountsAreNatural ==
  ASSUME NEW keys, NEW from \in Int, NEW to \in Int
  PROVE  /\ IsFiniteSet({k \in from .. to : keys[k] = BS})
         /\ IsFiniteSet({k \in from .. to : keys[k] # BS})
         /\ Erasing(keys, from, to) \in Nat /\ Typing(keys, from, to) \in Nat
<1>1. IsFiniteSet(from .. to)
  BY FS_Interval
<1>2. /\ {k \in from .. to : keys[k] = BS} \in SUBSET (from .. to)
      /\ {k \in from .. to : keys[k] # BS} \in SUBSET (from .. to)
  OBVIOUS
<1>3. /\ IsFiniteSet({k \in from .. to : keys[k] = BS})
      /\ IsFiniteSet({k \in from .. to : keys[k] # BS})
  BY <1>1, <1>2, FS_Subset
<1>4. QED BY <1>3, FS_CardinalityType DEF Erasing, Typing

LEMMA CountsOfAppended ==
  ASSUME NEW S, NEW keys \in Seq(S), NEW c \in S, NEW from \in Nat \ {0}
  PROVE  /\ \A to \in 0 .. Len(keys) :
              /\ Erasing(Append(keys, c), from, to) = Erasing(keys, from, to)
              /\ Typing(Append(keys, c), from, to) = Typing(keys, from, to)
         /\ from <= Len(keys) + 1 =>
              /\ Erasing(Append(keys, c), from, Len(keys) + 1) =
                 Erasing(keys, from, Len(keys)) + (IF c = BS THEN 1 ELSE 0)
              /\ Typing(Append(keys, c), from, Len(keys) + 1) =
                 Typing(keys, from, Len(keys)) + (IF c = BS THEN 0 ELSE 1)
<1> DEFINE more == Append(keys, c)
           n == Len(keys)
           Backs(s, to) == {k \in from .. to : s[k] = BS}
           Plain(s, to) == {k \in from .. to : s[k] # BS}
<1>1. /\ n \in Nat /\ \A k \in 1 .. n : more[k] = keys[k]
      /\ more[n + 1] = c
  BY AppendProperties, LenProperties
<1>2. from \in Int /\ n \in Int
  BY <1>1
<1>3. /\ IsFiniteSet(Backs(keys, n)) /\ IsFiniteSet(Plain(keys, n))
      /\ Erasing(keys, from, n) \in Nat /\ Typing(keys, from, n) \in Nat
  BY <1>2, CountsAreNatural
<1> HIDE DEF more, n
<1>4. ASSUME NEW s, NEW to
      PROVE  /\ Erasing(s, from, to) = Cardinality(Backs(s, to))
             /\ Typing(s, from, to) = Cardinality(Plain(s, to))
  BY DEF Erasing, Typing
<1>5. ASSUME NEW to \in 0 .. n
      PROVE  Backs(more, to) = Backs(keys, to) /\ Plain(more, to) = Plain(keys, to)
  BY <1>1
<1>6. n + 1 \notin Backs(keys, n) /\ n + 1 \notin Plain(keys, n)
  BY <1>1
<1>7. from <= n + 1 /\ c = BS =>
        Backs(more, n + 1) = Backs(keys, n) \cup {n + 1} /\ Plain(more, n + 1) = Plain(keys, n)
  BY <1>1
<1>8. from <= n + 1 /\ c # BS =>
        Backs(more, n + 1) = Backs(keys, n) /\ Plain(more, n + 1) = Plain(keys, n) \cup {n + 1}
  BY <1>1
<1> HIDE DEF Backs, Plain
<1>9. /\ Cardinality(Backs(keys, n) \cup {n + 1}) = Cardinality(Backs(keys, n)) + 1
      /\ Cardinality(Plain(keys, n) \cup {n + 1}) = Cardinality(Plain(keys, n)) + 1
  BY <1>3, <1>6, FS_AddElement
<1>10. \A to \in 0 .. n : /\ Erasing(more, from, to) = Erasing(keys, from, to)
                          /\ Typing(more, from, to) = Typing(keys, from, to)
  BY <1>4, <1>5
<1>11. ASSUME from <= n + 1
       PROVE  /\ Erasing(more, from, n + 1) =
                 Erasing(keys, from, n) + (IF c = BS THEN 1 ELSE 0)
              /\ Typing(more, from, n + 1) =
                 Typing(keys, from, n) + (IF c = BS THEN 0 ELSE 1)
  <2>1. /\ Erasing(more, from, n + 1) = Cardinality(Backs(more, n + 1))
        /\ Typing(more, from, n + 1) = Cardinality(Plain(more, n + 1))
        /\ Erasing(keys, from, n) = Cardinality(Backs(keys, n))
        /\ Typing(keys, from, n) = Cardinality(Plain(keys, n))
    BY <1>4
  <2>2. CASE c = BS
    <3>1. Backs(more, n + 1) = Backs(keys, n) \cup {n + 1} /\ Plain(more, n + 1) = Plain(keys, n)
      BY <1>7, <1>11, <2>2
    <3>2. /\ Erasing(more, from, n + 1) = Erasing(keys, from, n) + 1
          /\ Typing(more, from, n + 1) = Typing(keys, from, n)
      BY <1>9, <2>1, <3>1
    <3>3. QED BY <1>3, <2>2, <3>2
  <2>3. CASE c # BS
    <3>1. Backs(more, n + 1) = Backs(keys, n) /\ Plain(more, n + 1) = Plain(keys, n) \cup {n + 1}
      BY <1>8, <1>11, <2>3
    <3>2. /\ Erasing(more, from, n + 1) = Erasing(keys, from, n)
          /\ Typing(more, from, n + 1) = Typing(keys, from, n) + 1
      BY <1>9, <2>1, <3>1
    <3>3. QED BY <1>3, <2>3, <3>2
  <2>4. QED BY <2>2, <2>3
<1>12. QED BY <1>10, <1>11 DEF more, n

(* Whether a key of a line survives the next one.                          *)
LEMMA SurvivesNext ==
  ASSUME NEW S, NEW keys \in Seq(S), NEW c \in S, NEW i \in 1 .. Len(keys)
  PROVE  Survives(Append(keys, c), i) <=>
           /\ Survives(keys, i)
           /\ Erasing(Append(keys, c), i + 1, Len(keys) + 1) <=
              Typing(Append(keys, c), i + 1, Len(keys) + 1)
<1> DEFINE more == Append(keys, c)
           n == Len(keys)
<1>1. n \in Nat /\ Len(more) = n + 1 /\ more[i] = keys[i] /\ i \in 1 .. n
  BY AppendProperties, LenProperties
<1>2. i + 1 \in Nat \ {0}
  BY <1>1
<1>3. \A to \in 0 .. n : /\ Erasing(more, i + 1, to) = Erasing(keys, i + 1, to)
                         /\ Typing(more, i + 1, to) = Typing(keys, i + 1, to)
  BY <1>2, CountsOfAppended
<1> HIDE DEF more, n
<1>4. \A j \in i + 1 .. n + 1 : j = n + 1 \/ j \in i + 1 .. n
  BY <1>1
<1>5. n + 1 \in i + 1 .. n + 1 /\ \A j \in i + 1 .. n : j \in 0 .. n /\ j \in i + 1 .. n + 1
  BY <1>1
<1>6. Survives(more, i) <=>
        Survives(keys, i) /\ Erasing(more, i + 1, n + 1) <= Typing(more, i + 1, n + 1)
  BY <1>1, <1>3, <1>4, <1>5 DEF Survives, n
<1>7. QED BY <1>6 DEF more, n

(* A key that is no backspace stays, and takes none back.                  *)
LEMMA SurvivorsOfTyped ==
  ASSUME NEW S, NEW keys \in Seq(S), NEW c \in S, c # BS
  PROVE  Survivors(Append(keys, c)) = Survivors(keys) \cup {Len(keys) + 1}
<1> DEFINE more == Append(keys, c)
           n == Len(keys)
<1>1. n \in Nat /\ Len(more) = n + 1 /\ more[n + 1] = c
  BY AppendProperties, LenProperties
<1>2. ASSUME NEW i \in 1 .. n PROVE Survives(more, i) <=> Survives(keys, i)
  <2>1. /\ i + 1 \in Nat \ {0} /\ i + 1 <= n + 1 /\ i + 1 \in Int /\ n \in Int
        /\ i = n \/ n \in i + 1 .. n
    BY <1>1
  <2>2. /\ Erasing(more, i + 1, n + 1) = Erasing(keys, i + 1, n) + 0
        /\ Typing(more, i + 1, n + 1) = Typing(keys, i + 1, n) + 1
    BY <2>1, CountsOfAppended
  <2>3. Erasing(keys, i + 1, n) \in Nat /\ Typing(keys, i + 1, n) \in Nat
    BY <2>1, CountsAreNatural
  <2>4. Survives(keys, i) => Erasing(keys, i + 1, n) <= Typing(keys, i + 1, n)
    <3>1. CASE i = n
      <4>1. (i + 1) .. n = {}
        BY <1>1, <3>1
      <4>2. Erasing(keys, i + 1, n) = 0 /\ Typing(keys, i + 1, n) = 0
        BY <4>1, FS_EmptySet DEF Erasing, Typing
      <4>3. QED BY <4>2
    <3>2. CASE n \in i + 1 .. n
      BY <3>2 DEF Survives
    <3>3. QED BY <2>1, <3>1, <3>2
  <2>5. Survives(keys, i) => Erasing(more, i + 1, n + 1) <= Typing(more, i + 1, n + 1)
    BY <2>2, <2>3, <2>4
  <2>6. Survives(more, i) <=>
          Survives(keys, i) /\ Erasing(more, i + 1, n + 1) <= Typing(more, i + 1, n + 1)
    BY SurvivesNext
  <2>7. QED BY <2>5, <2>6
<1>3. Survives(more, n + 1)
  <2>1. (n + 1) + 1 .. Len(more) = {}
    BY <1>1
  <2>2. QED BY <1>1, <2>1 DEF Survives
<1> HIDE DEF more, n
<1>4. Survivors(more) = Survivors(keys) \cup {n + 1}
  <2>1. \A i : i \in 1 .. n + 1 <=> i \in 1 .. n \/ i = n + 1
    BY <1>1
  <2>2. \A i : i \in 1 .. Len(more) <=> i \in 1 .. n + 1
    BY <1>1
  <2>3. QED BY <1>2, <1>3, <2>1, <2>2 DEF Survivors, n
<1>5. QED BY <1>4 DEF more, n

(* A backspace takes back a key after which as many were erased as typed.  *)
LEMMA SurvivorsOfErased ==
  ASSUME NEW S, NEW keys \in Seq(S), NEW c \in S, c = BS
  PROVE  Survivors(Append(keys, c)) =
         {i \in Survivors(keys) :
            Erasing(keys, i + 1, Len(keys)) < Typing(keys, i + 1, Len(keys))}
<1> DEFINE more == Append(keys, c)
           n == Len(keys)
           Left(i) == Erasing(keys, i + 1, n) < Typing(keys, i + 1, n)
<1>1. n \in Nat /\ Len(more) = n + 1 /\ more[n + 1] = c
  BY AppendProperties, LenProperties
<1>2. ASSUME NEW i \in 1 .. n PROVE Survives(more, i) <=> Survives(keys, i) /\ Left(i)
  <2>1. i + 1 \in Nat \ {0} /\ i + 1 <= n + 1 /\ i + 1 \in Int /\ n \in Int
    BY <1>1
  <2>2. /\ Erasing(more, i + 1, n + 1) = Erasing(keys, i + 1, n) + 1
        /\ Typing(more, i + 1, n + 1) = Typing(keys, i + 1, n) + 0
    BY <2>1, CountsOfAppended
  <2>3. Erasing(keys, i + 1, n) \in Nat /\ Typing(keys, i + 1, n) \in Nat
    BY <2>1, CountsAreNatural
  <2>4. Left(i) <=> Erasing(more, i + 1, n + 1) <= Typing(more, i + 1, n + 1)
    BY <2>2, <2>3
  <2>5. Survives(more, i) <=>
          Survives(keys, i) /\ Erasing(more, i + 1, n + 1) <= Typing(more, i + 1, n + 1)
    BY SurvivesNext
  <2>6. QED BY <2>4, <2>5
<1>3. ~ Survives(more, n + 1)
  BY <1>1 DEF Survives
<1> HIDE DEF more, n, Left
<1>4. Survivors(more) = {i \in Survivors(keys) : Left(i)}
  <2>1. \A i : i \in 1 .. n + 1 <=> i \in 1 .. n \/ i = n + 1
    BY <1>1
  <2>2. \A i : i \in 1 .. Len(more) <=> i \in 1 .. n + 1
    BY <1>1
  <2>3. QED BY <1>2, <1>3, <2>1, <2>2 DEF Survivors, n
<1>5. QED BY <1>4 DEF more, n, Left

(* A key that is no backspace is put behind what there is.                 *)
LEMMA StandsTyped ==
  ASSUME NEW S, NEW keys \in Seq(S), NEW out \in Seq(S), NEW c \in S, c # BS,
         NEW at, Stands(at, out, keys)
  PROVE  \E to : Stands(to, Append(out, c), Append(keys, c))
<1> DEFINE more == Append(keys, c)
           longer == Append(out, c)
           n == Len(keys)
           k == Len(out)
           to == [i \in 1 .. k + 1 |-> IF i = k + 1 THEN n + 1 ELSE at[i]]
<1>1. /\ n \in Nat /\ Len(more) = n + 1 /\ more[n + 1] = c
      /\ \A i \in 1 .. n : more[i] = keys[i]
  BY AppendProperties, LenProperties
<1>2. /\ k \in Nat /\ Len(longer) = k + 1 /\ longer[k + 1] = c
      /\ \A i \in 1 .. k : longer[i] = out[i]
  BY AppendProperties, LenProperties
<1>3. Survivors(more) = Survivors(keys) \cup {n + 1}
  BY SurvivorsOfTyped
<1>4. Survivors(keys) \subseteq 1 .. n
  BY DEF Survivors
<1>5. /\ at \in [1 .. k -> Survivors(keys)]
      /\ Survivors(keys) = {at[i] : i \in 1 .. k}
      /\ \A i, j \in 1 .. k : i < j => at[i] < at[j]
      /\ \A i \in 1 .. k : out[i] = keys[at[i]]
      /\ \A i \in 1 .. k : Typing(keys, at[i] + 1, n) = Erasing(keys, at[i] + 1, n) + (k - i)
  BY DEF Stands
<1>6. \A i \in 1 .. k : at[i] \in 1 .. n
  BY <1>4, <1>5
<1>7. to \in [1 .. k + 1 -> Survivors(keys) \cup {n + 1}]
  BY <1>2, <1>5
<1>8. to[k + 1] = n + 1 /\ \A i \in 1 .. k : to[i] = at[i]
  BY <1>2
<1>9. \A i \in 1 .. k + 1 : i = k + 1 \/ i \in 1 .. k
  BY <1>2
<1>10. \A i \in 1 .. k : i \in 1 .. k + 1 /\ k + 1 \in 1 .. k + 1
  BY <1>2
<1> HIDE DEF more, longer, to, n, k
<1>11. {to[i] : i \in 1 .. k + 1} = Survivors(keys) \cup {n + 1}
  <2>1. \A p \in {at[i] : i \in 1 .. k} : p \in {to[i] : i \in 1 .. k + 1}
    BY <1>8, <1>10
  <2>2. n + 1 \in {to[i] : i \in 1 .. k + 1}
    BY <1>2, <1>8
  <2>3. QED BY <1>5, <1>7, <2>1, <2>2
<1>12. ASSUME NEW i \in 1 .. k + 1, NEW j \in 1 .. k + 1, i < j PROVE to[i] < to[j]
  <2>1. i \in 1 .. k
    BY <1>2, <1>12
  <2>2. to[i] = at[i] /\ at[i] \in 1 .. n
    BY <1>6, <1>8, <2>1
  <2>3. CASE j = k + 1
    BY <1>1, <1>8, <2>2, <2>3
  <2>4. CASE j \in 1 .. k
    <3>1. to[j] = at[j] /\ at[i] < at[j]
      BY <1>5, <1>8, <1>12, <2>1, <2>4
    <3>2. QED BY <2>2, <3>1
  <2>5. QED BY <1>9, <2>3, <2>4
<1>13. \A i \in 1 .. k + 1 : longer[i] = more[to[i]]
  BY <1>1, <1>2, <1>5, <1>6, <1>8, <1>9
<1>14. ASSUME NEW i \in 1 .. k + 1
       PROVE  Typing(more, to[i] + 1, n + 1) = Erasing(more, to[i] + 1, n + 1) + ((k + 1) - i)
  <2>1. CASE i = k + 1
    <3>1. (to[i] + 1) .. (n + 1) = {}
      BY <1>1, <1>8, <2>1
    <3>2. Typing(more, to[i] + 1, n + 1) = 0 /\ Erasing(more, to[i] + 1, n + 1) = 0
      BY <3>1, FS_EmptySet DEF Erasing, Typing
    <3>3. (k + 1) - i = 0
      BY <1>2, <2>1
    <3>4. QED BY <3>2, <3>3
  <2>2. CASE i \in 1 .. k
    <3> DEFINE p == at[i] + 1
    <3>1. /\ p \in Nat \ {0} /\ p <= n + 1 /\ p \in Int /\ n \in Int /\ to[i] + 1 = p
      BY <1>1, <1>6, <1>8, <2>2
    <3>2. Typing(keys, p, n) = Erasing(keys, p, n) + (k - i)
      BY <1>5, <2>2
    <3> HIDE DEF p
    <3>3. Typing(keys, p, n) \in Nat /\ Erasing(keys, p, n) \in Nat
      BY <3>1, CountsAreNatural
    <3>4. Erasing(more, p, n + 1) = Erasing(keys, p, n) + 0 /\ Typing(more, p, n + 1) = Typing(keys, p, n) + 1
      BY <3>1, CountsOfAppended DEF more, n
    <3>5. Typing(more, p, n + 1) = Erasing(more, p, n + 1) + ((k + 1) - i)
      BY <1>2, <2>2, <3>2, <3>3, <3>4
    <3>6. QED BY <3>1, <3>5
  <2>3. QED BY <1>9, <2>1, <2>2
<1>15. Stands(to, longer, more)
  BY <1>1, <1>2, <1>3, <1>7, <1>11, <1>12, <1>13, <1>14 DEF Stands
<1>16. QED BY <1>15 DEF longer, more

(* A backspace takes the last one away, if there is one.                   *)
LEMMA StandsErased ==
  ASSUME NEW S, NEW keys \in Seq(S), NEW out \in Seq(S), NEW c \in S, c = BS,
         NEW at, Stands(at, out, keys),
         NEW less \in Seq(S), Len(less) = (IF Len(out) = 0 THEN 0 ELSE Len(out) - 1),
         \A i \in 1 .. Len(less) : less[i] = out[i]
  PROVE  \E to : Stands(to, less, Append(keys, c))
<1> DEFINE more == Append(keys, c)
           n == Len(keys)
           k == Len(out)
           m == Len(less)
           to == [i \in 1 .. m |-> at[i]]
<1>1. /\ n \in Nat /\ Len(more) = n + 1 /\ \A i \in 1 .. n : more[i] = keys[i]
  BY AppendProperties, LenProperties
<1>2. /\ k \in Nat /\ m \in Nat /\ m = (IF k = 0 THEN 0 ELSE k - 1)
      /\ \A i \in 1 .. m : less[i] = out[i] /\ i \in 1 .. k /\ i < k
  BY LenProperties
<1>3. \A i \in 1 .. k : i \in 1 .. m \/ i = k
  BY <1>2
<1>4. Survivors(more) = {i \in Survivors(keys) : Erasing(keys, i + 1, n) < Typing(keys, i + 1, n)}
  BY SurvivorsOfErased
<1>5. Survivors(keys) \subseteq 1 .. n
  BY DEF Survivors
<1>6. /\ at \in [1 .. k -> Survivors(keys)]
      /\ Survivors(keys) = {at[i] : i \in 1 .. k}
      /\ \A i, j \in 1 .. k : i < j => at[i] < at[j]
      /\ \A i \in 1 .. k : out[i] = keys[at[i]]
      /\ \A i \in 1 .. k : Typing(keys, at[i] + 1, n) = Erasing(keys, at[i] + 1, n) + (k - i)
  BY DEF Stands
<1>7. \A i \in 1 .. k : at[i] \in 1 .. n
  BY <1>5, <1>6
<1>8. \A i \in 1 .. m : to[i] = at[i]
  OBVIOUS
<1> HIDE DEF more, n, k, m
<1>9. ASSUME NEW i \in 1 .. k PROVE at[i] \in Survivors(more) <=> i # k
  <2>1. at[i] \in Survivors(keys) /\ at[i] + 1 \in Int /\ n \in Int
    BY <1>1, <1>6, <1>7
  <2>2. Erasing(keys, at[i] + 1, n) \in Nat /\ Typing(keys, at[i] + 1, n) \in Nat
    BY <2>1, CountsAreNatural
  <2>3. Typing(keys, at[i] + 1, n) = Erasing(keys, at[i] + 1, n) + (k - i)
    BY <1>6
  <2>4. Erasing(keys, at[i] + 1, n) < Typing(keys, at[i] + 1, n) <=> i # k
    BY <1>2, <2>2, <2>3
  <2>5. QED BY <1>4, <2>1, <2>4
<1>10. Survivors(more) = {at[i] : i \in 1 .. m}
  <2>1. ASSUME NEW p \in Survivors(more) PROVE p \in {at[i] : i \in 1 .. m}
    <3>1. PICK i \in 1 .. k : p = at[i]
      BY <1>4, <1>6
    <3>2. i \in 1 .. m
      BY <1>3, <1>9, <3>1
    <3>3. QED BY <3>1, <3>2
  <2>2. ASSUME NEW i \in 1 .. m PROVE at[i] \in Survivors(more)
    <3>1. i \in 1 .. k /\ i # k
      BY <1>2
    <3>2. QED BY <1>9, <3>1
  <2>3. QED BY <2>1, <2>2
<1>11. to \in [1 .. m -> Survivors(more)] /\ {to[i] : i \in 1 .. m} = Survivors(more)
  BY <1>8, <1>10
<1> HIDE DEF to
<1>12. ASSUME NEW i \in 1 .. m, NEW j \in 1 .. m, i < j PROVE to[i] < to[j]
  BY <1>2, <1>6, <1>8, <1>12
<1>13. ASSUME NEW i \in 1 .. m PROVE less[i] = more[to[i]]
  <2>1. less[i] = out[i] /\ i \in 1 .. k /\ to[i] = at[i]
    BY <1>2, <1>8
  <2>2. out[i] = keys[at[i]] /\ at[i] \in 1 .. n
    BY <1>6, <1>7, <2>1
  <2>3. QED BY <1>1, <2>1, <2>2
<1>14. ASSUME NEW i \in 1 .. m
       PROVE  Typing(more, to[i] + 1, n + 1) = Erasing(more, to[i] + 1, n + 1) + (m - i)
  <2> DEFINE p == at[i] + 1
  <2>1. i \in 1 .. k /\ i < k /\ m = k - 1
    BY <1>2
  <2>2. p \in Nat \ {0} /\ p <= n + 1 /\ p \in Int /\ n \in Int /\ to[i] + 1 = p
    BY <1>1, <1>7, <1>8, <2>1
  <2>3. Typing(keys, p, n) = Erasing(keys, p, n) + (k - i)
    BY <1>6, <2>1
  <2> HIDE DEF p
  <2>4. Typing(keys, p, n) \in Nat /\ Erasing(keys, p, n) \in Nat
    BY <2>2, CountsAreNatural
  <2>5. Erasing(more, p, n + 1) = Erasing(keys, p, n) + 1 /\ Typing(more, p, n + 1) = Typing(keys, p, n) + 0
    BY <2>2, CountsOfAppended DEF more, n
  <2>6. Typing(more, p, n + 1) = Erasing(more, p, n + 1) + (m - i)
    BY <1>2, <2>1, <2>3, <2>4, <2>5
  <2>7. QED BY <2>2, <2>6
<1>15. Stands(to, less, more)
  BY <1>1, <1>11, <1>12, <1>13, <1>14 DEF Stands, m
<1>16. QED BY <1>15 DEF more

(* What stands is what the read has to return, before its end.             *)
LEMMA StandingIsTaken ==
  ASSUME NEW out, NEW keys, NEW at, Stands(at, out, keys)
  PROVE  TakenInOrder(out, keys, Survivors(keys))
  BY DEF TakenInOrder, Stands

(* A read that begins has an empty line.                                   *)
LEMMA FreshRead ==
  ASSUME NEW kind \in [shell : BOOLEAN, line : BOOLEAN, echo : BOOLEAN], NEW size \in Nat
  PROVE  /\ NewRead(kind, size).kind = kind /\ NewRead(kind, size).out = <<>>
         /\ NewRead(kind, size) \in [kind : [shell : BOOLEAN, line : BOOLEAN, echo : BOOLEAN],
                                     size : Nat, out : Seq(Symbols), done : BOOLEAN]
         /\ Survivors(<<>>) = {} /\ 1 .. Len(<<>>) = {} /\ <<>> \in Seq(Symbols)
         /\ \E at : Stands(at, <<>>, <<>>)
         /\ TakenInOrder(<<>>, <<>>, {})
<1> DEFINE at == [i \in {} |-> i]
<1>1. Len(<<>>) = 0 /\ 1 .. 0 = {} /\ <<>> \in Seq(Symbols)
  BY EmptySeq
<1>2. Survivors(<<>>) = {}
  BY <1>1 DEF Survivors
<1>3. Stands(at, <<>>, <<>>)
  BY <1>1, <1>2 DEF Stands
<1>4. TakenInOrder(<<>>, <<>>, {})
  BY <1>2, <1>3, StandingIsTaken
<1>5. QED BY <1>1, <1>2, <1>3, <1>4 DEF NewRead

LEMMA InitLine == ConsoleInit => LineInv
<1> SUFFICES ASSUME ConsoleInit PROVE LineInv
  OBVIOUS
<1>1. reader = NewRead(ShellRead, 0) /\ line = <<>> /\ ~ Waiting
  BY DEF ConsoleInit, Init, Waiting
<1>2. ShellRead \in [shell : BOOLEAN, line : BOOLEAN, echo : BOOLEAN] /\ ShellRead.line
  BY DEF ShellRead
<1>3. /\ reader.kind = ShellRead /\ reader.out = <<>>
      /\ reader \in [kind : [shell : BOOLEAN, line : BOOLEAN, echo : BOOLEAN], size : Nat,
                     out : Seq(Symbols), done : BOOLEAN]
      /\ Survivors(line) = {} /\ 1 .. Len(line) = {} /\ line \in Seq(Symbols)
      /\ \E at : Stands(at, reader.out, line)
      /\ TakenInOrder(reader.out, line, {})
  BY <1>1, <1>2, FreshRead
<1>4. LineIsEdited
  BY <1>2, <1>3 DEF LineIsEdited, Returned
<1>5. QED BY <1>1, <1>2, <1>3, <1>4 DEF LineInv

LEMMA NewLine ==
  ASSUME NEW kind \in [shell : BOOLEAN, line : BOOLEAN, echo : BOOLEAN], NEW size \in Nat,
         kind.shell => kind.line, reader' = NewRead(kind, size), line' = <<>>, ~ Waiting'
  PROVE  LineInv'
<1>1. /\ reader'.kind = kind /\ reader'.out = <<>>
      /\ reader' \in [kind : [shell : BOOLEAN, line : BOOLEAN, echo : BOOLEAN], size : Nat,
                      out : Seq(Symbols), done : BOOLEAN]
      /\ Survivors(line') = {} /\ 1 .. Len(line') = {} /\ line' \in Seq(Symbols)
      /\ \E at : Stands(at, reader'.out, line')
      /\ TakenInOrder(reader'.out, line', {})
  BY FreshRead
<1>2. LineIsEdited'
  BY <1>1 DEF LineIsEdited, Returned
<1>3. QED BY <1>1, <1>2 DEF LineInv

LEMMA LineKept ==
  ASSUME LineInv, UNCHANGED <<reader, line>>, Waiting' => Waiting \/ ~ reader.done
  PROVE  LineInv'
<1>1. LineIsEdited'
  BY DEF LineInv, LineIsEdited, Returned
<1>2. QED BY <1>1 DEF LineInv

(* The character of the key a read takes.                                  *)
LEMMA KeyIsSymbol ==
  ASSUME TypeOK
  PROVE  CharOf(simple.char) \in Symbols
  BY DEF TypeOK, Symbols

(* One key of a read: what it makes of the line.                           *)
LEMMA ReadKeyLine ==
  ASSUME TypeOK, LineInv, ReadKey
  PROVE  LineInv'
<1> DEFINE ch == CharOf(simple.char)
           out == reader.out
           more == Append(line, ch)
<1>1. ch \in Symbols
  BY KeyIsSymbol
<1>2. /\ pc = "take" /\ pc' = "run" /\ line' = more
      /\ reader' = IF reader.kind.shell THEN InputKey(reader, ch) ELSE TerminalKey(reader, ch)
  BY DEF ReadKey, TakeKey
<1>3. ~ reader.done /\ ~ Waiting'
  BY <1>2 DEF LineInv, Waiting
<1>4. /\ reader \in [kind : [shell : BOOLEAN, line : BOOLEAN, echo : BOOLEAN], size : Nat,
                     out : Seq(Symbols), done : BOOLEAN]
      /\ line \in Seq(Symbols) /\ out \in Seq(Symbols)
      /\ reader.kind.shell => reader.kind.line
  BY DEF LineInv
<1>5. /\ more \in Seq(Symbols) /\ Len(more) = Len(line) + 1 /\ Len(line) \in Nat
      /\ more[Len(line) + 1] = ch /\ \A n \in 1 .. Len(line) : more[n] = line[n]
  BY <1>1, <1>4, AppendProperties, LenProperties
<1>6. Append(out, ch) \in Seq(Symbols)
  BY <1>1, <1>4, AppendProperties
<1> HIDE DEF ch, more
<1>7. reader.kind.shell /\ ch # LF => \A n \in 1 .. Len(more) : more[n] # LF
  <2>1. \A n \in 1 .. Len(more) : n \in 1 .. Len(line) \/ n = Len(line) + 1
    BY <1>5
  <2>2. QED BY <1>3, <1>5, <2>1 DEF LineInv
(* ... where it is the characters as they come ... *)
<1>8. CASE ~ reader.kind.line
  <2>1. /\ ~ reader.kind.shell
        /\ reader' = [reader EXCEPT !.out = Append(out, ch),
                                    !.done = Full(reader, Append(out, ch)) \/ (reader.kind.line /\ ch = LF)]
    BY <1>2, <1>4, <1>8 DEF TerminalKey
  <2>2. /\ reader'.out = Append(out, ch) /\ reader'.kind = reader.kind
        /\ reader' \in [kind : [shell : BOOLEAN, line : BOOLEAN, echo : BOOLEAN], size : Nat,
                        out : Seq(Symbols), done : BOOLEAN]
    BY <1>4, <1>6, <2>1 DEF Full
  <2>3. out = line
    BY <1>8 DEF LineInv, LineIsEdited
  <2>4. LineIsEdited'
    BY <1>2, <1>8, <2>2, <2>3 DEF LineIsEdited, more
  <2>5. QED BY <1>2, <1>3, <1>5, <1>8, <2>1, <2>2, <2>4 DEF LineInv
(* ... the end of a path ... *)
<1>9. CASE reader.kind.line /\ reader.kind.shell /\ ch = LF
  <2>1. reader' = [reader EXCEPT !.done = TRUE]
    BY <1>2, <1>9 DEF InputKey, LF, BS
  <2>2. /\ reader'.out = out /\ reader'.kind = reader.kind /\ reader'.done = TRUE
        /\ reader' \in [kind : [shell : BOOLEAN, line : BOOLEAN, echo : BOOLEAN], size : Nat,
                        out : Seq(Symbols), done : BOOLEAN]
    BY <1>4, <2>1
  <2>3. PICK at : Stands(at, out, line)
    BY <1>3, <1>9 DEF LineInv
  <2>4. LF # BS
    BY DEF LF, BS
  <2>5. Survivors(more) = Survivors(line) \cup {Len(line) + 1}
    BY <1>1, <1>4, <1>9, <2>4, SurvivorsOfTyped DEF more
  <2>6. \A n \in Survivors(line) : n \in 1 .. Len(line)
    BY DEF Survivors
  <2>7. {n \in Survivors(more) : more[n] # LF} = Survivors(line)
    <3>1. \A n \in 1 .. Len(line) : line[n] # LF
      BY <1>3, <1>9 DEF LineInv
    <3>2. \A n \in Survivors(line) : more[n] # LF
      BY <1>5, <2>6, <3>1
    <3>3. more[Len(line) + 1] = LF
      BY <1>5, <1>9
    <3>4. QED BY <2>5, <3>2, <3>3
  <2>8. Returned' = Survivors(line)
    BY <1>2, <1>9, <2>2, <2>7 DEF Returned
  <2>9. \A n \in 1 .. Len(out) : at[n] \in Survivors(line) /\ out[n] = line[at[n]]
    BY <2>3 DEF Stands
  <2>10. \A n \in 1 .. Len(out) : out[n] = more[at[n]]
    BY <1>5, <2>6, <2>9
  <2>11. TakenInOrder(out, more, Survivors(line))
    BY <2>3, <2>10 DEF Stands, TakenInOrder
  <2>12. LineIsEdited'
    BY <1>2, <1>9, <2>2, <2>8, <2>11 DEF LineIsEdited
  <2>13. QED BY <1>2, <1>3, <1>5, <1>9, <2>2, <2>12 DEF LineInv
(* ... and all other keys of a line. *)
<1>10. CASE reader.kind.line /\ ~ (reader.kind.shell /\ ch = LF)
  <2>1. PICK at : Stands(at, out, line)
    BY <1>3, <1>10 DEF LineInv
  <2>2. /\ reader'.kind = reader.kind
        /\ reader' \in [kind : [shell : BOOLEAN, line : BOOLEAN, echo : BOOLEAN], size : Nat,
                        out : Seq(Symbols), done : BOOLEAN]
        /\ \E to : Stands(to, reader'.out, more)
    <3>1. CASE ch = BS
      <4> DEFINE less == IF out = <<>> THEN out ELSE Erased(out)
      <4>1. reader' = [reader EXCEPT !.out = less]
        <5>1. BS # LF
          BY DEF LF, BS
        <5>2. QED BY <1>2, <1>10, <3>1, <5>1 DEF InputKey, TerminalKey
      <4>2. /\ less \in Seq(Symbols) /\ Len(less) = (IF Len(out) = 0 THEN 0 ELSE Len(out) - 1)
            /\ \A n \in 1 .. Len(less) : less[n] = out[n]
        <5>1. CASE out = <<>>
          BY <1>4, <5>1, EmptySeq
        <5>2. CASE out # <<>>
          BY <1>4, <5>2, EmptySeq, LenProperties, PopType DEF Erased
        <5>3. QED BY <5>1, <5>2
      <4> HIDE DEF less
      <4>3. /\ reader'.kind = reader.kind /\ reader'.out = less
            /\ reader' \in [kind : [shell : BOOLEAN, line : BOOLEAN, echo : BOOLEAN], size : Nat,
                            out : Seq(Symbols), done : BOOLEAN]
        BY <1>4, <4>1, <4>2
      <4>4. \E to : Stands(to, less, more)
        BY <1>1, <1>4, <2>1, <3>1, <4>2, StandsErased DEF more
      <4>5. QED BY <4>3, <4>4
    <3>2. CASE ch # BS
      <4>1. \E done \in BOOLEAN : reader' = [reader EXCEPT !.out = Append(out, ch), !.done = done]
        BY <1>2, <1>10, <3>2 DEF InputKey, TerminalKey, Full
      <4>2. /\ reader'.kind = reader.kind /\ reader'.out = Append(out, ch)
            /\ reader' \in [kind : [shell : BOOLEAN, line : BOOLEAN, echo : BOOLEAN], size : Nat,
                            out : Seq(Symbols), done : BOOLEAN]
        BY <1>4, <1>6, <4>1
      <4>3. \E to : Stands(to, Append(out, ch), more)
        BY <1>1, <1>4, <2>1, <3>2, StandsTyped DEF more
      <4>4. QED BY <4>2, <4>3
    <3>3. QED BY <3>1, <3>2
  <2>3. reader'.kind.shell => \A n \in 1 .. Len(line') : line'[n] # LF
    BY <1>2, <1>7, <1>10, <2>2
  <2>4. PICK to : Stands(to, reader'.out, line')
    BY <1>2, <2>2
  <2>5. Returned' = Survivors(line')
    BY <2>3 DEF Returned, Survivors
  <2>6. LineIsEdited'
    BY <1>10, <2>2, <2>4, <2>5, StandingIsTaken DEF LineIsEdited
  <2>7. QED BY <1>2, <1>3, <1>4, <1>5, <1>10, <2>2, <2>3, <2>6 DEF LineInv
<1>11. QED BY <1>8, <1>9, <1>10

(* The keyboard below the console makes its own steps only.                *)
LEMMA ConsoleStep == [ConsoleNext]_allVars => [Next]_vars
<1> SUFFICES ASSUME [ConsoleNext]_allVars PROVE [Next]_vars
  OBVIOUS
<1>1. CASE UNCHANGED allVars
  BY <1>1 DEF allVars
<1>2. CASE main \/ (\E r \in Reads : terminal_read(r.kind, r.size))
           \/ (\E buffer \in Writes : Write(buffer)) \/ (\E packet \in Packets : WritePacket(packet))
  BY <1>2 DEF main, terminal_read, Write, WritePacket, Job
<1>3. CASE Panic
  BY <1>3 DEF Panic, Next, MainStep
<1>4. CASE AskKey
  BY <1>4 DEF AskKey, Next, MainStep
<1>5. CASE ReadKey
  BY <1>5 DEF ReadKey, Next, MainStep
<1>6. CASE /\ \/ \E key \in Keys, down \in BOOLEAN : UserKey(key, down)
              \/ \E irq \in Lines : Interrupt(irq)
              \/ HandlerStep
              \/ Poll \/ Awake \/ Drowse \/ Halt
           /\ UNCHANGED consoleVars
  BY <1>6 DEF Next, MainStep
<1>7. QED BY <1>1, <1>2, <1>3, <1>4, <1>5, <1>6 DEF ConsoleNext

LEMMA NextLine == TypeOK /\ LineInv /\ [ConsoleNext]_allVars => LineInv'
<1> SUFFICES ASSUME TypeOK, LineInv, [ConsoleNext]_allVars PROVE LineInv'
  OBVIOUS
<1>1. CASE main
  <2>1. /\ pc' = "run" /\ reader' = NewRead(ShellRead, PathSize) /\ line' = <<>>
    BY <1>1 DEF main, Job, Idle, vars, mainVars
  <2>2. ShellRead \in [shell : BOOLEAN, line : BOOLEAN, echo : BOOLEAN] /\ ShellRead.line
    BY DEF ShellRead
  <2>3. ~ Waiting' /\ PathSize \in Nat
    BY <2>1, ConsoleAssumption DEF Waiting
  <2>4. QED BY <2>1, <2>2, <2>3, NewLine
<1>2. ASSUME NEW r \in Reads, terminal_read(r.kind, r.size) PROVE LineInv'
  <2>1. /\ pc' = "run" /\ reader' = NewRead(r.kind, r.size) /\ line' = <<>>
    BY <1>2 DEF terminal_read, Job, Idle, vars, mainVars
  <2>2. /\ r.kind \in [shell : BOOLEAN, line : BOOLEAN, echo : BOOLEAN] /\ ~ r.kind.shell
        /\ r.size \in Nat
    BY ConsoleAssumption
  <2>3. ~ Waiting'
    BY <2>1 DEF Waiting
  <2>4. QED BY <2>1, <2>2, <2>3, NewLine
<1>3. ASSUME NEW buffer \in Writes, Write(buffer) PROVE LineInv'
  BY <1>3, LineKept DEF Write, Job, vars, mainVars, Waiting
<1>4. ASSUME NEW packet \in Packets, WritePacket(packet) PROVE LineInv'
  BY <1>4, LineKept DEF WritePacket, Job, vars, mainVars, Waiting
<1>5. CASE Panic
  BY <1>5, LineKept DEF Panic, interrupt_panic, sleep, Waiting
<1>6. CASE AskKey
  BY <1>6, LineKept DEF AskKey, consoleVars
<1>7. CASE ReadKey
  BY <1>7, ReadKeyLine
<1>8. CASE UNCHANGED allVars
  BY <1>8, LineKept DEF allVars, consoleVars, vars, mainVars, Waiting
<1>9. ASSUME UNCHANGED consoleVars,
             \/ \E key \in Keys, down \in BOOLEAN : UserKey(key, down)
             \/ \E irq \in Lines : Interrupt(irq)
             \/ HandlerStep
             \/ Poll \/ Awake \/ Drowse \/ Halt
      PROVE  LineInv'
  <2>1. UNCHANGED <<reader, line>>
    BY <1>9 DEF consoleVars
  <2>2. ASSUME NEW key \in Keys, NEW down \in BOOLEAN, UserKey(key, down) PROVE pc' = pc
    BY <2>2 DEF UserKey, mainVars
  <2>3. ASSUME NEW irq \in Lines, Interrupt(irq) PROVE pc' = pc \/ pc' = "sleep"
    BY <2>3 DEF Interrupt
  <2>4. HandlerStep => pc' = pc
    BY DEF HandlerStep, timer_handler, keyboard_handler, NoHandler, Acknowledge,
                InterruptReturn, mainVars
  <2>5. Poll => pc = "poll"
    BY DEF Poll
  <2>6. Awake \/ Drowse \/ Halt => pc' \in {"off", "run", "drowsy", "halted"}
    BY DEF Awake, Drowse, Halt
  <2>7. Waiting' => Waiting
    BY <1>9, <2>2, <2>3, <2>4, <2>5, <2>6 DEF Waiting
  <2>8. QED BY <2>1, <2>7, LineKept
<1>10. QED
  BY <1>1, <1>2, <1>3, <1>4, <1>5, <1>6, <1>7, <1>8, <1>9 DEF ConsoleNext

(* What a read gives its program is the keys typed, less those taken back by *)
(* backspaces, in their order, for any keys, lengths and kinds of reads and  *)
(* whatever interrupts fall between them.                                    *)
THEOREM LinesAreEdited == ConsoleSpec => []LineIsEdited
<1>1. ConsoleInit => TypeOK /\ LineInv
  BY InitType, InitLine DEF ConsoleInit
<1>2. TypeOK /\ LineInv /\ [ConsoleNext]_allVars => (TypeOK /\ LineInv)'
  BY ConsoleStep, NextType, NextLine
<1>3. LineInv => LineIsEdited
  BY DEF LineInv
<1>4. QED BY <1>1, <1>2, <1>3, PTL DEF ConsoleSpec
-----------------------------------------------------------------------------
(* The screen in reading order.  Division is the prover's own; there is one  *)
(* quotient with a remainder below the divisor.                              *)
LEMMA QuotientAndRemainder ==
  ASSUME NEW n \in Nat, NEW d \in Nat \ {0}
  PROVE  n \div d \in Nat /\ n % d \in 0 .. d - 1 /\ n = d * (n \div d) + (n % d)
OBVIOUS

LEMMA QuotientIsUnique ==
  ASSUME NEW n \in Nat, NEW d \in Nat \ {0}, NEW q \in Int, NEW r \in 0 .. d - 1, n = d * q + r
  PROVE  n \div d = q /\ n % d = r
<1> DEFINE p == n \div d
           s == n % d
<1>1. p \in Nat /\ s \in 0 .. d - 1 /\ n = d * p + s
  BY QuotientAndRemainder
<1> HIDE DEF p, s
<1>2. d * p < d * (q + 1) /\ d * q < d * (p + 1)
  BY <1>1
<1>3. p < q + 1 /\ q < p + 1
  BY <1>1, <1>2
<1>4. p = q
  BY <1>1, <1>3
<1> QED BY <1>1, <1>4 DEF p, s

(* A number of places is a number, and a place's column and row are on the   *)
(* screen.                                                                   *)
LEMMA ReadingPlace ==
  ASSUME NEW n \in 1 .. Width * Height
  PROVE  \E x \in 0 .. Width - 1, y \in 0 .. Height - 1 :
           n - 1 = Width * y + x /\ Reading[n] = <<x, y>>
<1> DEFINE x == (n - 1) % Width
           y == (n - 1) \div Width
<1>1. Width \in Nat \ {0} /\ Height \in Nat \ {0} /\ n - 1 \in Nat /\ n - 1 < Width * Height
  BY ScreenAssumption
<1>2. y \in Nat /\ x \in 0 .. Width - 1 /\ n - 1 = Width * y + x
  BY <1>1, QuotientAndRemainder
<1>3. Reading[n] = <<x, y>>
  BY DEF Reading
<1> HIDE DEF x, y
<1>4. y < Height
  <2>1. Width * y < Width * Height
    BY <1>1, <1>2
  <2>2. QED BY <1>1, <1>2, <2>1
<1>5. y \in 0 .. Height - 1
  BY <1>1, <1>2, <1>4
<1>6. QED BY <1>2, <1>3, <1>5

LEMMA ReadingIsPlace ==
  ASSUME NEW n \in 1 .. Width * Height
  PROVE  Reading[n] \in Places
<1>1. PICK x \in 0 .. Width - 1, y \in 0 .. Height - 1 : Reading[n] = <<x, y>>
  BY ReadingPlace
<1>2. <<x, y>> \in Places
  BY DEF Places, Cols, Rows
<1>3. QED BY <1>1, <1>2, Zenon

LEMMA PlaceOfReading ==
  ASSUME NEW n \in 1 .. Width * Height, NEW x \in 0 .. Width - 1, NEW y \in Int,
         n - 1 = Width * y + x
  PROVE  Reading[n] = <<x, y>>
<1>1. Width \in Nat \ {0} /\ n - 1 \in Nat
  BY ScreenAssumption
<1>2. (n - 1) \div Width = y /\ (n - 1) % Width = x
  BY <1>1, QuotientIsUnique
<1>3. QED BY <1>2 DEF Reading

(* ... no two are the same ... *)
LEMMA ReadingApart ==
  ASSUME NEW m \in 1 .. Width * Height, NEW n \in 1 .. Width * Height, Reading[m] = Reading[n]
  PROVE  m = n
<1>1. PICK x \in 0 .. Width - 1, y \in 0 .. Height - 1 :
        m - 1 = Width * y + x /\ Reading[m] = <<x, y>>
  BY ReadingPlace
<1>2. PICK u \in 0 .. Width - 1, v \in 0 .. Height - 1 :
        n - 1 = Width * v + u /\ Reading[n] = <<u, v>>
  BY ReadingPlace
<1>3. x = u /\ y = v
  <2>1. <<x, y>> = <<u, v>>
    BY <1>1, <1>2, Zenon
  <2>2. QED BY <2>1
<1>4. m - 1 = n - 1
  BY <1>1, <1>2, <1>3, Zenon
<1>5. m \in Int /\ n \in Int
  BY ScreenAssumption
<1>6. QED BY <1>4, <1>5

(* ... and after a place comes the one to the right, or the next row.        *)
LEMMA ReadingNext ==
  ASSUME NEW n \in 1 .. Width * Height, n + 1 \in 1 .. Width * Height,
         NEW x \in 0 .. Width - 1, NEW y \in 0 .. Height - 1, Reading[n] = <<x, y>>
  PROVE  IF x + 1 >= Width
         THEN y + 1 < Height /\ Reading[n + 1] = <<0, y + 1>>
         ELSE Reading[n + 1] = <<x + 1, y>>
<1>1. Width \in Nat \ {0} /\ Height \in Nat \ {0}
  BY ScreenAssumption
<1>2. PICK u \in 0 .. Width - 1, v \in 0 .. Height - 1 :
        n - 1 = Width * v + u /\ Reading[n] = <<u, v>>
  BY ReadingPlace
<1>3. n - 1 = Width * y + x
  BY <1>2
<1>4. CASE x + 1 >= Width
  <2>1. x = Width - 1 /\ (n + 1) - 1 = Width * (y + 1) + 0 /\ 0 \in 0 .. Width - 1 /\ y + 1 \in Int
    BY <1>1, <1>3, <1>4
  <2>2. Reading[n + 1] = <<0, y + 1>>
    BY <2>1, PlaceOfReading
  <2>3. PICK a \in 0 .. Width - 1, b \in 0 .. Height - 1 :
          (n + 1) - 1 = Width * b + a /\ Reading[n + 1] = <<a, b>>
    BY ReadingPlace
  <2>4. y + 1 = b
    BY <2>2, <2>3
  <2>5. QED BY <1>1, <1>4, <2>2, <2>4
<1>5. CASE ~ (x + 1 >= Width)
  <2>1. (n + 1) - 1 = Width * y + (x + 1) /\ x + 1 \in 0 .. Width - 1 /\ y \in Int
    BY <1>1, <1>3, <1>5
  <2>2. QED BY <1>5, <2>1, PlaceOfReading
<1>6. QED BY <1>4, <1>5

(* A screen is its six parts; changing one of them leaves the others.       *)
Parts(valid, x, y, cursor, cell, drawn) ==
  [cells_valid |-> valid, x |-> x, y |-> y, cursor |-> cursor, cell |-> cell, drawn |-> drawn]

(* The screen while a path is typed: `text' in reading order from the first  *)
(* place, nothing behind it, and the place after it to write next.           *)
Drawable(s) ==
  /\ s = Parts(s.cells_valid, s.x, s.y, s.cursor, s.cell, s.drawn)
  /\ s.cell = [p \in Places |-> s.cell[p]]

ShowsText(s, text) ==
  /\ Drawable(s)
  /\ Len(text) < Width * Height
  /\ \A n \in 1 .. Len(text) : s.cell[Reading[n]].ch = text[n]
  /\ \A n \in Len(text) + 1 .. Width * Height : s.cell[Reading[n]].ch \in {NUL, Blank}
  /\ <<s.x, s.y>> = Reading[Len(text) + 1]

At(s, x, y) == [s EXCEPT !.x = x, !.y = y]

LEMMA PartsChanged ==
  ASSUME NEW valid, NEW x, NEW y, NEW cursor, NEW cell, NEW drawn, NEW new,
         NEW s, s = Parts(valid, x, y, cursor, cell, drawn)
  PROVE  /\ s.cells_valid = valid /\ s.x = x /\ s.y = y /\ s.cursor = cursor /\ s.cell = cell
         /\ s.drawn = drawn
         /\ [s EXCEPT !.x = new] = Parts(valid, new, y, cursor, cell, drawn)
         /\ [s EXCEPT !.y = new] = Parts(valid, x, new, cursor, cell, drawn)
         /\ [s EXCEPT !.cursor = new] = Parts(valid, x, y, new, cell, drawn)
         /\ [s EXCEPT !.cell = new] = Parts(valid, x, y, cursor, new, drawn)
         /\ [s EXCEPT !.drawn = new] = Parts(valid, x, y, cursor, cell, new)
  BY DEF Parts

LEMMA PartsDrawable ==
  ASSUME NEW valid, NEW x, NEW y, NEW cursor, NEW cell, NEW drawn,
         cell = [p \in Places |-> cell[p]], NEW s, s = Parts(valid, x, y, cursor, cell, drawn)
  PROVE  Drawable(s) /\ s.x = x /\ s.y = y /\ s.cell = cell
<1>1. /\ s.cells_valid = valid /\ s.x = x /\ s.y = y /\ s.cursor = cursor /\ s.cell = cell
      /\ s.drawn = drawn
  BY PartsChanged
<1>2. QED BY <1>1 DEF Drawable

(* A character that is written on the screen changes its place only.       *)
LEMMA SetChar ==
  ASSUME NEW s, Drawable(s), NEW x, NEW y, <<x, y>> \in Places, NEW c, NEW color
  PROVE  /\ Drawable(set_char(s, x, y, c, color))
         /\ set_char(s, x, y, c, color).cell[<<x, y>>].ch = c
         /\ \A p \in Places : p # <<x, y>> => set_char(s, x, y, c, color).cell[p] = s.cell[p]
<1> DEFINE one == [ch |-> c, color |-> color]
           cells == [s.cell EXCEPT ![<<x, y>>] = one]
           t == [s EXCEPT !.cell = cells]
           drawing == [t.drawn EXCEPT ![<<x, y>>] = Drawing(c, color)]
           b == [t EXCEPT !.drawn = drawing]
<1>1. one.ch = c
  OBVIOUS
<1>2. set_char(s, x, y, c, color) \in {t, b}
  BY DEF set_char, text_set_char, bitmap_set_char
<1>3. s = Parts(s.cells_valid, s.x, s.y, s.cursor, s.cell, s.drawn) /\ s.cell = [p \in Places |-> s.cell[p]]
  BY DEF Drawable
<1> HIDE DEF one
<1>4. /\ cells = [p \in Places |-> cells[p]] /\ cells[<<x, y>>] = one
      /\ \A p \in Places : p # <<x, y>> => cells[p] = s.cell[p]
  BY <1>3
<1> HIDE DEF cells
<1>5. t = Parts(s.cells_valid, s.x, s.y, s.cursor, cells, s.drawn)
  BY <1>3, PartsChanged
<1> HIDE DEF t
<1>6. Drawable(t) /\ t.cell = cells
  BY <1>4, <1>5, PartsDrawable
<1> HIDE DEF drawing
<1>7. b = Parts(s.cells_valid, s.x, s.y, s.cursor, cells, drawing)
  BY <1>5, PartsChanged
<1> HIDE DEF b
<1>8. Drawable(b) /\ b.cell = cells
  BY <1>4, <1>7, PartsDrawable
<1>9. QED BY <1>1, <1>2, <1>4, <1>6, <1>8

(* A place that is set leaves the cells as they are.                       *)
LEMMA CursorMoved ==
  ASSUME NEW s, Drawable(s), NEW x, NEW y
  PROVE  /\ Drawable(set_cursor_position(s, x, y))
         /\ set_cursor_position(s, x, y).cell = s.cell
         /\ set_cursor_position(s, x, y).x = s.x /\ set_cursor_position(s, x, y).y = s.y
<1> DEFINE place == <<x, y>>
           u == [s EXCEPT !.cursor = place]
<1>1. set_cursor_position(s, x, y) \in {s, u}
  BY DEF set_cursor_position
<1>2. s = Parts(s.cells_valid, s.x, s.y, s.cursor, s.cell, s.drawn) /\ s.cell = [p \in Places |-> s.cell[p]]
  BY DEF Drawable
<1> HIDE DEF place
<1>3. u = Parts(s.cells_valid, s.x, s.y, place, s.cell, s.drawn)
  BY <1>2, PartsChanged
<1> HIDE DEF u
<1>4. Drawable(u) /\ u.x = s.x /\ u.y = s.y /\ u.cell = s.cell
  BY <1>2, <1>3, PartsDrawable
<1>5. QED BY <1>1, <1>4

LEMMA PlaceMoved ==
  ASSUME NEW s, Drawable(s), NEW x, NEW y
  PROVE  Drawable(At(s, x, y)) /\ At(s, x, y).cell = s.cell /\ At(s, x, y).x = x /\ At(s, x, y).y = y
<1> DEFINE t == [s EXCEPT !.x = x]
           u == [t EXCEPT !.y = y]
<1>1. At(s, x, y) = u
  BY DEF At
<1>2. s = Parts(s.cells_valid, s.x, s.y, s.cursor, s.cell, s.drawn) /\ s.cell = [p \in Places |-> s.cell[p]]
  BY DEF Drawable
<1>3. t = Parts(s.cells_valid, x, s.y, s.cursor, s.cell, s.drawn)
  BY <1>2, PartsChanged
<1> HIDE DEF t
<1>4. u = Parts(s.cells_valid, x, y, s.cursor, s.cell, s.drawn)
  BY <1>3, PartsChanged
<1> HIDE DEF u
<1>5. Drawable(u) /\ u.x = x /\ u.y = y /\ u.cell = s.cell
  BY <1>2, <1>4, PartsDrawable
<1>6. QED BY <1>1, <1>5

LEMMA WriteChar ==
  ASSUME NEW s, Drawable(s), NEW x \in 0 .. Width - 1, NEW y \in 0 .. Height - 1, NEW c, c # NUL
  PROVE  /\ Drawable(write_char(s, x, y, c))
         /\ write_char(s, x, y, c).x = x /\ write_char(s, x, y, c).y = y
         /\ write_char(s, x, y, c).cell[<<x, y>>].ch = c
         /\ \A p \in Places : p # <<x, y>> => write_char(s, x, y, c).cell[p] = s.cell[p]
<1> DEFINE color == get_char(s, x, y).color
           t == set_char(s, x, y, c, color)
           v == At(t, x, y)
           u == set_cursor_position(v, x, y)
<1>1. /\ Width \in Nat \ {0} /\ Height \in Nat \ {0} /\ ~ (y >= Height) /\ ~ (x >= Width)
      /\ <<x, y>> \in Places
  BY ScreenAssumption DEF Places, Cols, Rows
<1>2. write_char(s, x, y, c) = set_cursor_position(set_displaydata(t, x, y), x, y)
  BY <1>1 DEF write_char, write_char_color
<1> HIDE DEF color
<1>3. Drawable(t) /\ t.cell[<<x, y>>].ch = c /\ \A p \in Places : p # <<x, y>> => t.cell[p] = s.cell[p]
  BY <1>1, SetChar
<1> HIDE DEF t
<1>4. set_displaydata(t, x, y) = v
  BY <1>1 DEF set_displaydata, At
<1>5. Drawable(v) /\ v.cell = t.cell /\ v.x = x /\ v.y = y
  BY <1>3, PlaceMoved
<1> HIDE DEF v
<1>6. Drawable(u) /\ u.cell = v.cell /\ u.x = v.x /\ u.y = v.y
  BY <1>5, CursorMoved
<1>7. write_char(s, x, y, c) = u
  BY <1>2, <1>4
<1> HIDE DEF u
<1>8. QED BY <1>3, <1>5, <1>6, <1>7

(* A character is put behind the text, if there is a place after it.       *)
LEMMA TypedShown ==
  ASSUME NEW S, NEW text \in Seq(S), NEW c \in S, NEW s, ShowsText(s, text),
         c \notin {NUL, LF, BS}, Len(text) + 1 < Width * Height
  PROVE  ShowsText(printf_c(s, c), Append(text, c)) /\ ShowsText(append_char(s, c), Append(text, c))
<1> DEFINE more == Append(text, c)
           n == Len(text)
           N == Width * Height
<1>1. Width \in Nat \ {0} /\ Height \in Nat \ {0} /\ N \in Nat
  BY ScreenAssumption
<1>2. /\ n \in Nat /\ Len(more) = n + 1 /\ more[n + 1] = c
      /\ \A i \in 1 .. n : more[i] = text[i]
  BY AppendProperties, LenProperties
<1> HIDE DEF more, n, N
<1>3. n + 1 < N /\ n + 1 \in 1 .. N /\ (n + 1) + 1 \in 1 .. N
  BY <1>1, <1>2 DEF n, N
<1>4. PICK x \in 0 .. Width - 1, y \in 0 .. Height - 1 : Reading[n + 1] = <<x, y>>
  BY <1>3, ReadingPlace DEF N
<1>5. s.x = x /\ s.y = y /\ Drawable(s)
  BY <1>4 DEF ShowsText, n
<1> DEFINE u == write_char(s, x, y, c)
<1>6. /\ Drawable(u) /\ u.x = x /\ u.y = y /\ u.cell[<<x, y>>].ch = c
      /\ \A p \in Places : p # <<x, y>> => u.cell[p] = s.cell[p]
  BY <1>5, WriteChar
<1> HIDE DEF u
<1> DEFINE x1 == IF x + 1 >= Width THEN 0 ELSE x + 1
           y1 == IF x + 1 >= Width THEN y + 1 ELSE y
           v == At(u, x1, y1)
<1>7. IF x + 1 >= Width THEN y + 1 < Height /\ Reading[(n + 1) + 1] = <<0, y + 1>>
                        ELSE Reading[(n + 1) + 1] = <<x + 1, y>>
  BY <1>3, <1>4, ReadingNext DEF N
<1>8. Reading[(n + 1) + 1] = <<x1, y1>> /\ ~ (y1 >= Height)
  BY <1>1, <1>7
<1>9. inc_displaydata(u) = v
  BY <1>6, <1>8 DEF inc_displaydata, At
<1> HIDE DEF x1, y1
<1>10. Drawable(v) /\ v.cell = u.cell /\ v.x = x1 /\ v.y = y1
  BY <1>6, PlaceMoved
<1> HIDE DEF v
<1> DEFINE w == set_cursor_position(v, v.x, v.y)
<1>11. Drawable(w) /\ w.cell = u.cell /\ w.x = x1 /\ w.y = y1
  BY <1>10, CursorMoved
<1>12. append_char(s, c) = w
  BY <1>5, <1>9 DEF append_char, u
<1> HIDE DEF w
<1>13. ASSUME NEW i \in 1 .. N, i # n + 1 PROVE w.cell[Reading[i]] = s.cell[Reading[i]]
  <2>1. Reading[i] # <<x, y>>
    BY <1>3, <1>4, <1>13, ReadingApart DEF N
  <2>2. Reading[i] \in Places
    BY ReadingIsPlace DEF N
  <2>3. QED BY <1>6, <1>11, <2>1, <2>2
<1>14. ASSUME NEW i \in 1 .. n + 1 PROVE w.cell[Reading[i]].ch = more[i]
  <2>1. CASE i = n + 1
    BY <1>2, <1>4, <1>6, <1>11, <2>1
  <2>2. CASE i # n + 1
    <3>1. i \in 1 .. n /\ i \in 1 .. N
      BY <1>1, <1>2, <1>3, <1>14, <2>2
    <3>2. s.cell[Reading[i]].ch = text[i]
      BY <3>1 DEF ShowsText, n
    <3>3. QED BY <1>2, <1>13, <2>2, <3>1, <3>2
  <2>3. QED BY <2>1, <2>2
<1>15. ASSUME NEW i \in (n + 1) + 1 .. N PROVE w.cell[Reading[i]].ch \in {NUL, Blank}
  <2>1. i \in n + 1 .. N /\ i \in 1 .. N /\ i # n + 1
    BY <1>1, <1>2, <1>15
  <2>2. s.cell[Reading[i]].ch \in {NUL, Blank}
    BY <2>1 DEF ShowsText, n, N
  <2>3. QED BY <1>13, <2>1, <2>2
<1>16. ShowsText(w, more)
  BY <1>2, <1>3, <1>8, <1>11, <1>14, <1>15 DEF ShowsText, N
<1>17. printf_c(s, c) = append_char(s, c)
  BY DEF printf_c
<1>18. QED BY <1>12, <1>16, <1>17 DEF more

(* A backspace clears the last character, also in the row above.           *)
LEMMA ErasedShown ==
  ASSUME NEW S, NEW text \in Seq(S), NEW less \in Seq(S), NEW s, ShowsText(s, text),
         Len(text) = Len(less) + 1, \A i \in 1 .. Len(less) : less[i] = text[i]
  PROVE  ShowsText(printf_c(s, BS), less)
<1> DEFINE n == Len(less)
           N == Width * Height
<1>1. Width \in Nat \ {0} /\ Height \in Nat \ {0} /\ N \in Nat
  BY ScreenAssumption
<1>2. n \in Nat /\ Len(text) = n + 1
  BY LenProperties
<1> HIDE DEF n, N
<1>3. n + 1 < N /\ n + 1 \in 1 .. N /\ (n + 1) + 1 \in 1 .. N
  BY <1>1, <1>2 DEF ShowsText, N
<1>4. PICK x \in 0 .. Width - 1, y \in 0 .. Height - 1 : Reading[n + 1] = <<x, y>>
  BY <1>3, ReadingPlace DEF N
<1>5. Drawable(s) /\ <<s.x, s.y>> = Reading[(n + 1) + 1]
  BY <1>2 DEF ShowsText
<1>6. IF x + 1 >= Width THEN y + 1 < Height /\ Reading[(n + 1) + 1] = <<0, y + 1>>
                        ELSE Reading[(n + 1) + 1] = <<x + 1, y>>
  BY <1>3, <1>4, ReadingNext DEF N
<1>7. /\ x = (IF s.x = 0 THEN Width - 1 ELSE s.x - 1)
      /\ y = (IF s.x = 0 THEN s.y - 1 ELSE s.y)
      /\ ~ (y < 0)
  BY <1>1, <1>5, <1>6
<1> DEFINE v == At(s, x, y)
           u == write_char(v, x, y, Blank)
<1>8. append_backspace(s) = u
  BY <1>7 DEF append_backspace, At
<1>9. Drawable(v) /\ v.cell = s.cell
  BY <1>5, PlaceMoved
<1> HIDE DEF v
<1>10. Blank # NUL
  BY DEF Blank, NUL
<1>11. /\ Drawable(u) /\ u.x = x /\ u.y = y /\ u.cell[<<x, y>>].ch = Blank
       /\ \A p \in Places : p # <<x, y>> => u.cell[p] = v.cell[p]
  BY <1>9, <1>10, WriteChar
<1> HIDE DEF u
<1>12. ASSUME NEW i \in 1 .. N, i # n + 1 PROVE u.cell[Reading[i]] = s.cell[Reading[i]]
  <2>1. Reading[i] # <<x, y>>
    BY <1>3, <1>4, <1>12, ReadingApart DEF N
  <2>2. Reading[i] \in Places
    BY ReadingIsPlace DEF N
  <2>3. QED BY <1>9, <1>11, <2>1, <2>2
<1>13. ASSUME NEW i \in 1 .. n PROVE u.cell[Reading[i]].ch = less[i]
  <2>1. i \in 1 .. n + 1 /\ i \in 1 .. N /\ i # n + 1
    BY <1>1, <1>2, <1>3
  <2>2. s.cell[Reading[i]].ch = text[i]
    BY <1>2, <2>1 DEF ShowsText
  <2>3. QED BY <1>12, <2>1, <2>2 DEF n
<1>14. ASSUME NEW i \in n + 1 .. N PROVE u.cell[Reading[i]].ch \in {NUL, Blank}
  <2>1. CASE i = n + 1
    BY <1>4, <1>11, <2>1
  <2>2. CASE i # n + 1
    <3>1. i \in (n + 1) + 1 .. N /\ i \in 1 .. N
      BY <1>1, <1>2, <1>14, <2>2
    <3>2. s.cell[Reading[i]].ch \in {NUL, Blank}
      BY <1>2, <3>1 DEF ShowsText, N
    <3>3. QED BY <1>12, <2>2, <3>1, <3>2
  <2>3. QED BY <2>1, <2>2
<1>15. ShowsText(u, less)
  BY <1>1, <1>2, <1>3, <1>4, <1>11, <1>13, <1>14 DEF ShowsText, n, N
<1>16. printf_c(s, BS) = append_backspace(s)
  BY DEF printf_c, BS, LF
<1>17. QED BY <1>8, <1>15, <1>16

(* The kernel's prompt on a screen it has cleared.                         *)
LEMMA ClearedShown ==
  ASSUME NEW s
  PROVE  ShowsText(clear_screen(s), <<>>)
<1> DEFINE t == IF s.cells_valid THEN text_clear_screen(s, DefaultColor)
                                 ELSE bitmap_clear_screen(s, DefaultColor)
           v == At(t, 0, 0)
           u == set_cursor_position(v, 0, 0)
           cells == Empty(DefaultColor)
           N == Width * Height
<1>1. Width \in Nat \ {0} /\ Height \in Nat \ {0} /\ N \in Nat \ {0}
  BY ScreenAssumption
<1>2. cells = [p \in Places |-> cells[p]] /\ \A p \in Places : cells[p].ch = NUL
  BY DEF Empty
<1> HIDE DEF cells
<1>3. \E valid, x, y, cursor, drawn : t = Parts(valid, x, y, cursor, cells, drawn)
  BY DEF text_clear_screen, bitmap_clear_screen, Parts, cells
<1> HIDE DEF t
<1>4. Drawable(t) /\ t.cell = cells
  BY <1>2, <1>3, PartsDrawable
<1>5. Drawable(v) /\ v.cell = cells /\ v.x = 0 /\ v.y = 0
  BY <1>4, PlaceMoved
<1>6. clear_screen(s) = u
  BY DEF clear_screen, At, t
<1> HIDE DEF v
<1>7. Drawable(u) /\ u.cell = cells /\ u.x = 0 /\ u.y = 0
  BY <1>5, CursorMoved
<1> HIDE DEF u, N
<1>8. Len(<<>>) = 0 /\ 1 .. 0 = {} /\ 1 \in 1 .. N
  BY <1>1, EmptySeq
<1>9. Reading[1] = <<0, 0>>
  <2>1. 1 - 1 = Width * 0 + 0 /\ 0 \in 0 .. Width - 1 /\ 0 \in Int
    BY <1>1
  <2>2. QED BY <1>8, <2>1, PlaceOfReading DEF N
<1>10. ASSUME NEW i \in 1 .. N PROVE u.cell[Reading[i]].ch \in {NUL, Blank}
  <2>1. Reading[i] \in Places
    BY ReadingIsPlace DEF N
  <2>2. QED BY <1>2, <1>7, <2>1
<1>11. ShowsText(u, <<>>)
  BY <1>1, <1>7, <1>8, <1>9, <1>10 DEF ShowsText, N
<1>12. QED BY <1>6, <1>11

(* print of one character is what it does with that character.             *)
LEMMA PrintOne ==
  ASSUME NEW s, NEW c, c \notin {LF, BS}
  PROVE  print(s, <<c>>) = append_char(s, c)
<1> DEFINE Op(t, k) == CASE k = LF -> append_newline(t)
                         [] k = BS -> append_backspace(t)
                         [] OTHER -> append_char(t, k)
           iter == CHOOSE f : f = [x \in SUBSET (DOMAIN <<c>>) |->
                                     IF x = {} THEN s
                                     ELSE Op(f[x \ {Max(x)}], <<c>>[Max(x)])]
           one == [x \in SUBSET (DOMAIN <<c>>) |-> IF x = {} THEN s ELSE Op(s, c)]
<1>1. print(s, <<c>>) = iter[DOMAIN <<c>>]
  BY DEF print, FoldLeft, MapThenFoldSet
<1>2. DOMAIN <<c>> = {1}
  OBVIOUS
<1>3. Max({1}) = 1
  BY DEF Max
<1> HIDE DEF Op
<1>4. one = [x \in SUBSET (DOMAIN <<c>>) |->
               IF x = {} THEN s ELSE Op(one[x \ {Max(x)}], <<c>>[Max(x)])]
  <2>1. \A x \in SUBSET (DOMAIN <<c>>) : x = {} \/ x = {1}
    BY <1>2
  <2>2. {1} \ {1} = {} /\ {} \in SUBSET (DOMAIN <<c>>) /\ <<c>>[1] = c
    BY <1>2
  <2>3. one[{}] = s
    BY <2>2
  <2>4. ASSUME NEW x \in SUBSET (DOMAIN <<c>>)
        PROVE  (IF x = {} THEN s ELSE Op(s, c)) =
               (IF x = {} THEN s ELSE Op(one[x \ {Max(x)}], <<c>>[Max(x)]))
    <3>1. CASE x = {}
      BY <3>1
    <3>2. CASE x = {1}
      <4>1. x \ {Max(x)} = {} /\ <<c>>[Max(x)] = c
        BY <1>3, <2>2, <3>2
      <4> HIDE DEF one
      <4>2. QED BY <2>3, <4>1
    <3>3. QED BY <2>1, <3>1, <3>2
  <2>5. QED BY <2>4
<1> HIDE DEF one
<1>5. iter = [x \in SUBSET (DOMAIN <<c>>) |->
                IF x = {} THEN s ELSE Op(iter[x \ {Max(x)}], <<c>>[Max(x)])]
  BY <1>4
<1> HIDE DEF iter
<1>6. iter[{1}] = Op(s, c)
  <2>1. {1} \ {1} = {} /\ {} \in SUBSET (DOMAIN <<c>>) /\ {1} \in SUBSET (DOMAIN <<c>>)
        /\ <<c>>[1] = c /\ {1} # {}
    BY <1>2
  <2>2. iter[{}] = s
    BY <1>5, <2>1
  <2>3. iter[{1}] = Op(iter[{1} \ {Max({1})}], <<c>>[Max({1})])
    BY <1>5, <2>1
  <2>4. QED BY <1>3, <2>1, <2>2, <2>3
<1>7. Op(s, c) = append_char(s, c)
  BY DEF Op
<1>8. QED BY <1>1, <1>2, <1>6, <1>7

-----------------------------------------------------------------------------
(* A line that fits has always fitted, and its text is as long as it has     *)
(* keys that survive.                                                        *)
LEMMA PrefixOfAppended ==
  ASSUME NEW S, NEW keys \in Seq(S), NEW c \in S, NEW k \in 0 .. Len(keys)
  PROVE  SubSeq(Append(keys, c), 1, k) = SubSeq(keys, 1, k)
<1> DEFINE more == Append(keys, c)
<1>1. Len(keys) \in Nat /\ \A i \in 1 .. Len(keys) : more[i] = keys[i]
  BY AppendProperties, LenProperties
<1> HIDE DEF more
<1>2. \A i \in 1 .. k : i \in 1 .. Len(keys)
  BY <1>1
<1>3. [i \in 1 .. k |-> more[i]] = [i \in 1 .. k |-> keys[i]]
  BY <1>1, <1>2
<1>4. SubSeq(more, 1, k) = SubSeq(keys, 1, k)
  BY <1>1, <1>2
<1>5. QED BY <1>4 DEF more

LEMMA FitsBefore ==
  ASSUME NEW S, NEW keys \in Seq(S), NEW c \in S, Fits(Append(keys, c))
  PROVE  Fits(keys)
<1>1. Len(keys) \in Nat /\ Len(Append(keys, c)) = Len(keys) + 1
  BY AppendProperties, LenProperties
<1>2. \A k \in 0 .. Len(keys) : k \in 0 .. Len(Append(keys, c))
  BY <1>1
<1>3. \A k \in 0 .. Len(keys) : SubSeq(Append(keys, c), 1, k) = SubSeq(keys, 1, k)
  BY PrefixOfAppended
<1>4. QED BY <1>2, <1>3 DEF Fits

LEMMA FitsNow ==
  ASSUME NEW S, NEW keys \in Seq(S), NEW out \in Seq(S), NEW at, Stands(at, out, keys), Fits(keys)
  PROVE  Len(out) + Len(Prompt) < Width * Height
<1>1. /\ at \in [1 .. Len(out) -> Survivors(keys)]
      /\ Survivors(keys) = {at[n] : n \in 1 .. Len(out)}
      /\ \A m, n \in 1 .. Len(out) : m < n => at[m] < at[n]
  BY DEF Stands
<1>2. Len(out) \in Nat /\ Len(keys) \in Nat /\ keys \in [1 .. Len(keys) -> S]
  BY LenProperties
<1>3. Survivors(keys) \subseteq 1 .. Len(keys)
  BY DEF Survivors
<1>4. \A n \in 1 .. Len(out) : at[n] \in Int
  BY <1>1, <1>3
<1>5. ASSUME NEW m \in 1 .. Len(out), NEW n \in 1 .. Len(out), at[m] = at[n] PROVE m = n
  <2>1. m \in Int /\ n \in Int /\ at[m] \in Int
    BY <1>2, <1>4
  <2>2. ~ (m < n) /\ ~ (n < m)
    BY <1>1, <1>5, <2>1
  <2>3. QED BY <2>1, <2>2
<1>6. at \in Bijection(1 .. Len(out), Survivors(keys))
  BY <1>1, <1>5 DEF Bijection, Injection, Surjection, IsInjective
<1>7. ExistsBijection(1 .. Len(out), Survivors(keys))
  BY <1>6 DEF ExistsBijection
<1>8. IsFiniteSet(1 .. Len(out)) /\ Cardinality(1 .. Len(out)) = Len(out)
  <2>1. 1 \in Int /\ Len(out) \in Int
    BY <1>2
  <2>2. /\ IsFiniteSet(1 .. Len(out))
        /\ Cardinality(1 .. Len(out)) = IF 1 > Len(out) THEN 0 ELSE Len(out) - 1 + 1
    BY <2>1, FS_Interval, Zenon
  <2>3. (IF 1 > Len(out) THEN 0 ELSE Len(out) - 1 + 1) = Len(out)
    BY <1>2
  <2>4. QED BY <2>2, <2>3
<1>9. Cardinality(Survivors(keys)) = Len(out)
  BY <1>7, <1>8, FS_Bijection
<1>10. SubSeq(keys, 1, Len(keys)) = keys
  BY <1>2
<1>11. Len(keys) \in 0 .. Len(keys)
  BY <1>2
<1>12. QED BY <1>9, <1>10, <1>11 DEF Fits

ScreenInv ==
  reader.kind.shell /\ ~ reader.done /\ Fits(line) =>
    /\ ShowsText(term.text, Prompt \o reader.out)
    /\ ShowsText(term.bitmap, Prompt \o reader.out)

(* What the screen shows in reading order, as the property says it.        *)
LEMMA ShownText ==
  ASSUME NEW S, NEW text \in Seq(S), NEW s, ShowsText(s, text)
  PROVE  /\ SubSeq(Shown(s), 1, Len(text)) = text
         /\ \A n \in Len(text) + 1 .. Width * Height : Shown(s)[n] \in {NUL, Blank}
         /\ <<s.x, s.y>> = Reading[Len(text) + 1]
<1>1. Width * Height \in Nat /\ Len(text) \in Nat /\ text \in [1 .. Len(text) -> S]
  BY ScreenAssumption, LenProperties
<1>2. Len(text) < Width * Height
  BY DEF ShowsText
<1>3. \A n \in 1 .. Width * Height : Shown(s)[n] = s.cell[Reading[n]].ch
  BY DEF Shown
<1>4. \A n \in 1 .. Len(text) : n \in 1 .. Width * Height
  BY <1>1, <1>2
<1>5. \A n \in 1 .. Len(text) : Shown(s)[n] = text[n]
  BY <1>3, <1>4 DEF ShowsText
<1>6. SubSeq(Shown(s), 1, Len(text)) = [n \in 1 .. Len(text) |-> Shown(s)[n]]
  BY <1>1
<1>7. text = [n \in 1 .. Len(text) |-> text[n]]
  BY <1>1
<1>8. SubSeq(Shown(s), 1, Len(text)) = text
  BY <1>5, <1>6, <1>7
<1>9. \A n \in Len(text) + 1 .. Width * Height : n \in 1 .. Width * Height
  BY <1>1
<1>10. \A n \in Len(text) + 1 .. Width * Height : Shown(s)[n] \in {NUL, Blank}
  BY <1>3, <1>9 DEF ShowsText
<1>11. QED BY <1>8, <1>10 DEF ShowsText

-----------------------------------------------------------------------------
(* The prompt and the line behind it.                                        *)
Marks == Symbols \cup {">"}

LEMMA PromptText ==
  ASSUME NEW out \in Seq(Symbols)
  PROVE  /\ Prompt \o out \in Seq(Marks) /\ Len(Prompt \o out) = Len(out) + 1
         /\ (Prompt \o out)[1] = ">"
         /\ \A i \in 1 .. Len(out) : (Prompt \o out)[i + 1] = out[i]
<1> DEFINE text == Prompt \o out
<1>1. out \in Seq(Marks) /\ Prompt \in Seq(Marks) /\ Len(Prompt) = 1 /\ Prompt[1] = ">"
  BY DEF Prompt, Marks
<1>2. /\ text \in Seq(Marks) /\ Len(text) = Len(Prompt) + Len(out)
      /\ \A i \in 1 .. Len(Prompt) + Len(out) :
           text[i] = IF i <= Len(Prompt) THEN Prompt[i] ELSE out[i - Len(Prompt)]
  BY <1>1, ConcatProperties
<1>3. Len(out) \in Nat
  BY LenProperties
<1> HIDE DEF text
<1>4. text[1] = ">" /\ Len(text) = Len(out) + 1
  BY <1>1, <1>2, <1>3
<1>5. ASSUME NEW i \in 1 .. Len(out) PROVE text[i + 1] = out[i]
  <2>1. i + 1 \in 1 .. Len(Prompt) + Len(out) /\ ~ (i + 1 <= Len(Prompt)) /\ (i + 1) - Len(Prompt) = i
    BY <1>1, <1>3
  <2>2. QED BY <1>2, <2>1
<1>6. QED BY <1>2, <1>4, <1>5 DEF text

LEMMA PromptAppended ==
  ASSUME NEW out \in Seq(Symbols), NEW c \in Symbols
  PROVE  Prompt \o Append(out, c) = Append(Prompt \o out, c)
<1>1. out \in Seq(Marks) /\ Prompt \in Seq(Marks) /\ <<c>> \in Seq(Marks) /\ c \in Marks
  BY DEF Prompt, Marks
<1>2. Prompt \o out \in Seq(Marks)
  BY PromptText
<1>3. Append(out, c) = out \o <<c>> /\ Append(Prompt \o out, c) = (Prompt \o out) \o <<c>>
  BY <1>1, <1>2, AppendIsConcat
<1>4. (Prompt \o out) \o <<c>> = Prompt \o (out \o <<c>>)
  BY <1>1, ConcatAssociative
<1>5. QED BY <1>3, <1>4

(* Asking for a path shows the prompt.                                     *)
LEMMA AskedShown ==
  ASSUME main, Fits(line')
  PROVE  /\ ShowsText(term'.text, Prompt \o reader'.out)
         /\ ShowsText(term'.bitmap, Prompt \o reader'.out)
<1>1. /\ term' = Show(Show(term, clear_screen), LAMBDA s : print(s, Prompt))
      /\ reader'.out = <<>> /\ line' = <<>>
  BY DEF main, NewRead
<1>2. /\ term'.text = print(clear_screen(term.text), Prompt)
      /\ term'.bitmap = print(clear_screen(term.bitmap), Prompt)
  BY <1>1 DEF Show
<1>3. ">" # LF /\ ">" # BS /\ ">" # NUL /\ ">" \in Marks
  BY DEF LF, BS, NUL, Marks
<1>4. Len(<<>>) = 0 /\ <<>> \in Seq(Symbols) /\ <<>> \in Seq(Marks)
  BY EmptySeq
<1>5. 0 + 1 < Width * Height
  <2>1. PICK at : Stands(at, <<>>, <<>>)
    <3>1. ShellRead \in [shell : BOOLEAN, line : BOOLEAN, echo : BOOLEAN] /\ 0 \in Nat
      BY DEF ShellRead
    <3>2. QED BY <3>1, FreshRead
  <2>2. Len(<<>>) + Len(Prompt) < Width * Height
    BY <1>1, <1>4, <2>1, FitsNow
  <2>3. QED BY <1>4, <2>2 DEF Prompt
<1>6. ASSUME NEW s PROVE ShowsText(print(clear_screen(s), Prompt), Prompt \o <<>>)
  <2> DEFINE t == clear_screen(s)
  <2>1. ShowsText(t, <<>>)
    BY ClearedShown
  <2> HIDE DEF t
  <2>2. ShowsText(append_char(t, ">"), Append(<<>>, ">"))
    BY <1>3, <1>4, <1>5, <2>1, TypedShown
  <2>3. print(t, <<">">>) = append_char(t, ">")
    BY <1>3, PrintOne
  <2>4. Append(<<>>, ">") = Prompt \o <<>> /\ Prompt = <<">">>
    BY DEF Prompt
  <2>5. QED BY <2>2, <2>3, <2>4 DEF t
<1>7. QED BY <1>1, <1>2, <1>6

(* A key of a path that ends nothing is taken back or added by both branches. *)
LEMMA TypedOnScreen ==
  ASSUME TypeOK, KeyInv, LineInv, LineInv', ScreenInv, ReadKey,
         reader'.kind.shell, ~ reader'.done, Fits(line')
  PROVE  /\ ShowsText(term'.text, Prompt \o reader'.out)
         /\ ShowsText(term'.bitmap, Prompt \o reader'.out)
<1> DEFINE ch == CharOf(simple.char)
           out == reader.out
           text == Prompt \o out
<1>1. /\ pc = "take" /\ line' = Append(line, ch)
      /\ reader' = IF reader.kind.shell THEN InputKey(reader, ch) ELSE TerminalKey(reader, ch)
      /\ term' = IF reader.kind.shell THEN InputEcho(term, reader, ch) ELSE TerminalEcho(term, reader, ch)
  BY DEF ReadKey, TakeKey
<1>2. /\ reader \in [kind : [shell : BOOLEAN, line : BOOLEAN, echo : BOOLEAN], size : Nat,
                     out : Seq(Symbols), done : BOOLEAN]
      /\ line \in Seq(Symbols) /\ out \in Seq(Symbols) /\ ~ reader.done
  BY <1>1 DEF LineInv, Waiting
<1>3. ch \in Symbols
  BY KeyIsSymbol
<1>4. ch # NUL
  <2>1. simple.char \in Chars
    <3>1. typed # <<>>
      <4>1. snapAt < Len(typed) /\ snapAt \in Nat
        BY <1>1 DEF KeyInv, TypeOK
      <4>2. QED BY <4>1, EmptySeq
    <3>2. typed \in Seq(Chars) /\ simple.char = typed[Len(typed)]
      BY <3>1 DEF KeyInv, TypeOK
    <3>3. Len(typed) \in 1 .. Len(typed)
      BY <3>1, <3>2, EmptySeq
    <3>4. QED BY <3>2, <3>3, ElementOfSeq
  <2>2. QED BY <2>1, ConsoleAssumption
<1> HIDE DEF ch
<1>5. reader.kind.shell
  <2>1. ~ reader.kind.shell => reader'.kind = reader.kind
    BY <1>1, <1>2 DEF TerminalKey
  <2>2. QED BY <2>1
<1>6. reader' = InputKey(reader, ch) /\ term' = InputEcho(term, reader, ch)
  BY <1>1, <1>5
<1>7. ch # LF
  <2>1. ch = LF => reader' = [reader EXCEPT !.done = TRUE]
    BY <1>6 DEF InputKey, LF, BS
  <2>2. QED BY <1>2, <2>1
<1>8. ShowsText(term.text, text) /\ ShowsText(term.bitmap, text)
  BY <1>1, <1>2, <1>3, <1>5, FitsBefore DEF ScreenInv
<1>9. ~ InputKey(reader, ch).done
  BY <1>6
<1>10. text \in Seq(Marks) /\ Len(text) = Len(out) + 1 /\ ch \in Marks
  BY <1>2, <1>3, PromptText DEF Marks
(* A backspace with nothing to take back is not echoed ... *)
<1>11. CASE ch = BS /\ out = <<>>
  <2>1. reader' = [reader EXCEPT !.out = out]
    BY <1>6, <1>7, <1>11 DEF InputKey
  <2>2. reader'.out = out
    BY <1>2, <2>1
  <2>3. term' = term
    BY <1>6, <1>9, <1>11 DEF InputEcho
  <2>4. QED BY <1>8, <2>2, <2>3
(* ... others clear the last character ... *)
<1>12. CASE ch = BS /\ out # <<>>
  <2> DEFINE less == Prompt \o Erased(out)
  <2>1. reader' = [reader EXCEPT !.out = Erased(out)]
    BY <1>6, <1>7, <1>12 DEF InputKey
  <2>2. reader'.out = Erased(out)
    BY <1>2, <2>1
  <2>3. /\ Erased(out) \in Seq(Symbols) /\ Len(Erased(out)) = Len(out) - 1
        /\ \A i \in 1 .. Len(out) - 1 : Erased(out)[i] = out[i]
    BY <1>2, <1>12, PopType DEF Erased
  <2>4. Len(out) \in Nat \ {0}
    BY <1>2, <1>12, EmptySeq
  <2>5. /\ less \in Seq(Marks) /\ Len(less) = Len(out) /\ less[1] = ">"
        /\ \A i \in 1 .. Len(out) - 1 : less[i + 1] = out[i]
    <3>1. /\ less \in Seq(Marks) /\ Len(less) = Len(Erased(out)) + 1 /\ less[1] = ">"
          /\ \A i \in 1 .. Len(Erased(out)) : less[i + 1] = Erased(out)[i]
      BY <2>3, PromptText
    <3> HIDE DEF less
    <3>2. QED BY <2>3, <2>4, <3>1
  <2>6. /\ text[1] = ">" /\ \A i \in 1 .. Len(out) : text[i + 1] = out[i]
    BY <1>2, PromptText
  <2> HIDE DEF less
  <2>7. \A i \in 1 .. Len(less) : less[i] = text[i]
    <3>1. SUFFICES ASSUME NEW i \in 1 .. Len(out), i # 1 PROVE less[i] = text[i]
      BY <2>4, <2>5, <2>6
    <3>2. i - 1 \in 1 .. Len(out) - 1 /\ i - 1 \in 1 .. Len(out) /\ (i - 1) + 1 = i
      BY <2>4, <3>1
    <3>3. less[(i - 1) + 1] = out[i - 1] /\ text[(i - 1) + 1] = out[i - 1]
      BY <2>5, <2>6, <3>2
    <3>4. QED BY <3>2, <3>3
  <2>8. /\ term'.text = printf_c(term.text, BS)
        /\ term'.bitmap = printf_c(term.bitmap, BS)
    BY <1>6, <1>7, <1>9, <1>12 DEF InputEcho, Show
  <2> HIDE DEF text
  <2>9. ASSUME NEW s, ShowsText(s, text) PROVE ShowsText(printf_c(s, BS), less)
    BY <1>10, <2>5, <2>7, <2>9, ErasedShown
  <2>10. QED BY <1>8, <2>2, <2>8, <2>9 DEF less
(* ... and all other keys add one. *)
<1>13. CASE ch # BS
  <2> DEFINE more == Append(out, ch)
  <2>1. reader' = [reader EXCEPT !.out = more, !.done = Full(reader, more)]
    BY <1>6, <1>7, <1>13 DEF InputKey
  <2>2. reader'.out = more
    BY <1>2, <2>1
  <2>3. more \in Seq(Symbols) /\ Len(more) = Len(out) + 1
    BY <1>2, <1>3, AppendProperties
  <2>4. Len(reader'.out) + Len(Prompt) < Width * Height
    <3>1. reader'.kind.line /\ line' \in Seq(Symbols) /\ reader'.out \in Seq(Symbols)
      BY DEF LineInv
    <3>2. PICK at : Stands(at, reader'.out, line')
      BY <3>1 DEF LineInv
    <3>3. QED BY <3>1, <3>2, FitsNow
  <2>5. Len(text) + 1 < Width * Height
    <3>1. Len(Prompt) = 1
      BY DEF Prompt
    <3>2. QED BY <1>10, <2>2, <2>3, <2>4, <3>1
  <2>6. Prompt \o more = Append(text, ch)
    BY <1>2, <1>3, PromptAppended
  <2> HIDE DEF more, text
  <2>7. /\ term'.text = printf_c(term.text, ch)
        /\ term'.bitmap = printf_c(term.bitmap, ch)
    BY <1>6, <1>7, <1>9, <1>13 DEF InputEcho, Show
  <2>8. ASSUME NEW s, ShowsText(s, text) PROVE ShowsText(printf_c(s, ch), Append(text, ch))
    BY <1>4, <1>7, <1>10, <1>13, <2>5, <2>8, TypedShown
  <2>9. QED BY <1>8, <2>2, <2>6, <2>7, <2>8
<1>14. QED BY <1>11, <1>12, <1>13

LEMMA ScreenKept ==
  ASSUME ScreenInv, UNCHANGED <<reader, line>>, ~ reader.done => UNCHANGED term
  PROVE  ScreenInv'
  BY DEF ScreenInv

LEMMA NextScreen ==
  TypeOK /\ KeyInv /\ LineInv /\ LineInv' /\ ScreenInv /\ [ConsoleNext]_allVars => ScreenInv'
<1> SUFFICES ASSUME TypeOK, KeyInv, LineInv, LineInv', ScreenInv, [ConsoleNext]_allVars
             PROVE  ScreenInv'
  OBVIOUS
<1>1. CASE main
  BY <1>1, AskedShown DEF ScreenInv
<1>2. ASSUME NEW r \in Reads, terminal_read(r.kind, r.size) PROVE ScreenInv'
  <2>1. reader'.kind = r.kind /\ ~ r.kind.shell
    BY <1>2, ConsoleAssumption DEF terminal_read, NewRead
  <2>2. QED BY <2>1 DEF ScreenInv
<1>3. ASSUME NEW buffer \in Writes, Write(buffer) PROVE ScreenInv'
  BY <1>3, ScreenKept DEF Write, Job, Idle
<1>4. ASSUME NEW packet \in Packets, WritePacket(packet) PROVE ScreenInv'
  BY <1>4, ScreenKept DEF WritePacket, Job, Idle
<1>5. CASE Panic
  BY <1>5, ScreenKept DEF Panic
<1>6. CASE ReadKey
  BY <1>6, TypedOnScreen DEF ScreenInv
<1>7. CASE UNCHANGED consoleVars
  BY <1>7, ScreenKept DEF consoleVars
<1>8. QED
  BY <1>1, <1>2, <1>3, <1>4, <1>5, <1>6, <1>7 DEF ConsoleNext, AskKey, allVars

(* While a path is typed, both branches show the prompt and the line as it   *)
(* stands and nothing else, and the cursor after it, through every wrap of a *)
(* row and every backspace over one, on screens of any size and for every    *)
(* line that has never filled the screen.                                    *)
THEOREM ScreenShowsTheLine == ConsoleSpec => []ScreenShowsInput
<1> DEFINE Inv == TypeOK /\ KeyInv /\ LineInv /\ ScreenInv
<1>1. ConsoleInit => Inv
  <2>1. ConsoleInit => ScreenInv
    <3>1. NewRead(ShellRead, 0).done
      BY Zenon DEF NewRead
    <3>2. QED BY <3>1 DEF ConsoleInit, ScreenInv
  <2>2. QED BY <2>1, InitType, InitKey, InitLine DEF ConsoleInit
<1>2. Inv /\ [ConsoleNext]_allVars => Inv'
  BY ConsoleStep, NextType, NextKey, NextLine, NextScreen
<1>3. Inv => ScreenShowsInput
  <2>1. SUFFICES ASSUME Inv, reader.kind.shell, ~ reader.done, Fits(line),
                        NEW s \in {term.text, term.bitmap}
                 PROVE  LET text == Prompt \o reader.out
                        IN /\ SubSeq(Shown(s), 1, Len(text)) = text
                           /\ \A n \in Len(text) + 1 .. Width * Height : Shown(s)[n] \in {NUL, Blank}
                           /\ <<s.x, s.y>> = Reading[Len(text) + 1]
    BY DEF ScreenShowsInput
  <2>2. ShowsText(s, Prompt \o reader.out)
    BY <2>1 DEF ScreenInv
  <2>3. Prompt \o reader.out \in Seq(Marks)
    BY <2>1, PromptText DEF LineInv
  <2>4. QED BY <2>2, <2>3, ShownText
<1> HIDE DEF Inv
<1>4. QED BY <1>1, <1>2, <1>3, PTL DEF ConsoleSpec

-----------------------------------------------------------------------------
(* Every set of numbers has a least one ...                                  *)
LEMMA LeastNumber ==
  ASSUME NEW T, T \subseteq Nat, T # {}
  PROVE  \E x \in T : \A y \in T : x <= y
<1> DEFINE Lesser == OpToRel(<, Nat)
<1>1. Lesser = {p \in Nat \X Nat : p[1] < p[2]}
  BY Zenon DEF OpToRel
<1>2. IsWellFoundedOn(Lesser, Nat)
  BY NatLessThanWellFounded
<1> HIDE DEF Lesser
<1>3. PICK x \in T : \A y \in T : <<y, x>> \notin Lesser
  BY <1>2, WFMin
<1>4. ASSUME NEW y \in T PROVE x <= y
  <2> DEFINE p == <<y, x>>
  <2>1. p \in Nat \X Nat /\ p[1] = y /\ p[2] = x /\ p \notin Lesser
    BY <1>3
  <2> HIDE DEF p
  <2>2. ~ (y < x)
    BY <1>1, <2>1
  <2>3. x \in Nat /\ y \in Nat
    OBVIOUS
  <2>4. QED BY <2>2, <2>3
<1>5. QED BY <1>4

(* ... so what is so of 0, and of n + 1 when it is so of n, is so of every   *)
(* number: induction over the set of those it is so of.                      *)
LEMMA SetInduction ==
  ASSUME NEW S, 0 \in S, \A n \in Nat : n \in S => n + 1 \in S
  PROVE  \A n \in Nat : n \in S
<1> SUFFICES ASSUME NEW n \in Nat, n \notin S PROVE FALSE
  OBVIOUS
<1> DEFINE T == {m \in Nat : m \notin S}
<1>1. T \subseteq Nat /\ T # {}
  OBVIOUS
<1>2. PICK x \in T : \A y \in T : x <= y
  BY <1>1, LeastNumber
<1>3. x \in Nat /\ x # 0 /\ x \notin S
  OBVIOUS
<1>4. x - 1 \in Nat /\ (x - 1) + 1 = x
  BY <1>3
<1>5. x - 1 \in T
  BY <1>3, <1>4
<1>6. x <= x - 1
  BY <1>2, <1>5
<1> QED BY <1>3, <1>6

(* A turn of the loops that go over a sequence: print_color, set_string, the  *)
(* driver's scroll and change of colour, and terminal_write.                 *)
Turn(loop, arg, t, c) ==
  CASE loop = 1 -> IF c = LF THEN append_newline(t) ELSE append_char_color(t, c, arg)
    [] loop = 2 -> IF ~ t.ok THEN t
                   ELSE IF c = LF THEN [t EXCEPT !.x = arg[1], !.y = t.y + 1]
                   ELSE LET wraps == t.x + 1 >= Width
                            y == IF wraps THEN t.y + 1 ELSE t.y
                        IN [s |-> set_char(t.s, t.x, t.y, c, arg[2]),
                            x |-> IF wraps THEN arg[1] ELSE t.x + 1, y |-> y,
                            ok |-> <<t.x, t.y>> \in Places /\ y < Height]
    [] loop = 3 -> IF c[2] < Height - 1
                   THEN LET below == get_char(t, c[1], c[2] + 1)
                        IN set_char(t, c[1], c[2], below.ch, below.color)
                   ELSE set_char(t, c[1], c[2], NUL, get_char(t, c[1], c[2]).color)
    [] loop = 4 -> set_char(t, c[1], c[2], get_char(t, c[1], c[2]).ch, arg)
    [] OTHER    -> WriteTurn(arg, t, c)

(* A loop's history: what it holds after the turns of a set of places.       *)
Turned(f, loop, arg, s, str, n) ==
  f = [x \in SUBSET (1 .. n) |->
         IF x = {} THEN s ELSE Turn(loop, arg, f[x \ {Max(x)}], str[Max(x)])]

LEMMA MaxIsLast ==
  ASSUME NEW n \in Nat, NEW x \in SUBSET (1 .. n), n \in x
  PROVE  Max(x) = n
<1>1. \A y \in x : n >= y /\ y \in Int
  OBVIOUS
<1>2. \A z \in x : (\A y \in x : z >= y) => z = n
  BY <1>1
<1>3. QED BY <1>1, <1>2, Zenon DEF Max

LEMMA HistoryExists ==
  ASSUME NEW loop, NEW arg, NEW s, NEW str, NEW n \in Nat
  PROVE  \E f : Turned(f, loop, arg, s, str, n)
<1> DEFINE S == {k \in Nat : \E f : Turned(f, loop, arg, s, str, k)}
<1>1. 0 \in S
  <2> DEFINE f == [x \in SUBSET (1 .. 0) |-> s]
  <2>1. \A x \in SUBSET (1 .. 0) : x = {}
    OBVIOUS
  <2>2. f = [x \in SUBSET (1 .. 0) |->
               IF x = {} THEN s ELSE Turn(loop, arg, f[x \ {Max(x)}], str[Max(x)])]
    BY <2>1
  <2>3. Turned(f, loop, arg, s, str, 0)
    BY <2>2 DEF Turned
  <2>4. QED BY <2>3
<1>2. ASSUME NEW k \in Nat, k \in S PROVE k + 1 \in S
  <2>1. PICK f : Turned(f, loop, arg, s, str, k)
    BY <1>2
  <2> DEFINE m == k + 1
             g == [x \in SUBSET (1 .. m) |->
                     IF m \in x THEN Turn(loop, arg, f[x \ {m}], str[m]) ELSE f[x]]
             Later(x) == IF x = {} THEN s ELSE Turn(loop, arg, g[x \ {Max(x)}], str[Max(x)])
  <2>2. ASSUME NEW x \in SUBSET (1 .. m) PROVE g[x] = Later(x)
    <3>1. CASE m \in x
      <4>1. x \ {m} \in SUBSET (1 .. m) /\ m \notin x \ {m} /\ x # {} /\ m \in Nat
        BY <3>1
      <4>2. Max(x) = m
        BY <3>1, <4>1, MaxIsLast
      <4>3. g[x \ {m}] = f[x \ {m}] /\ g[x] = Turn(loop, arg, f[x \ {m}], str[m])
        BY <3>1, <4>1
      <4> HIDE DEF g
      <4>4. QED BY <4>1, <4>2, <4>3
    <3>2. CASE m \notin x
      <4>1. x \in SUBSET (1 .. k)
        BY <3>2
      <4>2. g[x] = f[x]
        BY <3>2
      <4>3. x \ {Max(x)} \in SUBSET (1 .. m) /\ m \notin x \ {Max(x)}
        BY <3>2
      <4>4. g[x \ {Max(x)}] = f[x \ {Max(x)}]
        BY <4>3
      <4> HIDE DEF g
      <4>5. f[x] = IF x = {} THEN s ELSE Turn(loop, arg, f[x \ {Max(x)}], str[Max(x)])
        BY <2>1, <4>1 DEF Turned
      <4>6. QED BY <4>2, <4>4, <4>5
    <3>3. QED BY <3>1, <3>2
  <2>3. g = [x \in SUBSET (1 .. m) |-> g[x]]
    OBVIOUS
  <2>4. g = [x \in SUBSET (1 .. m) |-> Later(x)]
    <3> HIDE DEF g
    <3>1. QED BY <2>2, <2>3
  <2>5. Turned(g, loop, arg, s, str, m)
    BY <2>4 DEF Turned
  <2> HIDE DEF g
  <2>6. QED BY <2>5
<1> HIDE DEF S
<1>3. n \in S
  BY <1>1, <1>2, SetInduction
<1>4. QED BY <1>3 DEF S

(* ... turn by turn.                                                         *)
Played(g, loop, arg, s, str, n) ==
  /\ g[0] = s
  /\ \A k \in 0 .. n - 1 : g[k + 1] = Turn(loop, arg, g[k], str[k + 1])

LEMMA HistoryTurns ==
  ASSUME NEW loop, NEW arg, NEW s, NEW str, NEW n \in Nat, NEW f,
         Turned(f, loop, arg, s, str, n)
  PROVE  \E g : Played(g, loop, arg, s, str, n) /\ g[n] = f[1 .. n]
<1> DEFINE g == [k \in 0 .. n |-> f[1 .. k]]
<1>1. \A x \in SUBSET (1 .. n) :
        f[x] = IF x = {} THEN s ELSE Turn(loop, arg, f[x \ {Max(x)}], str[Max(x)])
  BY DEF Turned
<1>2. 1 .. 0 = {} /\ {} \in SUBSET (1 .. n)
  OBVIOUS
<1>3. ASSUME NEW k \in 0 .. n - 1
      PROVE  f[1 .. k + 1] = Turn(loop, arg, f[1 .. k], str[k + 1])
  <2> DEFINE x == 1 .. k + 1
  <2>1. x \in SUBSET (1 .. n) /\ x # {} /\ k + 1 \in x /\ x \in SUBSET (1 .. k + 1) /\ k + 1 \in Nat
    OBVIOUS
  <2>2. x \ {k + 1} = 1 .. k
    OBVIOUS
  <2> HIDE DEF x
  <2>3. Max(x) = k + 1
    BY <2>1, MaxIsLast
  <2>4. f[x] = Turn(loop, arg, f[x \ {k + 1}], str[k + 1])
    BY <1>1, <2>1, <2>3
  <2>5. QED BY <2>2, <2>4 DEF x
<1>4. f[1 .. 0] = s
  BY <1>1, <1>2
<1>5. g[0] = s /\ g[n] = f[1 .. n]
  BY <1>4
<1>6. ASSUME NEW k \in 0 .. n - 1 PROVE g[k + 1] = Turn(loop, arg, g[k], str[k + 1])
  <2>1. k \in 0 .. n /\ k + 1 \in 0 .. n
    OBVIOUS
  <2>2. g[k] = f[1 .. k] /\ g[k + 1] = f[1 .. k + 1]
    BY <2>1
  <2> HIDE DEF g
  <2>3. QED BY <1>3, <2>2
<1> HIDE DEF g
<1>7. QED BY <1>5, <1>6 DEF Played

LEMMA PrintColorTurns ==
  ASSUME NEW s, NEW str, NEW color,
         NEW n \in Nat, DOMAIN str = 1 .. n
  PROVE  \E g : Played(g, 1, color, s, str, n) /\ print_color(s, str, color) = g[n]
<1> DEFINE Op(t, c) == IF c = LF THEN append_newline(t) ELSE append_char_color(t, c, color)
           base == s
           arg == color
           iter == CHOOSE f : f = [x \in SUBSET (DOMAIN str) |->
                                     IF x = {} THEN base
                                     ELSE Op(f[x \ {Max(x)}], str[Max(x)])]
<1>1. print_color(s, str, color) = iter[DOMAIN str]
  BY DEF print_color, FoldLeft, MapThenFoldSet
<1>2. \A t, c : Turn(1, arg, t, c) = Op(t, c)
  BY DEF Turn
<1> HIDE DEF Op, base, arg
<1>3. PICK g : Turned(g, 1, arg, base, str, n)
  BY HistoryExists
<1>4. g = [x \in SUBSET (DOMAIN str) |->
            IF x = {} THEN base ELSE Op(g[x \ {Max(x)}], str[Max(x)])]
  BY <1>2, <1>3 DEF Turned
<1>5. iter = [x \in SUBSET (DOMAIN str) |->
               IF x = {} THEN base ELSE Op(iter[x \ {Max(x)}], str[Max(x)])]
  BY <1>4
<1> HIDE DEF iter
<1>6. Turned(iter, 1, arg, base, str, n)
  BY <1>2, <1>5 DEF Turned
<1>7. print_color(s, str, color) = iter[1 .. n]
  BY <1>1
<1>8. PICK h : Played(h, 1, arg, base, str, n) /\ h[n] = iter[1 .. n]
  BY <1>6, HistoryTurns
<1>9. QED BY <1>7, <1>8 DEF arg, base

LEMMA SetStringTurns ==
  ASSUME NEW s, NEW x0, NEW y0, NEW str, NEW color,
         NEW n \in Nat, DOMAIN str = 1 .. n
  PROVE  \E g : Played(g, 2, <<x0, color>>, [s |-> s, x |-> x0, y |-> y0, ok |-> TRUE], str, n) /\ set_string(s, x0, y0, str, color) = g[n].s
<1> DEFINE Op(t, c) == IF ~ t.ok THEN t
                     ELSE IF c = LF THEN [t EXCEPT !.x = x0, !.y = t.y + 1]
                     ELSE LET wraps == t.x + 1 >= Width
                              y == IF wraps THEN t.y + 1 ELSE t.y
                          IN [s |-> set_char(t.s, t.x, t.y, c, color),
                              x |-> IF wraps THEN x0 ELSE t.x + 1, y |-> y,
                              ok |-> <<t.x, t.y>> \in Places /\ y < Height]
           base == [s |-> s, x |-> x0, y |-> y0, ok |-> TRUE]
           arg == <<x0, color>>
           iter == CHOOSE f : f = [x \in SUBSET (DOMAIN str) |->
                                     IF x = {} THEN base
                                     ELSE Op(f[x \ {Max(x)}], str[Max(x)])]
<1>1. set_string(s, x0, y0, str, color) = iter[DOMAIN str].s
  BY DEF set_string, FoldLeft, MapThenFoldSet
<1>2. \A t, c : Turn(2, arg, t, c) = Op(t, c)
  BY DEF Turn
<1> HIDE DEF Op, base, arg
<1>3. PICK g : Turned(g, 2, arg, base, str, n)
  BY HistoryExists
<1>4. g = [x \in SUBSET (DOMAIN str) |->
            IF x = {} THEN base ELSE Op(g[x \ {Max(x)}], str[Max(x)])]
  BY <1>2, <1>3 DEF Turned
<1>5. iter = [x \in SUBSET (DOMAIN str) |->
               IF x = {} THEN base ELSE Op(iter[x \ {Max(x)}], str[Max(x)])]
  BY <1>4
<1> HIDE DEF iter
<1>6. Turned(iter, 2, arg, base, str, n)
  BY <1>2, <1>5 DEF Turned
<1>7. set_string(s, x0, y0, str, color) = iter[1 .. n].s
  BY <1>1
<1>8. PICK h : Played(h, 2, arg, base, str, n) /\ h[n] = iter[1 .. n]
  BY <1>6, HistoryTurns
<1>9. QED BY <1>7, <1>8 DEF arg, base

LEMMA ScrollTurns ==
  ASSUME NEW s,
         NEW n \in Nat, DOMAIN Reading = 1 .. n
  PROVE  \E g : Played(g, 3, 0, s, Reading, n) /\ ScrollDriver(s) = g[n]
<1> DEFINE Op(t, c) == IF c[2] < Height - 1
                     THEN LET below == get_char(t, c[1], c[2] + 1)
                          IN set_char(t, c[1], c[2], below.ch, below.color)
                     ELSE set_char(t, c[1], c[2], NUL, get_char(t, c[1], c[2]).color)
           base == s
           arg == 0
           iter == CHOOSE f : f = [x \in SUBSET (DOMAIN Reading) |->
                                     IF x = {} THEN base
                                     ELSE Op(f[x \ {Max(x)}], Reading[Max(x)])]
<1>1. ScrollDriver(s) = iter[DOMAIN Reading]
  BY DEF ScrollDriver, FoldLeft, MapThenFoldSet
<1>2. \A t, c : Turn(3, arg, t, c) = Op(t, c)
  BY DEF Turn
<1> HIDE DEF Op, base, arg
<1>3. PICK g : Turned(g, 3, arg, base, Reading, n)
  BY HistoryExists
<1>4. g = [x \in SUBSET (DOMAIN Reading) |->
            IF x = {} THEN base ELSE Op(g[x \ {Max(x)}], Reading[Max(x)])]
  BY <1>2, <1>3 DEF Turned
<1>5. iter = [x \in SUBSET (DOMAIN Reading) |->
               IF x = {} THEN base ELSE Op(iter[x \ {Max(x)}], Reading[Max(x)])]
  BY <1>4
<1> HIDE DEF iter
<1>6. Turned(iter, 3, arg, base, Reading, n)
  BY <1>2, <1>5 DEF Turned
<1>7. ScrollDriver(s) = iter[1 .. n]
  BY <1>1
<1>8. PICK h : Played(h, 3, arg, base, Reading, n) /\ h[n] = iter[1 .. n]
  BY <1>6, HistoryTurns
<1>9. QED BY <1>7, <1>8 DEF arg, base

LEMMA ChangeColorTurns ==
  ASSUME NEW s, ~ s.cells_valid, NEW color,
         NEW n \in Nat, DOMAIN Reading = 1 .. n
  PROVE  \E g : Played(g, 4, color, s, Reading, n) /\ change_screen_color(s, color) = g[n]
<1> DEFINE Op(t, c) == set_char(t, c[1], c[2], get_char(t, c[1], c[2]).ch, color)
           base == s
           arg == color
           iter == CHOOSE f : f = [x \in SUBSET (DOMAIN Reading) |->
                                     IF x = {} THEN base
                                     ELSE Op(f[x \ {Max(x)}], Reading[Max(x)])]
<1>1. change_screen_color(s, color) = iter[DOMAIN Reading]
  BY DEF change_screen_color, FoldLeft, MapThenFoldSet
<1>2. \A t, c : Turn(4, arg, t, c) = Op(t, c)
  BY DEF Turn
<1> HIDE DEF Op, base, arg
<1>3. PICK g : Turned(g, 4, arg, base, Reading, n)
  BY HistoryExists
<1>4. g = [x \in SUBSET (DOMAIN Reading) |->
            IF x = {} THEN base ELSE Op(g[x \ {Max(x)}], Reading[Max(x)])]
  BY <1>2, <1>3 DEF Turned
<1>5. iter = [x \in SUBSET (DOMAIN Reading) |->
               IF x = {} THEN base ELSE Op(iter[x \ {Max(x)}], Reading[Max(x)])]
  BY <1>4
<1> HIDE DEF iter
<1>6. Turned(iter, 4, arg, base, Reading, n)
  BY <1>2, <1>5 DEF Turned
<1>7. change_screen_color(s, color) = iter[1 .. n]
  BY <1>1
<1>8. PICK h : Played(h, 4, arg, base, Reading, n) /\ h[n] = iter[1 .. n]
  BY <1>6, HistoryTurns
<1>9. QED BY <1>7, <1>8 DEF arg, base

LEMMA TerminalTurns ==
  ASSUME NEW w, NEW buffer, NEW n \in Nat, DOMAIN buffer = 1 .. n
  PROVE  \E g : /\ g[0] = [term |-> w, segment |-> <<>>, next |-> 1]
                /\ \A k \in 0 .. n - 1 : g[k + 1] = WriteTurn(buffer, g[k], k + 1)
                /\ terminal_write(w, buffer) = flush_segment(g[n]).term
<1> DEFINE Op(t, c) == WriteTurn(buffer, t, c)
           ids == [i \in DOMAIN buffer |-> i]
           base == [term |-> w, segment |-> <<>>, next |-> 1]
           iter == CHOOSE f : f = [x \in SUBSET (DOMAIN ids) |->
                                     IF x = {} THEN base
                                     ELSE Op(f[x \ {Max(x)}], ids[Max(x)])]
<1>1. terminal_write(w, buffer) = flush_segment(iter[DOMAIN ids]).term
  BY DEF terminal_write, FoldLeftDomain, FoldLeft, MapThenFoldSet
<1>2. \A t, c : Turn(5, buffer, t, c) = Op(t, c)
  BY DEF Turn
<1>3. DOMAIN ids = 1 .. n /\ \A k \in 0 .. n - 1 : ids[k + 1] = k + 1
  OBVIOUS
<1> HIDE DEF Op, base, ids
<1>4. PICK g : Turned(g, 5, buffer, base, ids, n)
  BY HistoryExists
<1>5. g = [x \in SUBSET (DOMAIN ids) |->
            IF x = {} THEN base ELSE Op(g[x \ {Max(x)}], ids[Max(x)])]
  BY <1>2, <1>3, <1>4 DEF Turned
<1>6. iter = [x \in SUBSET (DOMAIN ids) |->
               IF x = {} THEN base ELSE Op(iter[x \ {Max(x)}], ids[Max(x)])]
  BY <1>5
<1> HIDE DEF iter
<1>7. Turned(iter, 5, buffer, base, ids, n)
  BY <1>2, <1>3, <1>6 DEF Turned
<1>8. PICK h : Played(h, 5, buffer, base, ids, n) /\ h[n] = iter[1 .. n]
  BY <1>7, HistoryTurns
<1>9. h[0] = base /\ \A k \in 0 .. n - 1 : h[k + 1] = WriteTurn(buffer, h[k], k + 1)
  BY <1>2, <1>3, <1>8 DEF Played, Op
<1>10. terminal_write(w, buffer) = flush_segment(h[n]).term
  BY <1>1, <1>3, <1>8
<1>11. QED BY <1>9, <1>10 DEF base

-----------------------------------------------------------------------------
(* The two branches of display.c.  A screen with cells in memory and one a    *)
(* driver keeps are alike when they have the same cells and the same place,   *)
(* and what is drawn on the second looks like its cells.                      *)
InMemory == TRUE
InDriver == FALSE

LEMMA OnText ==
  ASSUME NEW x, NEW y, NEW cursor, NEW cell, NEW drawn,
         NEW s, s = Parts(InMemory, x, y, cursor, cell, drawn)
  PROVE  s.cells_valid
<1>1. s.cells_valid = InMemory
  BY PartsChanged
<1>2. QED BY <1>1, Zenon DEF InMemory

LEMMA OnBitmap ==
  ASSUME NEW x, NEW y, NEW cursor, NEW cell, NEW drawn,
         NEW s, s = Parts(InDriver, x, y, cursor, cell, drawn)
  PROVE  ~ s.cells_valid
<1>1. s.cells_valid = InDriver
  BY PartsChanged
<1>2. QED BY <1>1, Zenon DEF InDriver

Cell(ch, color) == [ch |-> ch, color |-> color]

Celled(cell) == cell = [p \in Places |-> Cell(cell[p].ch, cell[p].color)]

Drawn(cell, drawn) ==
  /\ drawn = [p \in Places |-> drawn[p]]
  /\ \A p \in Places : Visible(drawn[p]) = Visible(Drawing(cell[p].ch, cell[p].color))

Alike(a, b) ==
  /\ a = Parts(InMemory, a.x, a.y, a.cursor, a.cell, a.drawn)
  /\ b = Parts(InDriver, a.x, a.y, b.cursor, a.cell, b.drawn)
  /\ a.x \in Cols /\ a.y \in Rows
  /\ Celled(a.cell)
  /\ Drawn(a.cell, b.drawn)

LEMMA AlikeParts ==
  ASSUME NEW x \in Cols, NEW y \in Rows, NEW cell, Celled(cell), NEW da, NEW db, Drawn(cell, db),
         NEW ca, NEW cb, NEW a, NEW b,
         a = Parts(InMemory, x, y, ca, cell, da), b = Parts(InDriver, x, y, cb, cell, db)
  PROVE  Alike(a, b)
<1>1. a.x = x /\ a.y = y /\ a.cursor = ca /\ a.cell = cell /\ a.drawn = da
  BY PartsChanged, OnText, OnBitmap
<1>2. b.cursor = cb /\ b.drawn = db
  BY PartsChanged, OnText, OnBitmap
<1>3. QED BY <1>1, <1>2 DEF Alike

LEMMA CellSet ==
  ASSUME NEW cell, Celled(cell), NEW p \in Places, NEW c, NEW color,
         NEW new, new = [cell EXCEPT ![p] = Cell(c, color)]
  PROVE  /\ Celled(new) /\ new[p] = Cell(c, color)
         /\ \A q \in Places : q # p => new[q] = cell[q]
         /\ \A drawn : Drawn(cell, drawn) => Drawn(new, [drawn EXCEPT ![p] = Drawing(c, color)])
<1>1. cell = [q \in Places |-> cell[q]]
  BY DEF Celled
<1>2. new = [q \in Places |-> IF q = p THEN Cell(c, color) ELSE cell[q]]
  BY <1>1
<1>3. \A q \in Places : cell[q] = Cell(cell[q].ch, cell[q].color)
  BY DEF Celled
<1>4. Cell(c, color) = Cell(Cell(c, color).ch, Cell(c, color).color)
      /\ Cell(c, color).ch = c /\ Cell(c, color).color = color
  BY DEF Cell
<1>5. new[p] = Cell(c, color) /\ \A q \in Places : q # p => new[q] = cell[q]
  BY <1>2
<1>6. \A q \in Places : new[q] = Cell(new[q].ch, new[q].color)
  BY <1>3, <1>4, <1>5
<1>7. new = [q \in Places |-> new[q]]
  BY <1>2
<1>8. Celled(new)
  BY <1>6, <1>7 DEF Celled
<1>9. ASSUME NEW drawn, Drawn(cell, drawn)
      PROVE  Drawn(new, [drawn EXCEPT ![p] = Drawing(c, color)])
  <2> DEFINE later == [drawn EXCEPT ![p] = Drawing(c, color)]
  <2>1. drawn = [q \in Places |-> drawn[q]]
    BY <1>9 DEF Drawn
  <2>2. later = [q \in Places |-> later[q]] /\ later[p] = Drawing(c, color)
        /\ \A q \in Places : q # p => later[q] = drawn[q]
    BY <2>1
  <2> HIDE DEF later
  <2>3. \A q \in Places : Visible(later[q]) = Visible(Drawing(new[q].ch, new[q].color))
    BY <1>4, <1>5, <1>9, <2>2 DEF Drawn
  <2>4. Drawn(new, later)
    BY <2>2, <2>3 DEF Drawn
  <2>5. QED BY <2>4 DEF later
<1>10. QED BY <1>5, <1>8, <1>9

(* set_char of a driver without cells to draw, and of one that draws ...     *)
LEMMA TextSet ==
  ASSUME NEW s, NEW x, NEW y, NEW cursor, NEW cell, NEW drawn,
         s = Parts(InMemory, x, y, cursor, cell, drawn),
         NEW i, NEW j, NEW c, NEW color, NEW p, p = <<i, j>>,
         NEW new, new = [cell EXCEPT ![p] = Cell(c, color)]
  PROVE  /\ p \in Places => set_char(s, i, j, c, color) = Parts(InMemory, x, y, cursor, new, drawn)
         /\ p \notin Places => set_char(s, i, j, c, color) = s
<1>1. s.cells_valid
  BY OnText
<1>2. s.cell = cell
  BY PartsChanged
<1>3. \A n : [s EXCEPT !.cell = n] = Parts(InMemory, x, y, cursor, n, drawn)
  BY PartsChanged
<1>4. s.cell = cell /\ [s EXCEPT !.cell = new] = Parts(InMemory, x, y, cursor, new, drawn)
  BY <1>2, <1>3, Zenon
<1>5. new = [s.cell EXCEPT ![p] = Cell(c, color)]
  BY <1>4
<1>6. set_char(s, i, j, c, color) = IF p \in Places THEN [s EXCEPT !.cell = new] ELSE s
  BY <1>1, <1>5 DEF set_char, text_set_char, Cell
<1>7. QED BY <1>4, <1>6

Redrawn(s, drawn) == [s EXCEPT !.drawn = drawn]

LEMMA BitmapSet ==
  ASSUME NEW s, NEW x, NEW y, NEW cursor, NEW cell, NEW drawn,
         s = Parts(InDriver, x, y, cursor, cell, drawn),
         NEW i, NEW j, NEW c, NEW color, NEW p, p = <<i, j>>,
         NEW new, new = [cell EXCEPT ![p] = Cell(c, color)],
         NEW draw, draw = [drawn EXCEPT ![p] = Drawing(c, color)]
  PROVE  /\ p \in Places => set_char(s, i, j, c, color) = Parts(InDriver, x, y, cursor, new, draw)
         /\ p \notin Places => set_char(s, i, j, c, color) = s
<1> DEFINE t == [s EXCEPT !.cell = new]
           u == [t EXCEPT !.drawn = draw]
<1>1. ~ s.cells_valid
  BY OnBitmap
<1>2. s.cell = cell
  BY PartsChanged
<1>3. \A n : [s EXCEPT !.cell = n] = Parts(InDriver, x, y, cursor, n, drawn)
  BY PartsChanged
<1>4. t = Parts(InDriver, x, y, cursor, new, drawn)
  BY <1>3, Zenon
<1>5. s.cell = cell /\ t = Parts(InDriver, x, y, cursor, new, drawn)
  BY <1>2, <1>4
<1>6. new = [s.cell EXCEPT ![p] = Cell(c, color)]
  BY <1>5
<1>7. set_char(s, i, j, c, color) =
        IF p \in Places THEN [t EXCEPT !.drawn = [t.drawn EXCEPT ![p] = Drawing(c, color)]] ELSE s
  BY <1>1, <1>6 DEF set_char, bitmap_set_char, Cell
<1> HIDE DEF t
<1>8. t.drawn = drawn
  BY <1>4, PartsChanged
<1>9. \A r, m, n : r = Parts(InDriver, x, y, cursor, m, drawn) =>
                   Redrawn(r, n) = Parts(InDriver, x, y, cursor, m, n)
  BY PartsChanged DEF Redrawn
<1>10. u = Redrawn(t, draw) /\ u = [t EXCEPT !.drawn = draw]
  BY DEF Redrawn
<1> HIDE DEF u
<1>11. u = Parts(InDriver, x, y, cursor, new, draw)
  <2>1. t = Parts(InDriver, x, y, cursor, new, drawn) =>
        Redrawn(t, draw) = Parts(InDriver, x, y, cursor, new, draw)
    BY <1>9, SMTT(20)
  <2>2. QED BY <1>4, <1>10, <2>1
<1>12. t.drawn = drawn /\ u = Parts(InDriver, x, y, cursor, new, draw)
  BY <1>8, <1>11
<1>13. set_char(s, i, j, c, color) = IF p \in Places THEN u ELSE s
  BY <1>7, <1>12, <1>10
<1>14. QED BY <1>12, <1>13

(* ... leave two screens alike.                                              *)
LEMMA SetCharAlike ==
  ASSUME NEW a, NEW b, Alike(a, b), NEW i, NEW j, NEW c, NEW color
  PROVE  /\ Alike(set_char(a, i, j, c, color), set_char(b, i, j, c, color))
         /\ set_char(a, i, j, c, color).x = a.x /\ set_char(a, i, j, c, color).y = a.y
<1> DEFINE p == <<i, j>>
           new == [a.cell EXCEPT ![p] = Cell(c, color)]
           draw == [b.drawn EXCEPT ![p] = Drawing(c, color)]
           u == set_char(a, i, j, c, color)
           v == set_char(b, i, j, c, color)
<1>1. /\ a = Parts(InMemory, a.x, a.y, a.cursor, a.cell, a.drawn)
      /\ b = Parts(InDriver, a.x, a.y, b.cursor, a.cell, b.drawn)
      /\ a.x \in Cols /\ a.y \in Rows /\ Celled(a.cell) /\ Drawn(a.cell, b.drawn)
  BY DEF Alike
<1>2. p = <<i, j>> /\ new = [a.cell EXCEPT ![p] = Cell(c, color)]
      /\ draw = [b.drawn EXCEPT ![p] = Drawing(c, color)]
  OBVIOUS
<1>3. p \in Places => Celled(new) /\ Drawn(new, draw)
  BY <1>1, CellSet
<1> HIDE DEF p, new, draw
<1>4. (p \in Places => u = Parts(InMemory, a.x, a.y, a.cursor, new, a.drawn)) /\ (p \notin Places => u = a)
  BY <1>1, <1>2, TextSet
<1>5. (p \in Places => v = Parts(InDriver, a.x, a.y, b.cursor, new, draw)) /\ (p \notin Places => v = b)
  BY <1>1, <1>2, BitmapSet
<1> HIDE DEF u, v
<1>6. CASE p \in Places
  <2>1. Celled(new) /\ Drawn(new, draw)
    BY <1>6, <1>3
  <2>2. u = Parts(InMemory, a.x, a.y, a.cursor, new, a.drawn) /\ v = Parts(InDriver, a.x, a.y, b.cursor, new, draw)
    BY <1>4, <1>5, <1>6
  <2>3. Alike(u, v)
    BY <1>1, <2>1, <2>2, AlikeParts
  <2>4. u.x = a.x /\ u.y = a.y
    BY <2>2, PartsChanged, OnText, OnBitmap
  <2>5. QED BY <2>3, <2>4 DEF u, v
<1>7. CASE p \notin Places
  BY <1>4, <1>5, <1>7 DEF u, v
<1>8. QED BY <1>6, <1>7

(* The cursor, and the place that is written next.                           *)
LEMMA CursorAlike ==
  ASSUME NEW a, NEW b, Alike(a, b), NEW i, NEW j
  PROVE  Alike(set_cursor_position(a, i, j), set_cursor_position(b, i, j))
<1> DEFINE place == <<i, j>>
           u == [a EXCEPT !.cursor = place]
<1>1. /\ a = Parts(InMemory, a.x, a.y, a.cursor, a.cell, a.drawn)
      /\ b = Parts(InDriver, a.x, a.y, b.cursor, a.cell, b.drawn)
      /\ a.x \in Cols /\ a.y \in Rows /\ Celled(a.cell) /\ Drawn(a.cell, b.drawn)
  BY DEF Alike
<1>2. ~ b.cells_valid
  BY <1>1, OnBitmap, Zenon
<1>3. set_cursor_position(a, i, j) \in {a, u} /\ set_cursor_position(b, i, j) = b
  BY <1>2 DEF set_cursor_position
<1> HIDE DEF place
<1>4. u = Parts(InMemory, a.x, a.y, place, a.cell, a.drawn)
  BY <1>1, PartsChanged
<1>5. set_cursor_position(a, i, j) \in {a, u} /\ set_cursor_position(b, i, j) = b
  BY <1>3
<1> HIDE DEF u
<1>6. Alike(u, b)
  BY <1>1, <1>4, AlikeParts
<1>7. QED BY <1>5, <1>6

LEMMA MovedAlike ==
  ASSUME NEW a, NEW b, Alike(a, b), NEW x \in Cols, NEW y \in Rows
  PROVE  /\ Alike(At(a, x, y), At(b, x, y))
         /\ At(a, x, y).x = x /\ At(a, x, y).y = y
         /\ At(b, x, y).x = x /\ At(b, x, y).y = y
         /\ At(a, x, y).cell = a.cell /\ At(a, x, y).cells_valid
         /\ ~ At(b, x, y).cells_valid
<1> DEFINE t == [a EXCEPT !.x = x]
           u == [t EXCEPT !.y = y]
           v == [b EXCEPT !.x = x]
           w == [v EXCEPT !.y = y]
<1>1. /\ a = Parts(InMemory, a.x, a.y, a.cursor, a.cell, a.drawn)
      /\ b = Parts(InDriver, a.x, a.y, b.cursor, a.cell, b.drawn)
      /\ Celled(a.cell) /\ Drawn(a.cell, b.drawn)
  BY DEF Alike
<1>2. t = Parts(InMemory, x, a.y, a.cursor, a.cell, a.drawn)
  BY <1>1, PartsChanged
<1>3. v = Parts(InDriver, x, a.y, b.cursor, a.cell, b.drawn)
  BY <1>1, PartsChanged
<1>4. At(a, x, y) = u /\ At(b, x, y) = w
  BY DEF At
<1> HIDE DEF t, v
<1>5. u = Parts(InMemory, x, y, a.cursor, a.cell, a.drawn)
  BY <1>2, PartsChanged
<1>6. w = Parts(InDriver, x, y, b.cursor, a.cell, b.drawn)
  BY <1>3, PartsChanged
<1> HIDE DEF u, w
<1>7. u.x = x /\ u.y = y /\ u.cell = a.cell
  BY <1>5, PartsChanged
<1>8. w.x = x /\ w.y = y
  BY <1>6, PartsChanged
<1>9. u.cells_valid /\ ~ w.cells_valid
  BY <1>5, <1>6, OnText, OnBitmap, Zenon
<1>10. Alike(u, w)
  BY <1>1, <1>5, <1>6, AlikeParts
<1>11. QED BY <1>4, <1>7, <1>8, <1>9, <1>10

LEMMA AlikePlace ==
  ASSUME NEW a, NEW b, Alike(a, b)
  PROVE  /\ b.x = a.x /\ b.y = a.y /\ b.cell = a.cell
         /\ a.x \in 0 .. Width - 1 /\ a.y \in 0 .. Height - 1
         /\ a.cells_valid /\ ~ b.cells_valid
<1>1. /\ a = Parts(InMemory, a.x, a.y, a.cursor, a.cell, a.drawn)
      /\ b = Parts(InDriver, a.x, a.y, b.cursor, a.cell, b.drawn)
  BY DEF Alike
<1>2. b.x = a.x /\ b.y = a.y /\ b.cell = a.cell
  BY <1>1, PartsChanged
<1>3. a.cells_valid
  BY <1>1, OnText
<1>4. ~ b.cells_valid
  BY <1>1, OnBitmap
<1>5. a.x \in 0 .. Width - 1 /\ a.y \in 0 .. Height - 1
  BY DEF Alike, Cols, Rows
<1>6. QED BY <1>2, <1>3, <1>4, <1>5

(* What the display functions make of two screens that are alike.           *)
LEMMA WriteColorAlike ==
  ASSUME NEW a, NEW b, Alike(a, b), NEW i \in 0 .. Width - 1, NEW j \in 0 .. Height - 1,
         NEW c, NEW color
  PROVE  Alike(write_char_color(a, i, j, c, color), write_char_color(b, i, j, c, color))
<1> DEFINE u == set_char(a, i, j, c, color)
           v == set_char(b, i, j, c, color)
           m == At(u, i, j)
           n == At(v, i, j)
<1>1. /\ Width \in Nat \ {0} /\ Height \in Nat \ {0} /\ ~ (j >= Height) /\ ~ (i >= Width)
      /\ i \in Cols /\ j \in Rows
  BY ScreenAssumption DEF Cols, Rows
<1>2. CASE c = NUL
  <2>1. write_char_color(a, i, j, c, color) = a /\ write_char_color(b, i, j, c, color) = b
    BY <1>2 DEF write_char_color
  <2>2. QED BY <2>1
<1>3. CASE c # NUL
  <2>1. /\ write_char_color(a, i, j, c, color) = set_cursor_position(set_displaydata(u, i, j), i, j)
        /\ write_char_color(b, i, j, c, color) = set_cursor_position(set_displaydata(v, i, j), i, j)
    BY <1>1, <1>3 DEF write_char_color
  <2>2. set_displaydata(u, i, j) = m /\ set_displaydata(v, i, j) = n
    BY <1>1 DEF set_displaydata, At
  <2>3. Alike(u, v)
    BY SetCharAlike
  <2> HIDE DEF u, v
  <2>4. Alike(m, n)
    BY <1>1, <2>3, MovedAlike
  <2> HIDE DEF m, n
  <2>5. Alike(set_cursor_position(m, i, j), set_cursor_position(n, i, j))
    BY <2>4, CursorAlike
  <2>6. QED BY <2>1, <2>2, <2>5
<1>4. QED BY <1>2, <1>3

LEMMA WriteAlike ==
  ASSUME NEW a, NEW b, Alike(a, b), NEW i \in 0 .. Width - 1, NEW j \in 0 .. Height - 1, NEW c
  PROVE  Alike(write_char(a, i, j, c), write_char(b, i, j, c))
<1> DEFINE color == get_char(a, i, j).color
<1>1. Height \in Nat \ {0} /\ ~ (j >= Height) /\ b.cell = a.cell
  BY ScreenAssumption, AlikePlace
<1>2. get_char(b, i, j).color = color
  BY <1>1 DEF get_char
<1>3. /\ write_char(a, i, j, c) = write_char_color(a, i, j, c, color)
      /\ write_char(b, i, j, c) = write_char_color(b, i, j, c, color)
  BY <1>1, <1>2 DEF write_char
<1> HIDE DEF color
<1>4. QED BY <1>3, WriteColorAlike

LEMMA StepAlike ==
  ASSUME NEW a, NEW b, Alike(a, b)
  PROVE  /\ Alike(inc_displaydata(a), inc_displaydata(b))
         /\ inc_displaydata(b).x = inc_displaydata(a).x
         /\ inc_displaydata(b).y = inc_displaydata(a).y
<1> DEFINE wraps == a.x + 1 >= Width
           low == IF wraps THEN a.y + 1 ELSE a.y
           x == IF wraps THEN 0 ELSE a.x + 1
           y == IF low >= Height THEN Height - 1 ELSE low
<1>1. Width \in Nat \ {0} /\ Height \in Nat \ {0}
  BY ScreenAssumption
<1>2. b.x = a.x /\ b.y = a.y /\ a.x \in 0 .. Width - 1 /\ a.y \in 0 .. Height - 1
  BY AlikePlace
<1>3. x \in Cols /\ y \in Rows
  BY <1>1, <1>2 DEF Cols, Rows
<1>4. inc_displaydata(a) = At(a, x, y) /\ inc_displaydata(b) = At(b, x, y)
  BY <1>2 DEF inc_displaydata, At
<1> HIDE DEF x, y
<1>5. QED BY <1>3, <1>4, MovedAlike

LEMMA AppendCharAlike ==
  ASSUME NEW a, NEW b, Alike(a, b), NEW c
  PROVE  Alike(append_char(a, c), append_char(b, c))
<1> DEFINE u == write_char(a, a.x, a.y, c)
           v == write_char(b, b.x, b.y, c)
           m == inc_displaydata(u)
           n == inc_displaydata(v)
<1>1. b.x = a.x /\ b.y = a.y /\ a.x \in 0 .. Width - 1 /\ a.y \in 0 .. Height - 1
  BY AlikePlace
<1>2. Alike(u, v)
  BY <1>1, WriteAlike
<1> HIDE DEF u, v
<1>3. Alike(m, n) /\ n.x = m.x /\ n.y = m.y
  BY <1>2, StepAlike
<1>4. append_char(a, c) = set_cursor_position(m, m.x, m.y) /\ append_char(b, c) = set_cursor_position(n, n.x, n.y)
  BY DEF append_char, u, v
<1> HIDE DEF m, n
<1>5. QED BY <1>3, <1>4, CursorAlike

LEMMA AppendColorAlike ==
  ASSUME NEW a, NEW b, Alike(a, b), NEW c, NEW color
  PROVE  Alike(append_char_color(a, c, color), append_char_color(b, c, color))
<1> DEFINE u == write_char_color(a, a.x, a.y, c, color)
           v == write_char_color(b, b.x, b.y, c, color)
           m == inc_displaydata(u)
           n == inc_displaydata(v)
<1>1. b.x = a.x /\ b.y = a.y /\ a.x \in 0 .. Width - 1 /\ a.y \in 0 .. Height - 1
  BY AlikePlace
<1>2. Alike(u, v)
  BY <1>1, WriteColorAlike
<1> HIDE DEF u, v
<1>3. Alike(m, n) /\ n.x = m.x /\ n.y = m.y
  BY <1>2, StepAlike
<1>4. /\ append_char_color(a, c, color) = set_cursor_position(m, m.x, m.y)
      /\ append_char_color(b, c, color) = set_cursor_position(n, n.x, n.y)
  BY DEF append_char_color, u, v
<1> HIDE DEF m, n
<1>5. QED BY <1>3, <1>4, CursorAlike

LEMMA BackspaceAlike ==
  ASSUME NEW a, NEW b, Alike(a, b)
  PROVE  Alike(append_backspace(a), append_backspace(b))
<1> DEFINE x == IF a.x = 0 THEN Width - 1 ELSE a.x - 1
           y == IF a.x = 0 THEN a.y - 1 ELSE a.y
           i == IF y < 0 THEN 0 ELSE x
           j == IF y < 0 THEN 0 ELSE y
           m == At(a, i, j)
           n == At(b, i, j)
<1>1. Width \in Nat \ {0} /\ Height \in Nat \ {0}
  BY ScreenAssumption
<1>2. b.x = a.x /\ b.y = a.y /\ a.x \in 0 .. Width - 1 /\ a.y \in 0 .. Height - 1
  BY AlikePlace
<1>3. i \in Cols /\ j \in Rows /\ i \in 0 .. Width - 1 /\ j \in 0 .. Height - 1
  BY <1>1, <1>2 DEF Cols, Rows
<1>4. append_backspace(a) = write_char(m, i, j, Blank) /\ append_backspace(b) = write_char(n, i, j, Blank)
  BY <1>2 DEF append_backspace, At
<1> HIDE DEF i, j
<1>5. Alike(m, n)
  BY <1>3, MovedAlike
<1> HIDE DEF m, n
<1>6. QED BY <1>3, <1>4, <1>5, WriteAlike

-----------------------------------------------------------------------------
(* What the first driver does with all cells at once, the second does one     *)
(* after the other: `cells' is what the screen `b' gets to, k places of it    *)
(* have been drawn.                                                          *)
DrawnTo(t, a, b, cells, k) ==
  /\ t = Parts(InDriver, a.x, a.y, b.cursor, t.cell, t.drawn)
  /\ Celled(t.cell)
  /\ Drawn(t.cell, t.drawn)
  /\ \A m \in 1 .. k : t.cell[Reading[m]] = cells[Reading[m]]
  /\ \A m \in k + 1 .. Width * Height : t.cell[Reading[m]] = a.cell[Reading[m]]

LEMMA PlaceIsReading ==
  ASSUME NEW x \in 0 .. Width - 1, NEW y \in 0 .. Height - 1
  PROVE  \E n \in 1 .. Width * Height : n - 1 = Width * y + x /\ Reading[n] = <<x, y>>
<1> DEFINE n == Width * y + x + 1
<1>1. Width \in Nat \ {0} /\ Height \in Nat \ {0} /\ x \in Nat /\ y \in Nat /\ y + 1 <= Height
      /\ x + 1 <= Width
  BY ScreenAssumption
<1>2. Width * (y + 1) <= Width * Height
  BY <1>1
<1>3. Width * (y + 1) = Width * y + Width /\ Width * y \in Nat /\ Width * Height \in Nat
  BY <1>1
<1>4. n \in 1 .. Width * Height /\ n - 1 = Width * y + x
  BY <1>1, <1>2, <1>3
<1> HIDE DEF n
<1>5. Reading[n] = <<x, y>>
  BY <1>1, <1>4, PlaceOfReading
<1>6. QED BY <1>4, <1>5

LEMMA DrawnFrom ==
  ASSUME NEW a, NEW b, Alike(a, b), NEW cells
  PROVE  DrawnTo(b, a, b, cells, 0)
<1>1. /\ b = Parts(InDriver, a.x, a.y, b.cursor, a.cell, b.drawn) /\ b.cell = a.cell
      /\ Celled(a.cell) /\ Drawn(a.cell, b.drawn)
  BY AlikePlace DEF Alike
<1>2. QED BY <1>1 DEF DrawnTo

LEMMA DrawnNext ==
  ASSUME NEW t, NEW a, NEW b, NEW cells, NEW k \in Nat, k < Width * Height,
         DrawnTo(t, a, b, cells, k),
         NEW x \in 0 .. Width - 1, NEW y \in 0 .. Height - 1, Reading[k + 1] = <<x, y>>,
         NEW c, NEW color, cells[<<x, y>>] = Cell(c, color)
  PROVE  DrawnTo(set_char(t, x, y, c, color), a, b, cells, k + 1)
<1> DEFINE p == <<x, y>>
           new == [t.cell EXCEPT ![p] = Cell(c, color)]
           draw == [t.drawn EXCEPT ![p] = Drawing(c, color)]
           u == set_char(t, x, y, c, color)
           N == Width * Height
<1>1. p \in Places /\ N \in Nat /\ k + 1 \in 1 .. N /\ Reading[k + 1] = p /\ cells[p] = Cell(c, color)
  BY ScreenAssumption DEF Places, Cols, Rows
<1>2. /\ t = Parts(InDriver, a.x, a.y, b.cursor, t.cell, t.drawn)
      /\ Celled(t.cell) /\ Drawn(t.cell, t.drawn)
      /\ \A m \in 1 .. k : t.cell[Reading[m]] = cells[Reading[m]]
      /\ \A m \in k + 1 .. N : t.cell[Reading[m]] = a.cell[Reading[m]]
  BY DEF DrawnTo
<1>3. p = <<x, y>> /\ new = [t.cell EXCEPT ![p] = Cell(c, color)]
      /\ draw = [t.drawn EXCEPT ![p] = Drawing(c, color)]
  OBVIOUS
<1>4. /\ Celled(new) /\ new[p] = Cell(c, color) /\ Drawn(new, draw)
      /\ \A q \in Places : q # p => new[q] = t.cell[q]
  <2>1. Celled(new) /\ Drawn(new, draw)
    BY <1>1, <1>2, CellSet
  <2>2. new[p] = Cell(c, color)
    BY <1>1, <1>2 DEF Celled
  <2>3. \A q \in Places : q # p => new[q] = t.cell[q]
    BY <1>1, <1>2, CellSet
  <2>4. QED BY <2>1, <2>2, <2>3
<1> HIDE DEF p, new, draw
<1>5. u = Parts(InDriver, a.x, a.y, b.cursor, new, draw)
  BY <1>1, <1>2, <1>3, BitmapSet
<1> HIDE DEF u, N
<1>6. u.cell = new /\ u.drawn = draw
  BY <1>5, PartsChanged
<1>7. ASSUME NEW m \in 1 .. N, m # k + 1
      PROVE  new[Reading[m]] = t.cell[Reading[m]]
  <2>1. Reading[m] \in Places
    BY ReadingIsPlace DEF N
  <2>2. Reading[m] # p
    BY <1>1, <1>7, ReadingApart DEF N
  <2>3. QED BY <1>4, <2>1, <2>2
<1>8. ASSUME NEW m \in 1 .. k + 1 PROVE new[Reading[m]] = cells[Reading[m]]
  <2>1. CASE m = k + 1
    BY <1>1, <1>4, <2>1
  <2>2. CASE m # k + 1
    <3>1. m \in 1 .. k /\ m \in 1 .. N
      BY <1>1, <2>2
    <3>2. QED BY <1>2, <1>7, <2>2, <3>1
  <2>3. QED BY <2>1, <2>2
<1>9. ASSUME NEW m \in k + 1 + 1 .. N PROVE new[Reading[m]] = a.cell[Reading[m]]
  <2>1. m \in k + 1 .. N /\ m \in 1 .. N /\ m # k + 1
    BY <1>1
  <2>2. QED BY <1>2, <1>7, <2>1
<1>10. DrawnTo(u, a, b, cells, k + 1)
  BY <1>4, <1>5, <1>6, <1>8, <1>9 DEF DrawnTo, N
<1>11. QED BY <1>10 DEF u

LEMMA DrawnAll ==
  ASSUME NEW t, NEW a, NEW b, Alike(a, b), NEW cells, cells = [p \in Places |-> cells[p]],
         DrawnTo(t, a, b, cells, Width * Height), NEW u, u = [a EXCEPT !.cell = cells]
  PROVE  Alike(u, t)
<1>1. /\ t = Parts(InDriver, a.x, a.y, b.cursor, t.cell, t.drawn)
      /\ Celled(t.cell) /\ Drawn(t.cell, t.drawn)
      /\ \A m \in 1 .. Width * Height : t.cell[Reading[m]] = cells[Reading[m]]
  BY DEF DrawnTo
<1>2. \A p \in Places : t.cell[p] = cells[p]
  <2> SUFFICES ASSUME NEW p \in Places PROVE t.cell[p] = cells[p]
    OBVIOUS
  <2>1. PICK x \in 0 .. Width - 1, y \in 0 .. Height - 1 : p = <<x, y>>
    BY DEF Places, Cols, Rows
  <2>2. PICK n \in 1 .. Width * Height : Reading[n] = <<x, y>>
    BY PlaceIsReading
  <2>3. Reading[n] = p
    BY <2>1, <2>2, Zenon
  <2>4. QED BY <1>1, <2>3
<1>3. t.cell = [p \in Places |-> t.cell[p]]
  BY <1>1 DEF Celled
<1>4. t.cell = cells
  BY <1>2, <1>3
<1>5. /\ a = Parts(InMemory, a.x, a.y, a.cursor, a.cell, a.drawn)
      /\ a.x \in Cols /\ a.y \in Rows
  BY DEF Alike
<1>6. \A n : [a EXCEPT !.cell = n] = Parts(InMemory, a.x, a.y, a.cursor, n, a.drawn)
  BY <1>5, PartsChanged
<1>7. u = Parts(InMemory, a.x, a.y, a.cursor, cells, a.drawn)
  BY <1>6, Zenon
<1>8. u = Parts(InMemory, a.x, a.y, a.cursor, t.cell, a.drawn)
  BY <1>4, <1>7
<1>9. QED BY <1>1, <1>5, <1>8, AlikeParts

(* Scrolling ...                                                             *)
LEMMA ScrollStep ==
  ASSUME NEW a, NEW b, Alike(a, b), NEW k \in Nat, k < Width * Height, NEW t,
         DrawnTo(t, a, b, ScrollMemory(a).cell, k)
  PROVE  DrawnTo(Turn(3, 0, t, Reading[k + 1]), a, b, ScrollMemory(a).cell, k + 1)
<1> DEFINE cells == [p \in Places |->
                       IF p[2] < Height - 1 THEN a.cell[<<p[1], p[2] + 1>>]
                                            ELSE [a.cell[p] EXCEPT !.ch = NUL]]
           N == Width * Height
           c == Reading[k + 1]
<1>1. Width \in Nat \ {0} /\ Height \in Nat \ {0} /\ N \in Nat /\ k + 1 \in 1 .. N
  BY ScreenAssumption
<1>2. \A n : [a EXCEPT !.cell = n] = Parts(InMemory, a.x, a.y, a.cursor, n, a.drawn)
  BY PartsChanged DEF Alike
<1>3. ScrollMemory(a) = [a EXCEPT !.cell = cells]
  BY DEF ScrollMemory
<1>4. ScrollMemory(a).cell = cells
  <2> HIDE DEF cells
  <2>1. ScrollMemory(a) = Parts(InMemory, a.x, a.y, a.cursor, cells, a.drawn)
    BY <1>2, <1>3
  <2>2. QED BY <2>1, PartsChanged
<1>5. PICK x \in 0 .. Width - 1, y \in 0 .. Height - 1 : k = Width * y + x /\ c = <<x, y>>
  <2>1. PICK x \in 0 .. Width - 1, y \in 0 .. Height - 1 :
          (k + 1) - 1 = Width * y + x /\ Reading[k + 1] = <<x, y>>
    BY <1>1, ReadingPlace
  <2>2. (k + 1) - 1 = k
    OBVIOUS
  <2>3. QED BY <2>1, <2>2
<1>6. c[1] = x /\ c[2] = y /\ c \in Places
  BY <1>5 DEF Places, Cols, Rows
<1>7. /\ \A m \in k + 1 .. N : t.cell[Reading[m]] = a.cell[Reading[m]]
  BY DEF DrawnTo
<1>8. \A p \in Places : a.cell[p] = Cell(a.cell[p].ch, a.cell[p].color)
  BY DEF Alike, Celled
<1>9. CASE y < Height - 1
  <2> DEFINE q == <<x, y + 1>>
             below == get_char(t, x, y + 1)
  <2>1. y + 1 \in 0 .. Height - 1 /\ q \in Places
    BY <1>1, <1>9 DEF Places, Cols, Rows
  <2>2. PICK n \in 1 .. N : n - 1 = Width * (y + 1) + x /\ Reading[n] = q
    BY <2>1, PlaceIsReading
  <2>3. n \in k + 1 .. N
    BY <1>1, <1>5, <2>2
  <2>4. below = t.cell[q]
    BY <2>1 DEF get_char
  <2> HIDE DEF q
  <2>5. t.cell[q] = a.cell[q]
    BY <1>7, <2>2, <2>3
  <2>6. cells[c] = a.cell[q]
    BY <1>6, <1>9 DEF q
  <2>7. Turn(3, 0, t, c) = set_char(t, x, y, below.ch, below.color)
    BY <1>6, <1>9 DEF Turn
  <2>8. cells[c] = Cell(below.ch, below.color)
    BY <1>8, <2>1, <2>4, <2>5, <2>6
  <2> HIDE DEF below, cells
  <2>9. cells[<<x, y>>] = Cell(below.ch, below.color)
    BY <1>5, <2>8, Zenon
  <2>10. DrawnTo(set_char(t, x, y, below.ch, below.color), a, b, cells, k + 1)
    BY <1>4, <1>5, <2>9, DrawnNext
  <2>11. QED BY <1>4, <2>7, <2>10
<1>10. CASE ~ (y < Height - 1)
  <2> DEFINE color == get_char(t, x, y).color
  <2>1. <<x, y>> \in Places /\ <<x, y>> = c
    BY <1>5, <1>6
  <2>2. get_char(t, x, y) = t.cell[c]
    BY <2>1 DEF get_char
  <2>3. t.cell[c] = a.cell[c]
    BY <1>1, <1>7
  <2>4. Turn(3, 0, t, c) = set_char(t, x, y, NUL, color)
    BY <1>6, <1>10 DEF Turn
  <2>5. cells[c] = [a.cell[c] EXCEPT !.ch = NUL]
    BY <1>6, <1>10
  <2>6. \A ch, k1 : [Cell(ch, k1) EXCEPT !.ch = NUL] = Cell(NUL, k1)
    BY DEF Cell
  <2>7. cells[c] = Cell(NUL, a.cell[c].color)
    <3> HIDE DEF cells
    <3>1. a.cell[c] = Cell(a.cell[c].ch, a.cell[c].color)
      BY <1>6, <1>8
    <3>2. QED BY <2>5, <2>6, <3>1
  <2>8. color = a.cell[c].color
    BY <2>2, <2>3
  <2> HIDE DEF cells, color
  <2>9. cells[<<x, y>>] = Cell(NUL, color)
    BY <2>1, <2>7, <2>8, Zenon
  <2>10. DrawnTo(set_char(t, x, y, NUL, color), a, b, cells, k + 1)
    BY <1>4, <1>5, <2>9, DrawnNext
  <2>11. QED BY <1>4, <2>4, <2>10
<1>11. QED BY <1>9, <1>10

LEMMA ScrollAlike ==
  ASSUME NEW a, NEW b, Alike(a, b)
  PROVE  Alike(Scroll(a), Scroll(b))
<1> DEFINE N == Width * Height
           cells == ScrollMemory(a).cell
           u == [a EXCEPT !.cell = cells]
<1>1. N \in Nat /\ DOMAIN Reading = 1 .. N
  BY ScreenAssumption DEF Reading
<1>2. Scroll(a) = ScrollMemory(a) /\ Scroll(b) = ScrollDriver(b)
  BY AlikePlace DEF Scroll
<1>3. PICK f : Played(f, 3, 0, b, Reading, N) /\ ScrollDriver(b) = f[N]
  BY <1>1, ScrollTurns
<1> HIDE DEF cells, N
<1>4. f[0] = b /\ \A k \in 0 .. N - 1 : f[k + 1] = Turn(3, 0, f[k], Reading[k + 1])
  BY <1>3 DEF Played
<1> DEFINE S == {k \in Nat : k <= N => DrawnTo(f[k], a, b, cells, k)}
<1>5. 0 \in S
  BY <1>4, DrawnFrom
<1>6. ASSUME NEW k \in Nat, k \in S PROVE k + 1 \in S
  <2>1. CASE k + 1 <= N
    <3>1. k < N /\ k <= N /\ k \in 0 .. N - 1
      BY <1>1, <2>1
    <3>2. DrawnTo(f[k], a, b, cells, k)
      BY <1>6, <3>1
    <3>3. DrawnTo(Turn(3, 0, f[k], Reading[k + 1]), a, b, cells, k + 1)
      BY <3>1, <3>2, ScrollStep DEF cells, N
    <3>4. QED BY <1>4, <3>1, <3>3
  <2>2. CASE ~ (k + 1 <= N)
    BY <2>2
  <2>3. QED BY <2>1, <2>2
<1> HIDE DEF S
<1>7. N \in S
  BY <1>1, <1>5, <1>6, SetInduction
<1>8. DrawnTo(f[N], a, b, cells, N)
  BY <1>1, <1>7 DEF S
<1>9. ScrollMemory(a) = u /\ cells = [p \in Places |-> cells[p]]
  <2> DEFINE new == [p \in Places |->
                       IF p[2] < Height - 1 THEN a.cell[<<p[1], p[2] + 1>>]
                                            ELSE [a.cell[p] EXCEPT !.ch = NUL]]
  <2>1. a = Parts(InMemory, a.x, a.y, a.cursor, a.cell, a.drawn)
    BY DEF Alike
  <2>2. \A n : [a EXCEPT !.cell = n] = Parts(InMemory, a.x, a.y, a.cursor, n, a.drawn)
    BY <2>1, PartsChanged
  <2>3. ScrollMemory(a) = [a EXCEPT !.cell = new] /\ new = [p \in Places |-> new[p]]
    BY DEF ScrollMemory
  <2> HIDE DEF new
  <2>4. ScrollMemory(a) = Parts(InMemory, a.x, a.y, a.cursor, new, a.drawn)
    BY <2>2, <2>3
  <2>5. cells = new
    BY <2>4, PartsChanged DEF cells
  <2>6. QED BY <2>3, <2>5
<1>10. Alike(u, f[N])
  <2> DEFINE t == f[N]
  <2>1. DrawnTo(t, a, b, cells, Width * Height)
    BY <1>8 DEF N
  <2> HIDE DEF t
  <2>2. Alike(u, t)
    BY <1>9, <2>1, DrawnAll
  <2>3. QED BY <2>2 DEF t
<1>11. QED BY <1>2, <1>3, <1>9, <1>10

(* ... and changing the colour.                                              *)
LEMMA ColorStep ==
  ASSUME NEW a, NEW b, Alike(a, b), NEW k \in Nat, k < Width * Height, NEW t, NEW color,
         NEW cells, cells = [p \in Places |-> [a.cell[p] EXCEPT !.color = color]],
         DrawnTo(t, a, b, cells, k)
  PROVE  DrawnTo(Turn(4, color, t, Reading[k + 1]), a, b, cells, k + 1)
<1> DEFINE N == Width * Height
           c == Reading[k + 1]
<1>1. Width \in Nat \ {0} /\ Height \in Nat \ {0} /\ N \in Nat /\ k + 1 \in 1 .. N /\ k + 1 \in k + 1 .. N
  BY ScreenAssumption
<1>2. PICK x \in 0 .. Width - 1, y \in 0 .. Height - 1 : c = <<x, y>>
  BY <1>1, ReadingPlace
<1>3. c[1] = x /\ c[2] = y /\ c \in Places /\ <<x, y>> \in Places
  BY <1>2 DEF Places, Cols, Rows
<1>4. t.cell[c] = a.cell[c]
  BY <1>1 DEF DrawnTo
<1>5. get_char(t, x, y) = a.cell[c]
  BY <1>2, <1>3, <1>4 DEF get_char
<1>6. Turn(4, color, t, c) = set_char(t, x, y, a.cell[c].ch, color)
  BY <1>3, <1>5 DEF Turn
<1>7. a.cell[c] = Cell(a.cell[c].ch, a.cell[c].color)
  BY <1>3 DEF Alike, Celled
<1>8. \A ch, k1 : [Cell(ch, k1) EXCEPT !.color = color] = Cell(ch, color)
  BY DEF Cell
<1>9. cells[c] = Cell(a.cell[c].ch, color)
  BY <1>3, <1>7, <1>8
<1> HIDE DEF N
<1>10. cells[<<x, y>>] = Cell(a.cell[c].ch, color)
  BY <1>2, <1>9, Zenon
<1>11. DrawnTo(set_char(t, x, y, a.cell[c].ch, color), a, b, cells, k + 1)
  BY <1>2, <1>10, DrawnNext
<1>12. QED BY <1>6, <1>11

LEMMA ColorAlike ==
  ASSUME NEW a, NEW b, Alike(a, b), NEW color
  PROVE  Alike(change_screen_color(a, color), change_screen_color(b, color))
<1> DEFINE N == Width * Height
           cells == [p \in Places |-> [a.cell[p] EXCEPT !.color = color]]
           u == [a EXCEPT !.cell = cells]
<1>1. N \in Nat /\ DOMAIN Reading = 1 .. N
  BY ScreenAssumption DEF Reading
<1>2. a.cells_valid /\ ~ b.cells_valid
  BY AlikePlace
<1>3. change_screen_color(a, color) = u
  BY <1>2 DEF change_screen_color
<1>4. PICK f : Played(f, 4, color, b, Reading, N) /\ change_screen_color(b, color) = f[N]
  BY <1>1, <1>2, ChangeColorTurns
<1>5. cells = [p \in Places |-> cells[p]] /\ cells = [p \in Places |-> [a.cell[p] EXCEPT !.color = color]]
  OBVIOUS
<1> HIDE DEF cells, N
<1>6. f[0] = b /\ \A k \in 0 .. N - 1 : f[k + 1] = Turn(4, color, f[k], Reading[k + 1])
  BY <1>4 DEF Played
<1> DEFINE S == {k \in Nat : k <= N => DrawnTo(f[k], a, b, cells, k)}
<1>7. 0 \in S
  BY <1>6, DrawnFrom
<1>8. ASSUME NEW k \in Nat, k \in S PROVE k + 1 \in S
  <2>1. CASE k + 1 <= N
    <3>1. k < N /\ k <= N /\ k \in 0 .. N - 1
      BY <1>1, <2>1
    <3>2. DrawnTo(f[k], a, b, cells, k)
      BY <1>8, <3>1
    <3> DEFINE t == f[k]
    <3>3. k < Width * Height /\ DrawnTo(t, a, b, cells, k)
      BY <3>1, <3>2 DEF N
    <3> HIDE DEF t
    <3>4. DrawnTo(Turn(4, color, t, Reading[k + 1]), a, b, cells, k + 1)
      BY <1>5, <3>3, ColorStep
    <3>5. QED BY <1>6, <3>1, <3>4 DEF t
  <2>2. CASE ~ (k + 1 <= N)
    BY <2>2
  <2>3. QED BY <2>1, <2>2
<1> HIDE DEF S
<1>9. N \in S
  BY <1>1, <1>7, <1>8, SetInduction
<1> DEFINE t == f[N]
<1>10. DrawnTo(t, a, b, cells, Width * Height)
  BY <1>1, <1>9 DEF S, N
<1> HIDE DEF t
<1>11. Alike(u, t)
  BY <1>5, <1>10, DrawnAll
<1>12. QED BY <1>3, <1>4, <1>11 DEF t

LEMMA NewlineAlike ==
  ASSUME NEW a, NEW b, Alike(a, b)
  PROVE  Alike(append_newline(a), append_newline(b))
<1>1. Width \in Nat \ {0} /\ Height \in Nat \ {0}
  BY ScreenAssumption
<1>2. b.y = a.y /\ a.y \in 0 .. Height - 1
  BY AlikePlace
<1>3. 0 \in Cols /\ Height - 1 \in Rows
  BY <1>1 DEF Cols, Rows
<1>4. CASE a.y + 1 >= Height
  <2> DEFINE u == Scroll(a)
             v == Scroll(b)
  <2>1. Alike(u, v)
    BY ScrollAlike
  <2>2. /\ append_newline(a) = At(u, 0, Height - 1)
        /\ append_newline(b) = At(v, 0, Height - 1)
    BY <1>2, <1>4 DEF append_newline, At
  <2> HIDE DEF u, v
  <2>3. QED BY <1>3, <2>1, <2>2, MovedAlike
<1>5. CASE ~ (a.y + 1 >= Height)
  <2> DEFINE y == a.y + 1
  <2>1. append_newline(a) = At(a, 0, y) /\ append_newline(b) = At(b, 0, y)
    BY <1>2, <1>5 DEF append_newline, At
  <2>2. y \in Rows
    BY <1>1, <1>2, <1>5 DEF Rows
  <2> HIDE DEF y
  <2>3. QED BY <1>3, <2>1, <2>2, MovedAlike
<1>6. QED BY <1>4, <1>5

LEMMA PrintColorAlike ==
  ASSUME NEW a, NEW b, Alike(a, b), NEW str, NEW n \in Nat, DOMAIN str = 1 .. n, NEW color
  PROVE  Alike(print_color(a, str, color), print_color(b, str, color))
<1>1. PICK f : Played(f, 1, color, a, str, n) /\ print_color(a, str, color) = f[n]
  BY PrintColorTurns
<1>2. PICK g : Played(g, 1, color, b, str, n) /\ print_color(b, str, color) = g[n]
  BY PrintColorTurns
<1>3. f[0] = a /\ \A k \in 0 .. n - 1 : f[k + 1] = Turn(1, color, f[k], str[k + 1])
  BY <1>1 DEF Played
<1>4. g[0] = b /\ \A k \in 0 .. n - 1 : g[k + 1] = Turn(1, color, g[k], str[k + 1])
  BY <1>2 DEF Played
<1> DEFINE S == {k \in Nat : k <= n => Alike(f[k], g[k])}
<1>5. 0 \in S
  BY <1>3, <1>4
<1>6. ASSUME NEW t, NEW u, Alike(t, u), NEW c PROVE Alike(Turn(1, color, t, c), Turn(1, color, u, c))
  <2>1. CASE c = LF
    <3>1. Turn(1, color, t, c) = append_newline(t) /\ Turn(1, color, u, c) = append_newline(u)
      BY <2>1 DEF Turn
    <3>2. QED BY <1>6, <3>1, NewlineAlike
  <2>2. CASE c # LF
    <3>1. /\ Turn(1, color, t, c) = append_char_color(t, c, color)
          /\ Turn(1, color, u, c) = append_char_color(u, c, color)
      BY <2>2 DEF Turn
    <3>2. QED BY <1>6, <3>1, AppendColorAlike
  <2>3. QED BY <2>1, <2>2
<1>7. ASSUME NEW k \in Nat, k \in S PROVE k + 1 \in S
  <2>1. CASE k + 1 <= n
    <3>1. k <= n /\ k \in 0 .. n - 1
      BY <2>1
    <3>2. Alike(f[k], g[k])
      BY <1>7, <3>1
    <3>3. f[k + 1] = Turn(1, color, f[k], str[k + 1]) /\ g[k + 1] = Turn(1, color, g[k], str[k + 1])
      BY <1>3, <1>4, <3>1
    <3>4. Alike(f[k + 1], g[k + 1])
      BY <1>6, <3>2, <3>3
    <3>5. QED BY <3>4
  <2>2. CASE ~ (k + 1 <= n)
    BY <2>2
  <2>3. QED BY <2>1, <2>2
<1> HIDE DEF S
<1>8. n \in S
  BY <1>5, <1>7, SetInduction
<1>9. QED BY <1>1, <1>2, <1>8 DEF S

(* The drivers' own loop over a string.                                      *)
StringState(s, x, y, ok) == [s |-> s, x |-> x, y |-> y, ok |-> ok]

AlikeStates(t, u) ==
  /\ t = StringState(t.s, t.x, t.y, t.ok)
  /\ u = StringState(u.s, t.x, t.y, t.ok)
  /\ Alike(t.s, u.s)

LEMMA StringMoved ==
  ASSUME NEW s, NEW x, NEW y, NEW ok, NEW new, NEW t, t = StringState(s, x, y, ok)
  PROVE  /\ t.s = s /\ t.x = x /\ t.y = y /\ t.ok = ok
         /\ [t EXCEPT !.x = new] = StringState(s, new, y, ok)
         /\ [t EXCEPT !.y = new] = StringState(s, x, new, ok)
  BY DEF StringState

LEMMA StringParts ==
  ASSUME NEW s, NEW r, Alike(s, r), NEW x, NEW y, NEW ok,
         NEW t, t = StringState(s, x, y, ok), NEW u, u = StringState(r, x, y, ok)
  PROVE  AlikeStates(t, u)
<1>1. t.s = s /\ t.x = x /\ t.y = y /\ t.ok = ok /\ u.s = r
  BY DEF StringState
<1>2. QED BY <1>1 DEF AlikeStates

LEMMA StringStep ==
  ASSUME NEW t, NEW u, AlikeStates(t, u), NEW x0, NEW color, NEW c
  PROVE  AlikeStates(Turn(2, <<x0, color>>, t, c), Turn(2, <<x0, color>>, u, c))
<1> DEFINE arg == <<x0, color>>
<1>1. /\ t = StringState(t.s, t.x, t.y, t.ok) /\ u = StringState(u.s, t.x, t.y, t.ok)
      /\ Alike(t.s, u.s)
  BY DEF AlikeStates
<1>2. u.x = t.x /\ u.y = t.y /\ u.ok = t.ok
  BY <1>1 DEF StringState
<1>3. arg[1] = x0 /\ arg[2] = color
  OBVIOUS
<1>4. CASE ~ t.ok
  <2>1. ~ u.ok
    BY <1>2, <1>4, Zenon
  <2>2. Turn(2, arg, t, c) = t /\ Turn(2, arg, u, c) = u
    BY <1>4, <2>1 DEF Turn
  <2>3. QED BY <2>2
<1>5. CASE t.ok /\ c = LF
  <2> DEFINE y == t.y + 1
  <2>1. u.ok
    BY <1>2, <1>5, Zenon
  <2>2. Turn(2, arg, t, c) = At(t, x0, y)
    BY <1>3, <1>5 DEF Turn, At
  <2>3. Turn(2, arg, u, c) = At(u, x0, y)
    BY <1>2, <1>3, <1>5, <2>1 DEF Turn, At
  <2> HIDE DEF y
  <2>4. ASSUME NEW r, NEW s, NEW ok, r = StringState(s, t.x, t.y, ok)
        PROVE  At(r, x0, y) = StringState(s, x0, y, ok)
    <3> DEFINE m == [r EXCEPT !.x = x0]
    <3>1. m = StringState(s, x0, t.y, ok)
      BY <2>4, StringMoved
    <3>2. At(r, x0, y) = [m EXCEPT !.y = y]
      BY DEF At
    <3> HIDE DEF m
    <3>3. [m EXCEPT !.y = y] = StringState(s, x0, y, ok)
      BY <3>1, StringMoved
    <3>4. QED BY <3>2, <3>3
  <2>5. Turn(2, arg, t, c) = StringState(t.s, x0, y, t.ok)
    <3>1. At(t, x0, y) = StringState(t.s, x0, y, t.ok)
      BY <1>1, <2>4, Zenon
    <3>2. QED BY <2>2, <3>1
  <2>6. Turn(2, arg, u, c) = StringState(u.s, x0, y, t.ok)
    <3>1. At(u, x0, y) = StringState(u.s, x0, y, t.ok)
      BY <1>1, <2>4, Zenon
    <3>2. QED BY <2>3, <3>1
  <2>7. QED BY <1>1, <2>5, <2>6, StringParts
<1>6. CASE t.ok /\ c # LF
  <2> DEFINE wraps == t.x + 1 >= Width
             x == IF wraps THEN x0 ELSE t.x + 1
             y == IF wraps THEN t.y + 1 ELSE t.y
             ok == <<t.x, t.y>> \in Places /\ y < Height
             s == set_char(t.s, t.x, t.y, c, color)
             r == set_char(u.s, t.x, t.y, c, color)
  <2>1. u.ok
    BY <1>2, <1>6, Zenon
  <2>2. Turn(2, arg, t, c) = [s |-> s, x |-> x, y |-> y, ok |-> ok]
    <3>1. Turn(2, arg, t, c) =
            [s |-> set_char(t.s, t.x, t.y, c, arg[2]), x |-> IF wraps THEN arg[1] ELSE t.x + 1,
             y |-> y, ok |-> ok]
      BY <1>6 DEF Turn
    <3>2. QED BY <1>3, <3>1, Zenon
  <2>3. Turn(2, arg, u, c) = [s |-> r, x |-> x, y |-> y, ok |-> ok]
    <3>1. Turn(2, arg, u, c) =
            [s |-> set_char(u.s, u.x, u.y, c, arg[2]), x |-> IF u.x + 1 >= Width THEN arg[1] ELSE u.x + 1,
             y |-> IF u.x + 1 >= Width THEN u.y + 1 ELSE u.y,
             ok |-> <<u.x, u.y>> \in Places /\ (IF u.x + 1 >= Width THEN u.y + 1 ELSE u.y) < Height]
      BY <1>6, <2>1 DEF Turn
    <3>2. QED BY <1>2, <1>3, <3>1, Zenon
  <2>4. Alike(s, r)
    BY <1>1, SetCharAlike
  <2> HIDE DEF x, y, ok, s, r
  <2>5. Turn(2, arg, t, c) = StringState(s, x, y, ok) /\ Turn(2, arg, u, c) = StringState(r, x, y, ok)
    BY <2>2, <2>3, Zenon DEF StringState
  <2>6. QED BY <2>4, <2>5, StringParts
<1>7. QED BY <1>4, <1>5, <1>6

LEMMA SetStringAlike ==
  ASSUME NEW a, NEW b, Alike(a, b), NEW str, NEW n \in Nat, DOMAIN str = 1 .. n,
         NEW x, NEW y, NEW color
  PROVE  Alike(set_string(a, x, y, str, color), set_string(b, x, y, str, color))
<1> DEFINE arg == <<x, color>>
<1>1. PICK f : /\ Played(f, 2, <<x, color>>, [s |-> a, x |-> x, y |-> y, ok |-> TRUE], str, n)
               /\ set_string(a, x, y, str, color) = f[n].s
  BY SetStringTurns
<1>2. PICK g : /\ Played(g, 2, <<x, color>>, [s |-> b, x |-> x, y |-> y, ok |-> TRUE], str, n)
               /\ set_string(b, x, y, str, color) = g[n].s
  BY SetStringTurns
<1>3. /\ f[0] = StringState(a, x, y, InMemory)
      /\ \A k \in 0 .. n - 1 : f[k + 1] = Turn(2, <<x, color>>, f[k], str[k + 1])
  BY <1>1, Zenon DEF Played, StringState, InMemory
<1>4. /\ g[0] = StringState(b, x, y, InMemory)
      /\ \A k \in 0 .. n - 1 : g[k + 1] = Turn(2, <<x, color>>, g[k], str[k + 1])
  BY <1>2, Zenon DEF Played, StringState, InMemory
<1> HIDE DEF arg
<1> DEFINE S == {k \in Nat : k <= n => AlikeStates(f[k], g[k])}
<1>5. 0 \in S
  BY <1>3, <1>4, StringParts
<1>6. ASSUME NEW k \in Nat, k \in S PROVE k + 1 \in S
  <2>1. CASE k + 1 <= n
    <3>1. k <= n /\ k \in 0 .. n - 1
      BY <2>1
    <3>2. AlikeStates(f[k], g[k])
      BY <1>6, <3>1
    <3>3. AlikeStates(Turn(2, <<x, color>>, f[k], str[k + 1]), Turn(2, <<x, color>>, g[k], str[k + 1]))
      BY <3>2, StringStep
    <3>4. AlikeStates(f[k + 1], g[k + 1])
      BY <1>3, <1>4, <3>1, <3>3
    <3>5. QED BY <3>4
  <2>2. CASE ~ (k + 1 <= n)
    BY <2>2
  <2>3. QED BY <2>1, <2>2
<1> HIDE DEF S
<1>7. n \in S
  BY <1>5, <1>6, SetInduction
<1>8. AlikeStates(f[n], g[n])
  BY <1>7 DEF S
<1>9. QED BY <1>1, <1>2, <1>8 DEF AlikeStates

(* Clearing makes any two screens alike: a cell of the drawing driver that is *)
(* filled with its background looks like one that shows a space.             *)
LEMMA ClearAlike ==
  ASSUME NEW x, NEW y, NEW ca, NEW cell, NEW da, NEW i, NEW j, NEW cb, NEW old, NEW db,
         NEW a, a = Parts(InMemory, x, y, ca, cell, da),
         NEW b, b = Parts(InDriver, i, j, cb, old, db)
  PROVE  Alike(clear_screen(a), clear_screen(b))
<1> DEFINE cells == Empty(DefaultColor)
           filled == [p \in Places |->
                        [Drawing(NUL, DefaultColor) EXCEPT !.fg = Drawing(NUL, DefaultColor).bg]]
           t == text_clear_screen(a, DefaultColor)
           u == bitmap_clear_screen(b, DefaultColor)
<1>1. a.cells_valid = InMemory /\ b.cells_valid = InDriver
  BY PartsChanged
<1>2. a.cells_valid /\ ~ b.cells_valid
  BY OnText, OnBitmap
<1>3. Celled(cells)
  <2>1. \A ch, color : Cell(ch, color).ch = ch /\ Cell(ch, color).color = color
    BY DEF Cell
  <2>2. cells = [p \in Places |-> Cell(NUL, DefaultColor)]
    BY DEF Empty, Cell
  <2> HIDE DEF cells
  <2>3. \A p \in Places : cells[p] = Cell(NUL, DefaultColor)
    BY <2>2
  <2>4. \A p \in Places : Cell(cells[p].ch, cells[p].color) = Cell(NUL, DefaultColor)
    BY <2>1, <2>3
  <2>5. [p \in Places |-> Cell(cells[p].ch, cells[p].color)] = [p \in Places |-> Cell(NUL, DefaultColor)]
    BY <2>4
  <2>6. QED BY <2>2, <2>5 DEF Celled
<1>4. Drawn(cells, filled)
  <2>1. \A p \in Places : cells[p].ch = NUL /\ cells[p].color = DefaultColor
    BY DEF Empty
  <2>2. Drawing(NUL, DefaultColor).glyph = Blank
    BY DEF Drawing, letter_bitmap, Controls
  <2> DEFINE d == Drawing(NUL, DefaultColor)
             e == [d EXCEPT !.fg = d.bg]
  <2>3. d = [glyph |-> d.glyph, fg |-> d.fg, bg |-> d.bg]
    BY DEF Drawing
  <2>4. filled = [p \in Places |-> filled[p]] /\ \A p \in Places : filled[p] = e
    OBVIOUS
  <2> HIDE DEF d
  <2>5. e.glyph = d.glyph /\ e.bg = d.bg /\ [e EXCEPT !.fg = e.bg] = [d EXCEPT !.fg = d.bg]
    BY <2>3
  <2>6. d.glyph = Blank
    BY <2>2 DEF d
  <2>7. Visible(e) = Visible(d)
    BY <2>5, <2>6 DEF Visible
  <2> HIDE DEF filled, cells, e
  <2>8. \A p \in Places : Visible(filled[p]) = Visible(Drawing(cells[p].ch, cells[p].color))
    BY <2>1, <2>4, <2>7 DEF d
  <2>9. QED BY <2>4, <2>8 DEF Drawn
<1>5. t = Parts(InMemory, x, y, ca, cells, da)
  <2>1. t = Parts(a.cells_valid, a.x, a.y, a.cursor, cells, a.drawn)
    BY DEF text_clear_screen, Parts
  <2>2. a.x = x /\ a.y = y /\ a.cursor = ca /\ a.drawn = da
    BY PartsChanged
  <2>3. QED BY <1>1, <2>1, <2>2, Zenon
<1>6. u = Parts(InDriver, i, j, cb, cells, filled)
  <2>1. u = Parts(b.cells_valid, b.x, b.y, b.cursor, cells, filled)
    BY DEF bitmap_clear_screen, Parts
  <2>2. b.x = i /\ b.y = j /\ b.cursor = cb
    BY PartsChanged
  <2>3. QED BY <1>1, <2>1, <2>2, Zenon
<1>7. /\ clear_screen(a) = set_cursor_position(At(t, 0, 0), 0, 0)
      /\ clear_screen(b) = set_cursor_position(At(u, 0, 0), 0, 0)
  BY <1>2 DEF clear_screen, At
<1> HIDE DEF cells, filled, t, u
<1>8. At(t, 0, 0) = Parts(InMemory, 0, 0, ca, cells, da)
  <2> DEFINE r == [t EXCEPT !.x = 0]
  <2>1. r = Parts(InMemory, 0, y, ca, cells, da)
    BY <1>5, PartsChanged
  <2>2. At(t, 0, 0) = [r EXCEPT !.y = 0]
    BY DEF At
  <2> HIDE DEF r
  <2>3. QED BY <2>1, <2>2, PartsChanged
<1>9. At(u, 0, 0) = Parts(InDriver, 0, 0, cb, cells, filled)
  <2> DEFINE r == [u EXCEPT !.x = 0]
  <2>1. r = Parts(InDriver, 0, j, cb, cells, filled)
    BY <1>6, PartsChanged
  <2>2. At(u, 0, 0) = [r EXCEPT !.y = 0]
    BY DEF At
  <2> HIDE DEF r
  <2>3. QED BY <2>1, <2>2, PartsChanged
<1>10. 0 \in Cols /\ 0 \in Rows
  BY ScreenAssumption DEF Cols, Rows
<1> DEFINE m == At(t, 0, 0)
           n == At(u, 0, 0)
<1>11. m = Parts(InMemory, 0, 0, ca, cells, da) /\ n = Parts(InDriver, 0, 0, cb, cells, filled)
  BY <1>8, <1>9
<1> HIDE DEF m, n
<1>12. Alike(m, n)
  BY <1>3, <1>4, <1>10, <1>11, AlikeParts
<1>13. QED BY <1>7, <1>12, CursorAlike DEF m, n

-----------------------------------------------------------------------------
(* The terminal keeps its screens alike through all it shows.                *)
TermParts(text, bitmap, color) == [text |-> text, bitmap |-> bitmap, color |-> color]

TermAlike(t) == t = TermParts(t.text, t.bitmap, t.color) /\ Alike(t.text, t.bitmap)

LEMMA TermPartsAlike ==
  ASSUME NEW a, NEW b, Alike(a, b), NEW color, NEW new, NEW t, t = TermParts(a, b, color)
  PROVE  /\ TermAlike(t) /\ t.text = a /\ t.bitmap = b /\ t.color = color
         /\ [t EXCEPT !.color = new] = TermParts(a, b, new)
<1>1. t.text = a /\ t.bitmap = b /\ t.color = color /\ [t EXCEPT !.color = new] = TermParts(a, b, new)
  BY DEF TermParts
<1>2. QED BY <1>1 DEF TermAlike

Printed(t, str, color) ==
  TermParts(print_color(t.text, str, color), print_color(t.bitmap, str, color), t.color)

LEMMA PrintAlike ==
  ASSUME NEW t, TermAlike(t), NEW str, NEW n \in Nat, DOMAIN str = 1 .. n, NEW color
  PROVE  TermAlike(Printed(t, str, color))
<1> DEFINE a == print_color(t.text, str, color)
           b == print_color(t.bitmap, str, color)
           u == Printed(t, str, color)
<1>1. Alike(a, b)
  BY PrintColorAlike DEF TermAlike
<1>2. u = TermParts(a, b, t.color)
  BY DEF Printed
<1> HIDE DEF a, b, u
<1>3. TermAlike(u)
  BY <1>1, <1>2, TermPartsAlike
<1>4. QED BY <1>3 DEF u

LEMMA AlikePrintf ==
  ASSUME NEW a, NEW b, Alike(a, b), NEW c
  PROVE  Alike(printf_c(a, c), printf_c(b, c))
<1>1. CASE c = LF
  <2> DEFINE t == append_newline(a)
             u == append_newline(b)
  <2>1. Alike(t, u)
    BY NewlineAlike
  <2>2. printf_c(a, c) = append_char(t, c) /\ printf_c(b, c) = append_char(u, c)
    BY <1>1 DEF printf_c, LF, BS
  <2> HIDE DEF t, u
  <2>3. QED BY <2>1, <2>2, AppendCharAlike
<1>2. CASE c # LF /\ c = BS
  <2>1. printf_c(a, c) = append_backspace(a) /\ printf_c(b, c) = append_backspace(b)
    BY <1>2 DEF printf_c
  <2>2. QED BY <2>1, BackspaceAlike
<1>3. CASE c # LF /\ c # BS
  <2>1. printf_c(a, c) = append_char(a, c) /\ printf_c(b, c) = append_char(b, c)
    BY <1>3 DEF printf_c
  <2>2. QED BY <2>1, AppendCharAlike
<1>4. QED BY <1>1, <1>2, <1>3

(* The echoes of a key.                                                      *)
LEMMA EchoAlike ==
  ASSUME NEW t, TermAlike(t), NEW read, NEW ch
  PROVE  TermAlike(InputEcho(t, read, ch)) /\ TermAlike(TerminalEcho(t, read, ch))
<1> DEFINE e == Show(t, LAMBDA s : printf_c(s, ch))
<1>1. TermAlike(e)
  <2> DEFINE a == printf_c(t.text, ch)
             b == printf_c(t.bitmap, ch)
  <2>1. Alike(a, b)
    BY AlikePrintf DEF TermAlike
  <2>2. e = TermParts(a, b, t.color)
    BY DEF Show, TermParts
  <2> HIDE DEF a, b, e
  <2>3. QED BY <2>1, <2>2, TermPartsAlike
<1>2. ASSUME NEW r, TermAlike(r) PROVE TermAlike(Show(r, append_newline))
  <2> DEFINE a == append_newline(r.text)
             b == append_newline(r.bitmap)
             u == Show(r, append_newline)
  <2>1. Alike(a, b)
    BY <1>2, NewlineAlike DEF TermAlike
  <2>2. u = TermParts(a, b, r.color)
    BY DEF Show, TermParts
  <2> HIDE DEF a, b, u
  <2>3. TermAlike(u)
    BY <2>1, <2>2, TermPartsAlike
  <2>4. QED BY <2>3 DEF u
<1>3. InputEcho(t, read, ch) \in {t, e, Show(t, append_newline), Show(e, append_newline)}
  BY DEF InputEcho
<1>4. DOMAIN <<Blank>> = 1 .. 1 /\ DOMAIN <<ch>> = 1 .. 1 /\ 1 \in Nat
  OBVIOUS
<1>5. TerminalEcho(t, read, ch) \in
        {t, Printed(t, <<Blank>>, DefaultColor), Printed(t, <<ch>>, DefaultColor)}
  BY DEF TerminalEcho, Show, Printed, TermParts
<1>6. TermAlike(Printed(t, <<Blank>>, DefaultColor))
  BY <1>4, PrintAlike
<1>7. TermAlike(Printed(t, <<ch>>, DefaultColor))
  BY <1>4, PrintAlike
<1> HIDE DEF e
<1>8. QED BY <1>1, <1>2, <1>3, <1>5, <1>6, <1>7

(* What programs write, a turn of the loop at a time.                        *)
LEMMA CStringIsString ==
  ASSUME NEW C, NEW str \in Seq(C)
  PROVE  \E n \in Nat : DOMAIN CString(str) = 1 .. n
<1> DEFINE ends == {i \in 1 .. Len(str) : str[i] = NUL}
           first == CHOOSE i \in ends : \A j \in ends : i <= j
<1>1. Len(str) \in Nat /\ str \in [1 .. Len(str) -> C]
  BY LenProperties
<1>2. CASE ends = {}
  BY <1>1, <1>2 DEF CString
<1>3. CASE ends # {}
  <2>1. ends \subseteq Nat
    BY <1>1
  <2>2. \E i \in ends : \A j \in ends : i <= j
    BY <1>3, <2>1, LeastNumber
  <2>3. first \in ends
    BY <2>2
  <2>4. first \in 1 .. Len(str)
    BY <2>3
  <2>5. CString(str) = SubSeq(str, 1, first - 1)
    BY <1>3 DEF CString
  <2> HIDE DEF first
  <2>6. first - 1 \in Nat
    BY <1>1, <2>4
  <2>7. DOMAIN SubSeq(str, 1, first - 1) = 1 .. first - 1
    BY <1>1, <2>4, <2>6
  <2>8. QED BY <2>5, <2>6, <2>7
<1>4. QED BY <1>2, <1>3

WriteParts(t, segment, next) == [term |-> t, segment |-> segment, next |-> next]

Writing(w, C) ==
  /\ w = WriteParts(w.term, w.segment, w.next)
  /\ TermAlike(w.term)
  /\ w.segment \in Seq(C)

LEMMA WritePartsWriting ==
  ASSUME NEW C, NEW t, TermAlike(t), NEW segment \in Seq(C), NEW next, NEW new,
         NEW w, w = WriteParts(t, segment, next)
  PROVE  /\ Writing(w, C) /\ w.term = t /\ w.segment = segment /\ w.next = next
         /\ [w EXCEPT !.term = new] = WriteParts(new, segment, next)
         /\ [w EXCEPT !.segment = new] = WriteParts(t, new, next)
         /\ [w EXCEPT !.next = new] = WriteParts(t, segment, new)
<1>1. w.term = t /\ w.segment = segment /\ w.next = next
  BY DEF WriteParts
<1>2. /\ [w EXCEPT !.term = new] = WriteParts(new, segment, next)
      /\ [w EXCEPT !.segment = new] = WriteParts(t, new, next)
      /\ [w EXCEPT !.next = new] = WriteParts(t, segment, new)
  BY DEF WriteParts
<1>3. QED BY <1>1, <1>2 DEF Writing

LEMMA FlushAlike ==
  ASSUME NEW C, NEW w, Writing(w, C)
  PROVE  Writing(flush_segment(w), C)
<1> DEFINE t == Printed(w.term, CString(w.segment), w.term.color)
           u == [w EXCEPT !.term = t]
           v == [u EXCEPT !.segment = <<>>]
<1>1. PICK n \in Nat : DOMAIN CString(w.segment) = 1 .. n
  BY CStringIsString DEF Writing
<1> DEFINE str == CString(w.segment)
           color == w.term.color
<1>2. TermAlike(t)
  <2>1. TermAlike(w.term) /\ DOMAIN str = 1 .. n
    BY <1>1 DEF Writing
  <2> HIDE DEF str, color
  <2>2. TermAlike(Printed(w.term, str, color))
    BY <2>1, PrintAlike
  <2>3. QED BY <2>2 DEF str, color
<1>3. flush_segment(w) = v
  BY DEF flush_segment, Show, Printed, TermParts
<1> HIDE DEF t
<1>4. w = WriteParts(w.term, w.segment, w.next) /\ TermAlike(w.term) /\ w.segment \in Seq(C)
  BY DEF Writing
<1>5. u = WriteParts(t, w.segment, w.next)
  BY <1>4, WritePartsWriting
<1> HIDE DEF u
<1>6. v = WriteParts(t, <<>>, w.next)
  BY <1>2, <1>4, <1>5, WritePartsWriting
<1>7. <<>> \in Seq(C)
  BY EmptySeq
<1> HIDE DEF v
<1>8. Writing(v, C)
  BY <1>2, <1>6, <1>7, WritePartsWriting
<1>9. QED BY <1>3, <1>8

LEMMA WriteTurnAlike ==
  ASSUME NEW C, NEW buffer, NEW w, Writing(w, C), NEW i, buffer[i] \in C
  PROVE  Writing(WriteTurn(buffer, w, i), C)
<1>1. CASE i < w.next
  BY <1>1 DEF WriteTurn
<1>2. CASE ~ (i < w.next) /\ buffer[i] = ESC /\ i < Len(buffer) /\ buffer[i + 1] = "["
  <2> DEFINE j == Terminator(buffer, i + 2)
             e == flush_segment(w)
             f == [e EXCEPT !.next = j + 1]
             codes == Codes(SubSeq(buffer, i + 2, j - 1))
             color == NewColor(f.term.color, codes)
             t == [f.term EXCEPT !.color = color]
             g == [f EXCEPT !.term = t]
  <2>1. WriteTurn(buffer, w, i) = IF j <= Len(buffer) /\ buffer[j] = "m" THEN g ELSE f
    BY <1>2 DEF WriteTurn
  <2>2. Writing(e, C)
    BY FlushAlike
  <2> DEFINE next == j + 1
  <2>3. f = [e EXCEPT !.next = next]
    OBVIOUS
  <2> HIDE DEF e, j, next, f
  <2>4. e = WriteParts(e.term, e.segment, e.next) /\ TermAlike(e.term) /\ e.segment \in Seq(C)
    BY <2>2 DEF Writing
  <2>5. f = WriteParts(e.term, e.segment, next) /\ TermAlike(e.term) /\ e.segment \in Seq(C)
    BY <2>3, <2>4, WritePartsWriting
  <2>6. Writing(f, C) /\ f.term = e.term
    BY <2>5, WritePartsWriting
  <2> HIDE DEF color
  <2>7. f.term = TermParts(f.term.text, f.term.bitmap, f.term.color) /\ Alike(f.term.text, f.term.bitmap)
    BY <2>5, <2>6 DEF TermAlike
  <2>8. t = TermParts(f.term.text, f.term.bitmap, color) /\ Alike(f.term.text, f.term.bitmap)
    BY <2>7, TermPartsAlike
  <2> HIDE DEF t
  <2>9. TermAlike(t)
    BY <2>8, TermPartsAlike
  <2>10. g = WriteParts(t, e.segment, next)
    BY <2>5, WritePartsWriting
  <2> HIDE DEF g
  <2>11. Writing(g, C)
    BY <2>5, <2>9, <2>10, WritePartsWriting
  <2>12. QED BY <2>1, <2>6, <2>11
<1>3. CASE ~ (i < w.next) /\ ~ (buffer[i] = ESC /\ i < Len(buffer) /\ buffer[i + 1] = "[")
  <2> DEFINE segment == Append(w.segment, buffer[i])
             t == [w EXCEPT !.segment = segment]
  <2>1. WriteTurn(buffer, w, i) \in {t, flush_segment(t)}
    BY <1>3 DEF WriteTurn
  <2>2. segment \in Seq(C)
    BY AppendProperties DEF Writing
  <2> HIDE DEF segment
  <2>3. w = WriteParts(w.term, w.segment, w.next) /\ TermAlike(w.term) /\ w.segment \in Seq(C)
    BY DEF Writing
  <2>4. t = WriteParts(w.term, segment, w.next) /\ TermAlike(w.term)
    BY <2>3, WritePartsWriting
  <2> HIDE DEF t
  <2>5. Writing(t, C)
    BY <2>2, <2>4, WritePartsWriting
  <2>6. QED BY <2>1, <2>5, FlushAlike
<1>4. QED BY <1>1, <1>2, <1>3

LEMMA WrittenAlike ==
  ASSUME NEW t, TermAlike(t), NEW C, NEW buffer \in Seq(C)
  PROVE  TermAlike(terminal_write(t, buffer))
<1>1. Len(buffer) \in Nat /\ DOMAIN buffer = 1 .. Len(buffer) /\ \A i \in 1 .. Len(buffer) : buffer[i] \in C
  BY LenProperties, ElementOfSeq
<1> DEFINE n == Len(buffer)
<1> HIDE DEF n
<1>2. n \in Nat /\ DOMAIN buffer = 1 .. n /\ \A i \in 1 .. n : buffer[i] \in C
  BY <1>1 DEF n
<1>3. PICK g : /\ g[0] = [term |-> t, segment |-> <<>>, next |-> 1]
               /\ \A k \in 0 .. n - 1 : g[k + 1] = WriteTurn(buffer, g[k], k + 1)
               /\ terminal_write(t, buffer) = flush_segment(g[n]).term
  BY <1>2, TerminalTurns
<1> DEFINE S == {k \in Nat : k <= n => Writing(g[k], C)}
<1>4. 0 \in S
  <2>1. g[0] = WriteParts(t, <<>>, 1) /\ <<>> \in Seq(C)
    BY <1>3, EmptySeq DEF WriteParts
  <2> DEFINE w == g[0]
  <2>2. w = WriteParts(t, <<>>, 1)
    BY <2>1
  <2> HIDE DEF w
  <2>3. Writing(w, C)
    BY <2>1, <2>2, WritePartsWriting
  <2>4. QED BY <2>3 DEF w
<1>5. ASSUME NEW k \in Nat, k \in S PROVE k + 1 \in S
  <2>1. CASE k + 1 <= n
    <3>1. k <= n /\ k \in 0 .. n - 1 /\ k + 1 \in 1 .. n
      BY <1>2, <2>1
    <3>2. Writing(g[k], C) /\ buffer[k + 1] \in C
      BY <1>2, <1>5, <3>1
    <3>3. Writing(WriteTurn(buffer, g[k], k + 1), C)
      BY <3>2, WriteTurnAlike
    <3>4. QED BY <1>3, <3>1, <3>3
  <2>2. CASE ~ (k + 1 <= n)
    BY <2>2
  <2>3. QED BY <2>1, <2>2
<1> HIDE DEF S
<1>6. n \in S
  BY <1>2, <1>4, <1>5, SetInduction
<1>7. Writing(g[n], C)
  BY <1>2, <1>6 DEF S
<1>8. Writing(flush_segment(g[n]), C)
  BY <1>7, FlushAlike
<1>9. QED BY <1>3, <1>8 DEF Writing

(* A packet of the teletype.                                                 *)
LEMMA PacketAlike ==
  ASSUME NEW t, TermAlike(t), NEW packet, NEW n \in Nat, DOMAIN packet.buffer = 1 .. n
  PROVE  TermAlike(teletype_write(t, packet))
<1> DEFINE color == IF packet.with_color THEN packet.color ELSE DefaultColor
           place == IF packet.x + Len(packet.buffer) >= Width
                    THEN <<0, packet.y + 1>> ELSE <<packet.x + Len(packet.buffer), packet.y>>
           Sent(s) == set_string(s, packet.x, packet.y, packet.buffer, color)
           a == Sent(t.text)
           b == Sent(t.bitmap)
           u == set_cursor_position(a, place[1], place[2])
           v == set_cursor_position(b, place[1], place[2])
           sent == teletype_write(t, packet)
<1>1. sent = IF packet.move_cursor THEN TermParts(u, v, t.color) ELSE TermParts(a, b, t.color)
  BY DEF teletype_write, Show, TermParts
<1> HIDE DEF color
<1>2. Alike(a, b)
  BY SetStringAlike DEF TermAlike
<1> HIDE DEF a, b
<1>3. Alike(u, v)
  BY <1>2, CursorAlike
<1> HIDE DEF u, v, sent
<1>4. TermAlike(sent)
  BY <1>1, <1>2, <1>3, TermPartsAlike
<1>5. QED BY <1>4 DEF sent

-----------------------------------------------------------------------------
(* The actions that show something.                                          *)
LEMMA ClearedAlike ==
  ASSUME NEW a, NEW b, Alike(a, b)
  PROVE  Alike(clear_screen(a), clear_screen(b))
<1>1. /\ a = Parts(InMemory, a.x, a.y, a.cursor, a.cell, a.drawn)
      /\ b = Parts(InDriver, a.x, a.y, b.cursor, a.cell, b.drawn)
  BY DEF Alike
<1>2. QED BY <1>1, ClearAlike

LEMMA InitAlike == ConsoleInit => TermAlike(term)
<1> SUFFICES ASSUME ConsoleInit PROVE TermAlike(term)
  OBVIOUS
<1> DEFINE cell == [p \in Places |-> [ch |-> NUL, color |-> DefaultColor]]
           drawn == [p \in Places |-> Drawing(NUL, DefaultColor)]
           place == <<0, 0>>
           a == Parts(InMemory, 0, 0, place, cell, drawn)
           b == Parts(InDriver, 0, 0, place, cell, drawn)
           c == clear_screen(a)
           d == clear_screen(b)
<1>1. term = TermParts(Cleared(InMemory), Cleared(InDriver), AnsiDefault)
  BY Zenon DEF ConsoleInit, TermParts, InMemory, InDriver
<1>2. Cleared(InMemory) = c /\ Cleared(InDriver) = d
  BY DEF Cleared, Parts
<1> HIDE DEF cell, drawn, place
<1>3. a = Parts(InMemory, 0, 0, place, cell, drawn) /\ b = Parts(InDriver, 0, 0, place, cell, drawn)
  OBVIOUS
<1> HIDE DEF a, b
<1>4. Alike(c, d)
  BY <1>3, ClearAlike
<1> HIDE DEF c, d
<1>5. QED BY <1>1, <1>2, <1>4, TermPartsAlike

LEMMA AskedAlike ==
  ASSUME TermAlike(term), main
  PROVE  TermAlike(term')
<1> DEFINE a == clear_screen(term.text)
           b == clear_screen(term.bitmap)
           c == append_char(a, ">")
           d == append_char(b, ">")
<1>1. term' = Show(Show(term, clear_screen), LAMBDA s : print(s, Prompt))
  BY DEF main
<1>2. term' = TermParts(print(a, Prompt), print(b, Prompt), term.color)
  BY <1>1 DEF Show, TermParts
<1>3. Alike(a, b)
  BY ClearedAlike DEF TermAlike
<1>4. ">" # LF /\ ">" # BS /\ Prompt = <<">">>
  BY DEF LF, BS, Prompt
<1>5. print(a, Prompt) = c /\ print(b, Prompt) = d
  BY <1>4, PrintOne
<1>6. Alike(c, d)
  BY <1>3, AppendCharAlike
<1> HIDE DEF a, b, c, d
<1>7. QED BY <1>2, <1>5, <1>6, TermPartsAlike

LEMMA PanicAlike ==
  ASSUME TermAlike(term), Panic
  PROVE  TermAlike(term')
<1> DEFINE a == change_screen_color(clear_screen(term.text), 31)
           b == change_screen_color(clear_screen(term.bitmap), 31)
           t == TermParts(a, b, term.color)
<1>1. term' = Show(term, LAMBDA s : print_color(change_screen_color(clear_screen(s), 31), Prompt, 113))
  BY DEF Panic
<1>2. term' = TermParts(print_color(a, Prompt, 113), print_color(b, Prompt, 113), term.color)
  BY <1>1 DEF Show, TermParts
<1>3. Alike(a, b)
  BY ClearedAlike, ColorAlike DEF TermAlike
<1> HIDE DEF a, b
<1>4. DOMAIN Prompt = 1 .. 1 /\ 1 \in Nat
  BY DEF Prompt
<1> DEFINE c == print_color(a, Prompt, 113)
           d == print_color(b, Prompt, 113)
<1>5. Alike(c, d)
  BY <1>3, <1>4, PrintColorAlike
<1> HIDE DEF c, d
<1>6. term' = TermParts(c, d, term.color)
  BY <1>2 DEF c, d
<1>7. QED BY <1>5, <1>6, TermPartsAlike

LEMMA NextAlike == TermAlike(term) /\ [ConsoleNext]_allVars => TermAlike(term')
<1> SUFFICES ASSUME TermAlike(term), [ConsoleNext]_allVars
             PROVE  TermAlike(term')
  OBVIOUS
<1>1. CASE main
  BY <1>1, AskedAlike
<1>2. ASSUME NEW r \in Reads, terminal_read(r.kind, r.size) PROVE TermAlike(term')
  BY <1>2 DEF terminal_read
<1>3. ASSUME NEW buffer \in Writes, Write(buffer) PROVE TermAlike(term')
  <2>1. buffer \in Seq(Range(buffer))
    BY ConsoleAssumption
  <2>2. term' = terminal_write(term, buffer)
    BY <1>3 DEF Write
  <2>3. QED BY <2>1, <2>2, WrittenAlike
<1>4. ASSUME NEW packet \in Packets, WritePacket(packet) PROVE TermAlike(term')
  <2> DEFINE str == packet.buffer
  <2>1. str \in Seq(Range(str))
    BY ConsoleAssumption
  <2>2. Len(str) \in Nat /\ DOMAIN str = 1 .. Len(str)
    BY <2>1, LenProperties
  <2>3. term' = teletype_write(term, packet)
    BY <1>4 DEF WritePacket
  <2>4. QED BY <2>2, <2>3, PacketAlike
<1>5. CASE Panic
  BY <1>5, PanicAlike
<1>6. CASE ReadKey
  <2> DEFINE ch == CharOf(simple.char)
  <2>1. term' = InputEcho(term, reader, ch) \/ term' = TerminalEcho(term, reader, ch)
    BY <1>6 DEF ReadKey
  <2> HIDE DEF ch
  <2>2. QED BY <2>1, EchoAlike
<1>7. CASE UNCHANGED consoleVars
  BY <1>7 DEF consoleVars
<1>8. QED
  BY <1>1, <1>2, <1>3, <1>4, <1>5, <1>6, <1>7 DEF ConsoleNext, AskKey, allVars

(* The two branches of display.c have the same effect, whatever programs     *)
(* write to the terminal and to the teletype, lines that are typed and       *)
(* faults that are painted: scrolling and changing colours cell after cell   *)
(* through the driver comes to what is done at once in memory, in a mode of  *)
(* any size, and the frame buffer shows the driver's cells.                  *)
THEOREM BranchesAreAlike == ConsoleSpec => []BranchesAgree
<1> DEFINE Inv == TermAlike(term)
<1>1. ConsoleInit => Inv
  BY InitAlike
<1>2. Inv /\ [ConsoleNext]_allVars => Inv'
  BY NextAlike
<1>3. Inv => BranchesAgree
  <2>1. SUFFICES ASSUME Inv PROVE BranchesAgree
    OBVIOUS
  <2> DEFINE a == term.text
             b == term.bitmap
  <2>2. Alike(a, b)
    BY <2>1 DEF TermAlike
  <2>3. b.cell = a.cell /\ b.x = a.x /\ b.y = a.y
    BY <2>2, AlikePlace
  <2>4. \A p \in Places : Visible(b.drawn[p]) = Visible(Drawing(b.cell[p].ch, b.cell[p].color))
    BY <2>2, <2>3 DEF Alike, Drawn
  <2>5. QED BY <2>3, <2>4 DEF BranchesAgree
<1> HIDE DEF Inv
<1>4. QED BY <1>1, <1>2, <1>3, PTL DEF ConsoleSpec

-----------------------------------------------------------------------------
(* Writing in pieces.  print_color prints character after character ...      *)
LEMMA PrintedMore ==
  ASSUME NEW C, NEW str \in Seq(C), NEW c \in C, NEW s, NEW color
  PROVE  print_color(s, Append(str, c), color) = Turn(1, color, print_color(s, str, color), c)
<1> DEFINE n == Len(str)
           more == Append(str, c)
<1>1. /\ n \in Nat /\ DOMAIN str = 1 .. n /\ DOMAIN more = 1 .. n + 1 /\ more[n + 1] = c
      /\ \A i \in 1 .. n : more[i] = str[i]
  BY LenProperties, AppendProperties
<1> HIDE DEF n, more
<1>2. n + 1 \in Nat
  BY <1>1
<1>3. PICK f : Played(f, 1, color, s, str, n) /\ print_color(s, str, color) = f[n]
  BY <1>1, PrintColorTurns
<1>4. PICK g : Played(g, 1, color, s, more, n + 1) /\ print_color(s, more, color) = g[n + 1]
  BY <1>1, <1>2, PrintColorTurns
<1>5. f[0] = s /\ \A k \in 0 .. n - 1 : f[k + 1] = Turn(1, color, f[k], str[k + 1])
  BY <1>3 DEF Played
<1>6. g[0] = s /\ \A k \in 0 .. n : g[k + 1] = Turn(1, color, g[k], more[k + 1])
  <2>1. (n + 1) - 1 = n
    BY <1>1
  <2>2. QED BY <1>4, <2>1 DEF Played
<1> DEFINE S == {k \in Nat : k <= n => f[k] = g[k]}
<1>7. 0 \in S
  BY <1>5, <1>6
<1>8. ASSUME NEW k \in Nat, k \in S PROVE k + 1 \in S
  <2>1. CASE k + 1 <= n
    <3>1. k <= n /\ k \in 0 .. n - 1 /\ k \in 0 .. n /\ k + 1 \in 1 .. n
      BY <1>1, <2>1
    <3>2. f[k] = g[k] /\ more[k + 1] = str[k + 1]
      BY <1>1, <1>8, <3>1
    <3>3. f[k + 1] = g[k + 1]
      BY <1>5, <1>6, <3>1, <3>2
    <3>4. QED BY <3>3
  <2>2. CASE ~ (k + 1 <= n)
    BY <2>2
  <2>3. QED BY <2>1, <2>2
<1> HIDE DEF S
<1>9. n \in S
  BY <1>1, <1>7, <1>8, SetInduction
<1>10. f[n] = g[n]
  BY <1>1, <1>9 DEF S
<1>11. g[n + 1] = Turn(1, color, g[n], c)
  BY <1>1, <1>6
<1>12. QED BY <1>3, <1>4, <1>10, <1>11 DEF more

LEMMA PrintedNothing ==
  ASSUME NEW s, NEW color
  PROVE  print_color(s, <<>>, color) = s
<1> DEFINE none == <<>>
           n == 0
<1>1. DOMAIN none = 1 .. n /\ n \in Nat
  OBVIOUS
<1> HIDE DEF none, n
<1>2. PICK f : Played(f, 1, color, s, none, n) /\ print_color(s, none, color) = f[n]
  BY <1>1, PrintColorTurns
<1>3. f[0] = s
  BY <1>2 DEF Played
<1>4. QED BY <1>2, <1>3 DEF none, n

LEMMA CStringWhole ==
  ASSUME NEW C, NUL \notin C, NEW str \in Seq(C)
  PROVE  CString(str) = str
<1>1. \A i \in 1 .. Len(str) : str[i] \in C
  BY ElementOfSeq
<1>2. {i \in 1 .. Len(str) : str[i] = NUL} = {}
  BY <1>1
<1>3. QED BY <1>2 DEF CString

(* ... so terminal_write's segment cannot be seen: a turn of its loop does to *)
(* what is shown when the segment is flushed what it would without one.      *)
Formed(t) == t = TermParts(t.text, t.bitmap, t.color)

LEMMA FormedParts ==
  ASSUME NEW a, NEW b, NEW color, NEW new, NEW t, t = TermParts(a, b, color)
  PROVE  /\ Formed(t) /\ t.text = a /\ t.bitmap = b /\ t.color = color
         /\ [t EXCEPT !.color = new] = TermParts(a, b, new)
<1>1. t.text = a /\ t.bitmap = b /\ t.color = color /\ [t EXCEPT !.color = new] = TermParts(a, b, new)
  BY DEF TermParts
<1>2. QED BY <1>1 DEF Formed

Held(w, C) ==
  /\ w = WriteParts(w.term, w.segment, w.next)
  /\ Formed(w.term)
  /\ w.segment \in Seq(C)

LEMMA HeldParts ==
  ASSUME NEW C, NEW t, Formed(t), NEW segment \in Seq(C), NEW next, NEW new,
         NEW w, w = WriteParts(t, segment, next)
  PROVE  /\ Held(w, C) /\ w.term = t /\ w.segment = segment /\ w.next = next
         /\ [w EXCEPT !.term = new] = WriteParts(new, segment, next)
         /\ [w EXCEPT !.segment = new] = WriteParts(t, new, next)
         /\ [w EXCEPT !.next = new] = WriteParts(t, segment, new)
<1>1. w.term = t /\ w.segment = segment /\ w.next = next
  BY DEF WriteParts
<1>2. /\ [w EXCEPT !.term = new] = WriteParts(new, segment, next)
      /\ [w EXCEPT !.segment = new] = WriteParts(t, new, next)
      /\ [w EXCEPT !.next = new] = WriteParts(t, segment, new)
  BY DEF WriteParts
<1>3. QED BY <1>1, <1>2 DEF Held

(* What is shown once the segment is flushed.                                *)
Flushed(w) == Printed(w.term, w.segment, w.term.color)

LEMMA PrintedFormed ==
  ASSUME NEW t, NEW str, NEW color
  PROVE  /\ Formed(Printed(t, str, color)) /\ Printed(t, str, color).color = t.color
         /\ Printed(t, str, color).text = print_color(t.text, str, color)
         /\ Printed(t, str, color).bitmap = print_color(t.bitmap, str, color)
<1> DEFINE u == Printed(t, str, color)
           a == print_color(t.text, str, color)
           b == print_color(t.bitmap, str, color)
<1>1. u = TermParts(a, b, t.color)
  BY DEF Printed
<1> HIDE DEF a, b, u
<1>2. Formed(u) /\ u.text = a /\ u.bitmap = b /\ u.color = t.color
  BY <1>1, FormedParts
<1>3. QED BY <1>2 DEF a, b, u

LEMMA FlushHeld ==
  ASSUME NEW C, NUL \notin C, NEW w, Held(w, C)
  PROVE  /\ flush_segment(w) = WriteParts(Flushed(w), <<>>, w.next)
         /\ Held(flush_segment(w), C)
         /\ flush_segment(w).term = Flushed(w)
         /\ flush_segment(w).next = w.next
         /\ Flushed(flush_segment(w)) = Flushed(w)
         /\ Formed(Flushed(w)) /\ Flushed(w).color = w.term.color
<1> DEFINE t == Flushed(w)
           u == [w EXCEPT !.term = t]
           v == [u EXCEPT !.segment = <<>>]
<1>1. w = WriteParts(w.term, w.segment, w.next) /\ Formed(w.term) /\ w.segment \in Seq(C)
  BY DEF Held
<1>2. CString(w.segment) = w.segment
  BY <1>1, CStringWhole
<1>3. flush_segment(w) = v
  BY <1>2 DEF flush_segment, Show, Flushed, Printed, TermParts
<1>4. Formed(t) /\ t.color = w.term.color
  BY PrintedFormed DEF Flushed
<1> HIDE DEF t
<1>5. u = WriteParts(t, w.segment, w.next)
  BY <1>1, HeldParts
<1> HIDE DEF u
<1>6. v = WriteParts(t, <<>>, w.next)
  BY <1>1, <1>4, <1>5, HeldParts
<1>7. <<>> \in Seq(C)
  BY EmptySeq
<1> HIDE DEF v
<1> DEFINE none == <<>>
<1>8. Formed(t) /\ v = WriteParts(t, none, w.next) /\ none \in Seq(C)
  BY <1>4, <1>6, <1>7
<1> HIDE DEF none
<1>9. Held(v, C) /\ v.term = t /\ v.segment = none /\ v.next = w.next
  BY <1>8, HeldParts
<1>10. Held(v, C) /\ v.term = t /\ v.segment = <<>> /\ v.next = w.next
  BY <1>9 DEF none
<1>11. Flushed(v) = t
  <2>1. Flushed(v) = TermParts(print_color(t.text, <<>>, t.color), print_color(t.bitmap, <<>>, t.color), t.color)
    BY <1>10 DEF Flushed, Printed
  <2>2. Flushed(v) = TermParts(t.text, t.bitmap, t.color)
    BY <2>1, PrintedNothing
  <2>3. QED BY <1>4, <2>2 DEF Formed
<1>12. QED BY <1>3, <1>4, <1>6, <1>10, <1>11 DEF t

Begins(buffer, i) == buffer[i] = ESC /\ i < Len(buffer) /\ buffer[i + 1] = "["

Colored(t, color) == [t EXCEPT !.color = color]

(* The codes of the sequence at i, and what it does.                         *)
CodesAt(buffer, i) == Codes(SubSeq(buffer, i + 2, Terminator(buffer, i + 2) - 1))
IsColor(buffer, i) ==
  Terminator(buffer, i + 2) <= Len(buffer) /\ buffer[Terminator(buffer, i + 2)] = "m"

Sequenced(buffer, i, t) ==
  IF IsColor(buffer, i) THEN Colored(t, NewColor(t.color, CodesAt(buffer, i))) ELSE t

Put(t, c) == TermParts(Turn(1, t.color, t.text, c), Turn(1, t.color, t.bitmap, c), t.color)

LEMMA CharacterTurn ==
  ASSUME NEW C, NUL \notin C, NEW w, Held(w, C), NEW buffer, NEW i, buffer[i] \in C,
         ~ (i < w.next), ~ Begins(buffer, i)
  PROVE  /\ Held(WriteTurn(buffer, w, i), C)
         /\ Flushed(WriteTurn(buffer, w, i)) = Put(Flushed(w), buffer[i])
         /\ WriteTurn(buffer, w, i).next = w.next
<1> DEFINE c == buffer[i]
           segment == Append(w.segment, c)
           t == [w EXCEPT !.segment = segment]
           u == WriteTurn(buffer, w, i)
<1>1. u = IF Len(t.segment) = SegmentMax THEN flush_segment(t) ELSE t
  BY DEF WriteTurn, Begins
<1>2. w = WriteParts(w.term, w.segment, w.next) /\ Formed(w.term) /\ w.segment \in Seq(C) /\ c \in C
  BY DEF Held
<1> HIDE DEF c
<1>3. segment \in Seq(C)
  BY <1>2, AppendProperties
<1>4. Flushed(w).color = w.term.color
  BY PrintedFormed DEF Flushed
<1>5. /\ Flushed(w).text = print_color(w.term.text, w.segment, w.term.color)
      /\ Flushed(w).bitmap = print_color(w.term.bitmap, w.segment, w.term.color)
  BY PrintedFormed DEF Flushed
<1>6. /\ print_color(w.term.text, segment, w.term.color) = Turn(1, w.term.color, Flushed(w).text, c)
      /\ print_color(w.term.bitmap, segment, w.term.color) = Turn(1, w.term.color, Flushed(w).bitmap, c)
  BY <1>2, <1>5, PrintedMore
<1> HIDE DEF segment
<1>7. t = WriteParts(w.term, segment, w.next)
  BY <1>2, HeldParts
<1> HIDE DEF t
<1>8. Held(t, C) /\ t.term = w.term /\ t.segment = segment /\ t.next = w.next
  BY <1>2, <1>3, <1>7, HeldParts
<1>9. Flushed(t) = Put(Flushed(w), c)
  BY <1>4, <1>6, <1>8 DEF Flushed, Printed, Put
<1>10. Held(flush_segment(t), C) /\ flush_segment(t).next = t.next /\ Flushed(flush_segment(t)) = Flushed(t)
  BY <1>8, FlushHeld
<1> HIDE DEF u
<1>11. Held(u, C) /\ Flushed(u) = Put(Flushed(w), c) /\ u.next = w.next
  BY <1>1, <1>8, <1>9, <1>10
<1>12. QED BY <1>11 DEF c, u

LEMMA SequenceTurn ==
  ASSUME NEW C, NUL \notin C, NEW w, Held(w, C), NEW buffer, NEW i,
         ~ (i < w.next), Begins(buffer, i)
  PROVE  /\ Held(WriteTurn(buffer, w, i), C)
         /\ Flushed(WriteTurn(buffer, w, i)) = Sequenced(buffer, i, Flushed(w))
         /\ WriteTurn(buffer, w, i).next = Terminator(buffer, i + 2) + 1
<1> DEFINE next == Terminator(buffer, i + 2) + 1
           e == flush_segment(w)
           f == [e EXCEPT !.next = next]
           color == NewColor(f.term.color, CodesAt(buffer, i))
           t == [f.term EXCEPT !.color = color]
           g == [f EXCEPT !.term = t]
           u == WriteTurn(buffer, w, i)
           s == Flushed(w)
           none == <<>>
<1>1. u = IF IsColor(buffer, i) THEN g ELSE f
  BY DEF WriteTurn, Begins, IsColor, CodesAt
<1>2. e = WriteParts(s, none, w.next) /\ Formed(s) /\ none \in Seq(C)
  BY FlushHeld, EmptySeq
<1> HIDE DEF next, e, s, none
<1>3. f = WriteParts(s, none, next)
  BY <1>2, HeldParts
<1> HIDE DEF f
<1>4. Held(f, C) /\ f.term = s /\ f.segment = none /\ f.next = next
  BY <1>2, <1>3, HeldParts
<1> HIDE DEF color
<1>5. s = TermParts(s.text, s.bitmap, s.color)
  BY <1>2 DEF Formed
<1>6. t = TermParts(s.text, s.bitmap, color) /\ t = Colored(s, color)
  <2>1. t = [s EXCEPT !.color = color]
    BY <1>4
  <2> HIDE DEF t
  <2>2. t = TermParts(s.text, s.bitmap, color)
    BY <1>5, <2>1, FormedParts
  <2>3. QED BY <2>1, <2>2 DEF Colored
<1> HIDE DEF t
<1>7. t = TermParts(s.text, s.bitmap, color)
  BY <1>6
<1>8. Formed(t) /\ t.text = s.text /\ t.bitmap = s.bitmap /\ t.color = color
  BY <1>7, FormedParts
<1>9. g = WriteParts(t, none, next)
  BY <1>2, <1>3, HeldParts
<1> HIDE DEF g
<1>10. Held(g, C) /\ g.term = t /\ g.segment = none /\ g.next = next
  BY <1>2, <1>8, <1>9, HeldParts
<1>11. ASSUME NEW r, NEW v, Formed(r), v.term = r, v.segment = none PROVE Flushed(v) = r
  <2>1. Flushed(v) = TermParts(print_color(r.text, <<>>, r.color), print_color(r.bitmap, <<>>, r.color), r.color)
    BY <1>11 DEF Flushed, Printed, none
  <2>2. Flushed(v) = TermParts(r.text, r.bitmap, r.color)
    BY <2>1, PrintedNothing
  <2>3. QED BY <1>11, <2>2 DEF Formed
<1>12. Flushed(f) = s /\ Flushed(g) = t
  BY <1>2, <1>4, <1>8, <1>10, <1>11
<1>13. color = NewColor(s.color, CodesAt(buffer, i))
  BY <1>4 DEF color
<1>14. Sequenced(buffer, i, s) = IF IsColor(buffer, i) THEN t ELSE s
  BY <1>6, <1>13 DEF Sequenced
<1> HIDE DEF u
<1>15. Held(u, C) /\ Flushed(u) = Sequenced(buffer, i, s) /\ u.next = next
  BY <1>1, <1>4, <1>10, <1>12, <1>14
<1>16. QED BY <1>15 DEF u, next, s

(* Where the parameters of a sequence end.                                   *)
Ends(buffer, i, j) ==
  /\ j \in i .. Len(buffer) + 1
  /\ \A k \in i .. j - 1 : buffer[k] \in Digits \cup {";"}
  /\ j = Len(buffer) + 1 \/ buffer[j] \notin Digits \cup {";"}

LEMMA TerminatorEnds ==
  ASSUME NEW buffer, Len(buffer) \in Nat, NEW i \in 1 .. Len(buffer) + 1
  PROVE  /\ Ends(buffer, i, Terminator(buffer, i))
         /\ \A j : Ends(buffer, i, j) => j = Terminator(buffer, i)
<1> DEFINE Params == Digits \cup {";"}
           T == {j \in i .. Len(buffer) + 1 : j = Len(buffer) + 1 \/ buffer[j] \notin Params}
<1> HIDE DEF Params
<1>1. T \subseteq Nat /\ T # {}
  <2>1. Len(buffer) + 1 \in T
    OBVIOUS
  <2>2. QED BY <2>1
<1>2. PICK m \in T : \A j \in T : m <= j
  BY <1>1, LeastNumber
<1>3. m \in i .. Len(buffer) + 1 /\ (m = Len(buffer) + 1 \/ buffer[m] \notin Params)
  BY <1>2
<1>4. ASSUME NEW k \in i .. m - 1 PROVE buffer[k] \in Params
  <2>1. k \in i .. Len(buffer) + 1 /\ k # Len(buffer) + 1 /\ ~ (m <= k)
    BY <1>3
  <2>2. k \notin T
    BY <1>2, <2>1
  <2>3. QED BY <2>1, <2>2
<1>5. Ends(buffer, i, m)
  BY <1>3, <1>4 DEF Ends, Params
<1>6. ASSUME NEW j, Ends(buffer, i, j) PROVE j = m
  <2>1. /\ j \in i .. Len(buffer) + 1 /\ \A k \in i .. j - 1 : buffer[k] \in Params
        /\ (j = Len(buffer) + 1 \/ buffer[j] \notin Params)
    BY <1>6 DEF Ends, Params
  <2>2. ~ (j < m)
    <3>1. SUFFICES ASSUME j < m PROVE FALSE
      OBVIOUS
    <3>2. j \in i .. m - 1 /\ j # Len(buffer) + 1
      BY <1>3, <2>1, <3>1
    <3>3. QED BY <1>4, <2>1, <3>2
  <2>3. ~ (m < j)
    <3>1. SUFFICES ASSUME m < j PROVE FALSE
      OBVIOUS
    <3>2. m \in i .. j - 1 /\ m # Len(buffer) + 1
      BY <1>3, <2>1, <3>1
    <3>3. QED BY <1>3, <2>1, <3>2
  <2>4. QED BY <1>3, <2>1, <2>2, <2>3
<1>7. Terminator(buffer, i) = CHOOSE j \in i .. Len(buffer) + 1 : Ends(buffer, i, j)
  BY DEF Terminator, Ends
<1>8. m \in i .. Len(buffer) + 1
  BY <1>3
<1>9. Ends(buffer, i, Terminator(buffer, i))
  BY <1>5, <1>7, <1>8
<1>10. QED BY <1>6, <1>9

(* The two pieces of a buffer that is cut behind an escape sequence.         *)
LEMMA Pieces ==
  ASSUME NEW C, NEW buffer \in Seq(C), NEW cut \in 1 .. Len(buffer) - 1
  PROVE  /\ Len(buffer) \in Nat
         /\ SubSeq(buffer, 1, cut) \in Seq(C)
         /\ Len(SubSeq(buffer, 1, cut)) = cut
         /\ \A i \in 1 .. cut : SubSeq(buffer, 1, cut)[i] = buffer[i]
         /\ SubSeq(buffer, cut + 1, Len(buffer)) \in Seq(C)
         /\ Len(SubSeq(buffer, cut + 1, Len(buffer))) = Len(buffer) - cut
         /\ \A i \in cut + 1 .. Len(buffer) : SubSeq(buffer, cut + 1, Len(buffer))[i - cut] = buffer[i]
<1> DEFINE n == Len(buffer)
           first == SubSeq(buffer, 1, cut)
           rest == SubSeq(buffer, cut + 1, n)
<1>1. n \in Nat /\ \A i \in 1 .. n : buffer[i] \in C
  BY LenProperties, ElementOfSeq
<1> HIDE DEF n
<1>2. cut \in Nat /\ cut <= n /\ cut + 1 <= n
  BY <1>1 DEF n
<1>3. first = [i \in 1 .. cut |-> buffer[i]] /\ first \in Seq(C) /\ Len(first) = cut
  BY <1>1, <1>2
<1>4. /\ rest \in Seq(C) /\ Len(rest) = n - cut
      /\ \A i \in 1 .. n - cut : rest[i] = buffer[cut + i]
  BY <1>1, <1>2
<1> HIDE DEF first, rest
<1>5. ASSUME NEW i \in cut + 1 .. n PROVE rest[i - cut] = buffer[i]
  <2>1. i - cut \in 1 .. n - cut /\ cut + (i - cut) = i
    BY <1>1, <1>2
  <2>2. QED BY <1>4, <2>1
<1>6. \A i \in 1 .. cut : first[i] = buffer[i]
  BY <1>3
<1>7. QED BY <1>1, <1>3, <1>4, <1>5, <1>6 DEF n, first, rest

LEMMA SameCodes ==
  ASSUME NEW s, NEW t, NEW i \in Int, NEW j \in Int, NEW m \in Int,
         \A k \in i .. j : t[k - m] = s[k]
  PROVE  SubSeq(t, i - m, j - m) = SubSeq(s, i, j)
<1> DEFINE n == (j - i) + 1
           p == i - m
           q == j - m
<1>1. p \in Int /\ q \in Int /\ (q - p) + 1 = n
  OBVIOUS
<1>2. SubSeq(s, i, j) = [k \in 1 .. n |-> s[(i + k) - 1]]
  OBVIOUS
<1>3. ASSUME NEW a \in Int, NEW b \in Int
      PROVE  SubSeq(t, a, b) = [k \in 1 .. (b - a) + 1 |-> t[(a + k) - 1]]
  OBVIOUS
<1>4. SubSeq(t, p, q) = [k \in 1 .. (q - p) + 1 |-> t[(p + k) - 1]]
  BY <1>1, <1>3
<1>5. ASSUME NEW k \in 1 .. n PROVE t[(p + k) - 1] = s[(i + k) - 1]
  <2>1. (i + k) - 1 \in i .. j /\ ((i + k) - 1) - m = (p + k) - 1
    OBVIOUS
  <2>2. QED BY <2>1
<1>6. [k \in 1 .. n |-> t[(p + k) - 1]] = [k \in 1 .. n |-> s[(i + k) - 1]]
  <2> HIDE DEF n, p
  <2>1. QED BY <1>5
<1>7. SubSeq(t, p, q) = [k \in 1 .. n |-> t[(p + k) - 1]]
  <2> HIDE DEF n, p, q
  <2>1. QED BY <1>1, <1>4
<1>8. SubSeq(t, p, q) = SubSeq(s, i, j)
  <2> HIDE DEF n, p, q
  <2>1. QED BY <1>2, <1>6, <1>7
<1>9. QED BY <1>8

(* A place of a buffer and of a piece of it, m places on, at which            *)
(* terminal_write does the same.                                             *)
Matches(s, t, m, i) ==
  /\ t[i - m] = s[i]
  /\ Begins(t, i - m) <=> Begins(s, i)
  /\ Begins(s, i) =>
       /\ Terminator(s, i + 2) \in Int
       /\ Terminator(t, (i - m) + 2) = Terminator(s, i + 2) - m
       /\ IsColor(t, i - m) <=> IsColor(s, i)
       /\ CodesAt(t, i - m) = CodesAt(s, i)

LEMMA SequenceMatches ==
  ASSUME NEW s, Len(s) \in Nat, NEW t, Len(t) \in Nat, NEW m \in Nat,
         NEW i \in 1 .. Len(s), i - m \in 1 .. Len(t),
         \A k \in i .. Len(s) : k - m <= Len(t) => t[k - m] = s[k],
         Begins(s, i),
         NEW j \in Int, Ends(s, i + 2, j),
         (j <= Len(s) /\ j - m <= Len(t)) \/ Len(t) = Len(s) - m
  PROVE  Matches(s, t, m, i)
<1> DEFINE p == i - m
           q == j - m
<1>1. i < Len(s) /\ s[i] = ESC /\ s[i + 1] = "["
  BY DEF Begins
<1>2. i + 2 \in 1 .. Len(s) + 1
  BY <1>1
<1>3. Terminator(s, i + 2) = j
  BY <1>2, TerminatorEnds
<1>4. j \in i + 2 .. Len(s) + 1
  BY DEF Ends
<1>5. \A k \in i + 2 .. j - 1 : s[k] \in Digits \cup {";"}
  BY DEF Ends
<1>6. j = Len(s) + 1 \/ s[j] \notin Digits \cup {";"}
  BY DEF Ends
<1>7. j \in Int /\ p \in 1 .. Len(t) /\ p + 2 = (i + 2) - m /\ q \in Int
  BY <1>4
<1>8. ASSUME NEW k \in i .. j, k <= Len(s), k < j \/ j <= Len(s) PROVE k - m <= Len(t)
  BY <1>4, <1>8
<1>9. ASSUME NEW k \in i .. j, k <= Len(s), k < j \/ j <= Len(s) PROVE t[k - m] = s[k]
  BY <1>4, <1>8, <1>9
<1>10. t[p] = s[i]
  BY <1>4, <1>9
<1>11. p < Len(t) /\ t[p + 1] = s[i + 1]
  <2>1. i + 1 \in i .. j /\ i + 1 <= Len(s) /\ i + 1 < j
    BY <1>1, <1>4
  <2>2. (i + 1) - m <= Len(t) /\ t[(i + 1) - m] = s[i + 1]
    BY <1>8, <1>9, <2>1
  <2>3. (i + 1) - m = p + 1
    BY <1>7
  <2>4. QED BY <1>7, <2>2, <2>3
<1>12. Begins(t, p)
  BY <1>1, <1>10, <1>11 DEF Begins
<1>13. p + 2 \in 1 .. Len(t) + 1
  BY <1>7, <1>11
<1>14. Ends(t, p + 2, q)
  <2>1. q \in p + 2 .. Len(t) + 1
    BY <1>4, <1>7
  <2>2. ASSUME NEW k \in p + 2 .. q - 1 PROVE t[k] \in Digits \cup {";"}
    <3>1. k + m \in i + 2 .. j - 1 /\ k + m \in i .. j /\ k + m <= Len(s) /\ k + m < j /\ (k + m) - m = k
      BY <1>4, <1>7
    <3>2. t[(k + m) - m] = s[k + m]
      BY <1>9, <3>1
    <3>3. s[k + m] \in Digits \cup {";"}
      BY <1>5, <3>1
    <3>4. QED BY <3>1, <3>2, <3>3
  <2>3. q = Len(t) + 1 \/ t[q] \notin Digits \cup {";"}
    <3>1. CASE j <= Len(s)
      <4>1. t[q] = s[j]
        BY <1>4, <1>9, <3>1
      <4>2. j # Len(s) + 1
        BY <1>4, <3>1
      <4>3. s[j] \notin Digits \cup {";"}
        BY <1>6, <4>2
      <4>4. QED BY <4>1, <4>3
    <3>2. CASE ~ (j <= Len(s))
      <4>1. Len(t) = Len(s) - m /\ j = Len(s) + 1
        BY <1>4, <3>2
      <4>2. q = Len(t) + 1
        BY <4>1
      <4>3. QED BY <4>2
    <3>3. QED BY <3>1, <3>2
  <2>4. QED BY <2>1, <2>2, <2>3 DEF Ends
<1>15. Terminator(t, p + 2) = q
  BY <1>13, <1>14, TerminatorEnds
<1>16. IsColor(t, p) <=> IsColor(s, i)
  <2>1. CASE j <= Len(s)
    <3>1. q <= Len(t) /\ t[q] = s[j]
      BY <1>4, <1>8, <1>9, <2>1
    <3>2. QED BY <1>3, <1>15, <2>1, <3>1 DEF IsColor
  <2>2. CASE ~ (j <= Len(s))
    <3>1. ~ (q <= Len(t))
      BY <1>4, <1>7, <2>2
    <3>2. QED BY <1>3, <1>15, <2>2, <3>1 DEF IsColor
  <2>3. QED BY <2>1, <2>2
<1>17. CodesAt(t, p) = CodesAt(s, i)
  <2>1. \A k \in i + 2 .. j - 1 : t[k - m] = s[k]
    BY <1>4, <1>9
  <2>2. i + 2 \in Int /\ j - 1 \in Int /\ m \in Int
    BY <1>7
  <2>3. SubSeq(t, (i + 2) - m, (j - 1) - m) = SubSeq(s, i + 2, j - 1)
    BY <2>1, <2>2, SameCodes
  <2>4. (i + 2) - m = p + 2 /\ (j - 1) - m = q - 1
    BY <1>7
  <2>5. SubSeq(t, p + 2, q - 1) = SubSeq(s, i + 2, j - 1)
    BY <2>3, <2>4
  <2>6. QED BY <1>3, <1>15, <2>5 DEF CodesAt
<1>18. QED BY <1>3, <1>7, <1>10, <1>12, <1>15, <1>16, <1>17 DEF Matches

(* The first piece ...                                                       *)
LEMMA FirstMatches ==
  ASSUME NEW C, NEW buffer \in Seq(C), NEW cut \in 1 .. Len(buffer) - 1, ~ InEscape(buffer, cut),
         NEW i \in 1 .. cut
  PROVE  /\ Matches(buffer, SubSeq(buffer, 1, cut), 0, i)
         /\ Begins(buffer, i) => Terminator(buffer, i + 2) <= cut
<1> DEFINE t == SubSeq(buffer, 1, cut)
           j == Terminator(buffer, i + 2)
<1>1. Len(buffer) \in Nat /\ Len(t) = cut /\ \A k \in 1 .. cut : t[k] = buffer[k]
  BY Pieces
<1> HIDE DEF t
<1>2. i \in 1 .. Len(buffer) /\ cut \in Nat /\ cut < Len(buffer)
  BY <1>1
<1>3. CASE Begins(buffer, i)
  <2>1. i + 2 \in 1 .. Len(buffer) + 1
    BY <1>1, <1>3 DEF Begins
  <2>2. Ends(buffer, i + 2, j)
    BY <1>1, <2>1, TerminatorEnds
  <2>3. ~ (j > cut)
    BY <1>3 DEF InEscape, Begins
  <2> HIDE DEF j
  <2>4. j \in i + 2 .. Len(buffer) + 1
    BY <2>2 DEF Ends
  <2>5. j \in i + 2 .. Len(buffer) + 1 /\ j \in Int
    BY <1>2, <2>4
  <2>6. j <= cut /\ j <= Len(buffer) /\ j - 0 <= Len(t)
    BY <1>1, <1>2, <2>5, <2>3
  <2>7. \A k \in i .. Len(buffer) : k - 0 <= Len(t) => t[k - 0] = buffer[k]
    BY <1>1
  <2>8. 0 \in Nat /\ Len(t) \in Nat /\ i - 0 \in 1 .. Len(t)
    BY <1>1, <1>2
  <2>9. Matches(buffer, t, 0, i)
    BY <1>1, <1>2, <1>3, <2>2, <2>5, <2>6, <2>7, <2>8, SequenceMatches
  <2>10. QED BY <2>6, <2>9 DEF t, j
<1>4. CASE ~ Begins(buffer, i)
  <2>1. i - 0 = i /\ t[i] = buffer[i]
    BY <1>1
  <2>2. ~ Begins(t, i)
    <3>1. SUFFICES ASSUME Begins(t, i) PROVE FALSE
      OBVIOUS
    <3>2. t[i] = ESC /\ i < cut /\ t[i + 1] = "["
      BY <1>1, <3>1 DEF Begins
    <3>3. i + 1 \in 1 .. cut /\ i < Len(buffer)
      BY <1>2, <3>2
    <3>4. buffer[i + 1] = "["
      BY <1>1, <3>2, <3>3
    <3>5. QED BY <1>4, <2>1, <3>2, <3>3, <3>4 DEF Begins
  <2>3. Matches(buffer, t, 0, i)
    BY <1>4, <2>1, <2>2 DEF Matches
  <2>4. QED BY <1>4, <2>3 DEF t
<1>5. QED BY <1>3, <1>4

(* ... and the second.                                                       *)
LEMMA RestMatches ==
  ASSUME NEW C, NEW buffer \in Seq(C), NEW cut \in 1 .. Len(buffer) - 1,
         NEW i \in cut + 1 .. Len(buffer)
  PROVE  Matches(buffer, SubSeq(buffer, cut + 1, Len(buffer)), cut, i)
<1> DEFINE t == SubSeq(buffer, cut + 1, Len(buffer))
           p == i - cut
<1>1. /\ Len(buffer) \in Nat /\ Len(t) = Len(buffer) - cut
      /\ \A k \in cut + 1 .. Len(buffer) : t[k - cut] = buffer[k]
  BY Pieces
<1> HIDE DEF t
<1>2. /\ i \in 1 .. Len(buffer) /\ cut \in Nat /\ cut < Len(buffer)
      /\ p \in 1 .. Len(t) /\ Len(t) \in Nat /\ i \in Nat
  BY <1>1
<1>3. CASE Begins(buffer, i)
  <2>1. \A k \in i .. Len(buffer) : k - cut <= Len(t) => t[k - cut] = buffer[k]
    BY <1>1, <1>2
  <2> DEFINE j == Terminator(buffer, i + 2)
  <2>2. i + 2 \in 1 .. Len(buffer) + 1
    BY <1>1, <1>2, <1>3 DEF Begins
  <2>3. Ends(buffer, i + 2, j)
    BY <1>1, <2>2, TerminatorEnds
  <2> HIDE DEF j
  <2>4. j \in i + 2 .. Len(buffer) + 1
    BY <2>3 DEF Ends
  <2>5. j \in Int /\ Ends(buffer, i + 2, j)
    BY <1>2, <2>3, <2>4
  <2>6. Matches(buffer, t, cut, i)
    BY <1>1, <1>2, <1>3, <2>1, <2>5, SequenceMatches
  <2>7. QED BY <2>6 DEF t
<1>4. CASE ~ Begins(buffer, i)
  <2>1. t[p] = buffer[i]
    BY <1>1
  <2>2. ~ Begins(t, p)
    <3>1. SUFFICES ASSUME Begins(t, p) PROVE FALSE
      OBVIOUS
    <3>2. t[p] = ESC /\ p < Len(t) /\ t[p + 1] = "["
      BY <3>1 DEF Begins
    <3>3. i + 1 \in cut + 1 .. Len(buffer) /\ i < Len(buffer) /\ (i + 1) - cut = p + 1
      BY <1>1, <1>2, <3>2
    <3>4. buffer[i + 1] = "["
      BY <1>1, <3>2, <3>3
    <3>5. QED BY <1>4, <2>1, <3>2, <3>3, <3>4 DEF Begins
  <2>3. Matches(buffer, t, cut, i)
    BY <1>4, <2>1, <2>2 DEF Matches
  <2>4. QED BY <2>3 DEF t
<1>5. QED BY <1>3, <1>4

(* Two runs of terminal_write's loop that show the same: one over a buffer,   *)
(* one over the piece of it that begins m places on.                         *)
Along(w, v, m, C) ==
  /\ Held(w, C) /\ Held(v, C)
  /\ Flushed(v) = Flushed(w)
  /\ w.next \in Int /\ v.next \in Int
  /\ w.next = v.next + m \/ (w.next <= m + 1 /\ v.next = 1)

LEMMA AlongTurn ==
  ASSUME NEW C, NUL \notin C, NEW s, NEW t, NEW m \in Nat, NEW i \in Int, m < i, s[i] \in C,
         Matches(s, t, m, i), NEW w, NEW v, Along(w, v, m, C)
  PROVE  /\ Along(WriteTurn(s, w, i), WriteTurn(t, v, i - m), m, C)
         /\ \A top \in Int : (w.next <= top + 1 /\ (Begins(s, i) => Terminator(s, i + 2) <= top))
                                => WriteTurn(s, w, i).next <= top + 1
<1> DEFINE p == i - m
           x == WriteTurn(s, w, i)
           y == WriteTurn(t, v, p)
           j == Terminator(s, i + 2)
<1>1. /\ Held(w, C) /\ Held(v, C) /\ Flushed(v) = Flushed(w)
      /\ w.next \in Int /\ v.next \in Int
  BY DEF Along
<1>2. w.next = v.next + m \/ (w.next <= m + 1 /\ v.next = 1)
  BY DEF Along
<1>3. t[p] = s[i] /\ (Begins(t, p) <=> Begins(s, i)) /\ t[p] \in C
  BY DEF Matches
<1>4. (i < w.next <=> p < v.next) /\ p \in Int
  BY <1>1, <1>2
<1>5. CASE i < w.next
  <2>1. x = w /\ y = v
    BY <1>4, <1>5 DEF WriteTurn
  <2>2. QED BY <2>1
<1>6. CASE ~ (i < w.next) /\ Begins(s, i)
  <2>1. /\ j \in Int /\ Terminator(t, p + 2) = j - m
        /\ IsColor(t, p) <=> IsColor(s, i)
        /\ CodesAt(t, p) = CodesAt(s, i)
    BY <1>6 DEF Matches
  <2>2. ~ (p < v.next) /\ Begins(t, p)
    BY <1>3, <1>4, <1>6
  <2>3. Held(x, C) /\ Flushed(x) = Sequenced(s, i, Flushed(w)) /\ x.next = j + 1
    BY <1>1, <1>6, SequenceTurn
  <2>4. Held(y, C) /\ Flushed(y) = Sequenced(t, p, Flushed(v)) /\ y.next = Terminator(t, p + 2) + 1
    BY <1>1, <2>2, SequenceTurn
  <2>5. Sequenced(t, p, Flushed(v)) = Sequenced(s, i, Flushed(w))
    BY <1>1, <2>1 DEF Sequenced
  <2> HIDE DEF x, y, j
  <2>6. x.next \in Int /\ y.next \in Int /\ x.next = y.next + m
    BY <2>1, <2>3, <2>4
  <2>7. Along(x, y, m, C)
    BY <2>3, <2>4, <2>5, <2>6 DEF Along
  <2>8. \A top \in Int : j <= top => x.next <= top + 1
    BY <2>1, <2>3
  <2>9. QED BY <1>6, <2>7, <2>8 DEF x, y, j
<1>7. CASE ~ (i < w.next) /\ ~ Begins(s, i)
  <2>1. ~ (p < v.next) /\ ~ Begins(t, p)
    BY <1>3, <1>4, <1>7
  <2>2. Held(x, C) /\ Flushed(x) = Put(Flushed(w), s[i]) /\ x.next = w.next
    BY <1>1, <1>7, CharacterTurn
  <2>3. Held(y, C) /\ Flushed(y) = Put(Flushed(v), t[p]) /\ y.next = v.next
    BY <1>1, <1>3, <2>1, CharacterTurn
  <2> HIDE DEF x, y
  <2>4. Along(x, y, m, C)
    BY <1>1, <1>2, <1>3, <2>2, <2>3 DEF Along
  <2>5. QED BY <2>2, <2>4 DEF x, y
<1>8. QED BY <1>5, <1>6, <1>7

LEMMA CutWrite ==
  ASSUME NEW C, NUL \notin C, NEW buffer \in Seq(C), NEW cut \in 1 .. Len(buffer) - 1,
         ~ InEscape(buffer, cut), NEW t, Formed(t)
  PROVE  terminal_write(t, buffer) =
         terminal_write(terminal_write(t, SubSeq(buffer, 1, cut)),
                        SubSeq(buffer, cut + 1, Len(buffer)))
<1> DEFINE n == Len(buffer)
           first == SubSeq(buffer, 1, cut)
           rest == SubSeq(buffer, cut + 1, n)
           u == terminal_write(t, first)
           l == n - cut
<1>1. /\ n \in Nat /\ DOMAIN buffer = 1 .. n /\ \A i \in 1 .. n : buffer[i] \in C
  BY LenProperties, ElementOfSeq
<1>2. first \in Seq(C) /\ Len(first) = cut /\ rest \in Seq(C) /\ Len(rest) = l
  BY Pieces
<1>3. DOMAIN first = 1 .. cut /\ DOMAIN rest = 1 .. l
  BY <1>2, LenProperties
<1>4. \A i \in 1 .. cut : Matches(buffer, first, 0, i) /\ (Begins(buffer, i) => Terminator(buffer, i + 2) <= cut)
  BY FirstMatches
<1>5. \A i \in cut + 1 .. n : Matches(buffer, rest, cut, i)
  BY RestMatches
<1>6. cut \in 1 .. n - 1
  OBVIOUS
<1> HIDE DEF n, first, rest
<1>7. cut \in Nat /\ l \in Nat /\ cut + l = n /\ cut < n
  BY <1>1, <1>6
<1>8. PICK g : /\ g[0] = [term |-> t, segment |-> <<>>, next |-> 1]
               /\ \A k \in 0 .. n - 1 : g[k + 1] = WriteTurn(buffer, g[k], k + 1)
               /\ terminal_write(t, buffer) = flush_segment(g[n]).term
  BY <1>1, TerminalTurns
<1>9. PICK h : /\ h[0] = [term |-> t, segment |-> <<>>, next |-> 1]
               /\ \A k \in 0 .. cut - 1 : h[k + 1] = WriteTurn(first, h[k], k + 1)
               /\ terminal_write(t, first) = flush_segment(h[cut]).term
  <2> HIDE DEF u, l
  <2> DEFINE m == cut
  <2>1. DOMAIN first = 1 .. m
    BY <1>3
  <2>2. m \in Nat
    BY <1>7
  <2> HIDE DEF m
  <2>3. \E f : /\ f[0] = [term |-> t, segment |-> <<>>, next |-> 1]
               /\ \A k \in 0 .. m - 1 : f[k + 1] = WriteTurn(first, f[k], k + 1)
               /\ terminal_write(t, first) = flush_segment(f[m]).term
    BY <2>1, <2>2, TerminalTurns
  <2>4. QED BY <2>3 DEF m
<1>10. u = flush_segment(h[cut]).term
  BY <1>9
<1> HIDE DEF u, l
<1>11. PICK r : /\ r[0] = [term |-> u, segment |-> <<>>, next |-> 1]
                /\ \A k \in 0 .. l - 1 : r[k + 1] = WriteTurn(rest, r[k], k + 1)
                /\ terminal_write(u, rest) = flush_segment(r[l]).term
  BY <1>3, <1>7, TerminalTurns
<1>12. ASSUME NEW q, Formed(q), NEW w, w = WriteParts(q, <<>>, 1)
       PROVE  Held(w, C) /\ Flushed(w) = q /\ w.next = 1
  <2> DEFINE none == <<>>
  <2>1. none \in Seq(C) /\ w = WriteParts(q, none, 1)
    BY <1>12, EmptySeq
  <2> HIDE DEF none
  <2>2. Held(w, C) /\ w.term = q /\ w.segment = none /\ w.next = 1
    BY <1>12, <2>1, HeldParts
  <2>3. Flushed(w) = TermParts(print_color(q.text, <<>>, q.color), print_color(q.bitmap, <<>>, q.color), q.color)
    BY <2>2 DEF Flushed, Printed, none
  <2>4. Flushed(w) = TermParts(q.text, q.bitmap, q.color)
    BY <2>3, PrintedNothing
  <2>5. QED BY <1>12, <2>2, <2>4 DEF Formed
(* The first piece, with the buffer up to the cut ... *)
<1> DEFINE S == {k \in Nat : k <= cut => Along(g[k], h[k], 0, C) /\ g[k].next <= cut + 1}
<1>13. 0 \in S
  <2>1. g[0] = WriteParts(t, <<>>, 1) /\ h[0] = g[0]
    BY <1>8, <1>9 DEF WriteParts
  <2> DEFINE w == g[0]
  <2>2. w = WriteParts(t, <<>>, 1)
    BY <2>1
  <2> HIDE DEF w
  <2>3. Held(w, C) /\ w.next = 1
    BY <1>12, <2>2
  <2>4. Along(w, w, 0, C) /\ w.next <= cut + 1
    BY <1>7, <2>3 DEF Along
  <2>5. QED BY <2>1, <2>4 DEF w
<1>14. ASSUME NEW k \in Nat, k \in S PROVE k + 1 \in S
  <2>1. CASE k + 1 <= cut
    <3>1. k <= cut /\ k \in 0 .. cut - 1 /\ k \in 0 .. n - 1 /\ k + 1 \in 1 .. cut /\ k + 1 \in 1 .. n
          /\ k + 1 \in Int /\ 0 \in Nat /\ 0 < k + 1 /\ (k + 1) - 0 = k + 1 /\ cut \in Int
      BY <1>1, <1>7, <2>1
    <3>2. Along(g[k], h[k], 0, C) /\ g[k].next <= cut + 1
      BY <1>14, <3>1
    <3>3. /\ Matches(buffer, first, 0, k + 1) /\ buffer[k + 1] \in C
          /\ Begins(buffer, k + 1) => Terminator(buffer, (k + 1) + 2) <= cut
      BY <1>1, <1>4, <3>1
    <3> DEFINE i == k + 1
               w == g[k]
               v == h[k]
    <3>4. /\ Along(w, v, 0, C) /\ w.next <= cut + 1 /\ i \in Int /\ 0 < i /\ buffer[i] \in C
          /\ Matches(buffer, first, 0, i)
          /\ Begins(buffer, i) => Terminator(buffer, i + 2) <= cut
      BY <3>1, <3>2, <3>3
    <3> HIDE DEF i, w, v
    <3>5. /\ Along(WriteTurn(buffer, w, i), WriteTurn(first, v, i - 0), 0, C)
          /\ WriteTurn(buffer, w, i).next <= cut + 1
      BY <3>1, <3>4, AlongTurn
    <3>6. g[k + 1] = WriteTurn(buffer, w, i) /\ h[k + 1] = WriteTurn(first, v, i - 0)
      BY <1>8, <1>9, <3>1 DEF i, w, v
    <3>7. QED BY <3>5, <3>6
  <2>2. CASE ~ (k + 1 <= cut)
    BY <2>2
  <2>3. QED BY <2>1, <2>2
<1> HIDE DEF S
<1>15. cut \in S
  BY <1>7, <1>13, <1>14, SetInduction
<1>16. Along(g[cut], h[cut], 0, C) /\ g[cut].next <= cut + 1
  BY <1>7, <1>15 DEF S
<1>17. u = Flushed(g[cut]) /\ Formed(u)
  <2>1. Held(g[cut], C) /\ Held(h[cut], C) /\ Flushed(h[cut]) = Flushed(g[cut])
    BY <1>16 DEF Along
  <2>2. u = Flushed(h[cut]) /\ Formed(Flushed(h[cut]))
    BY <1>10, <2>1, FlushHeld
  <2>3. QED BY <2>1, <2>2
(* ... and the second, with the rest of it. *)
<1> DEFINE T == {k \in Nat : k <= l => Along(g[cut + k], r[k], cut, C)}
<1>18. 0 \in T
  <2>1. r[0] = WriteParts(u, <<>>, 1) /\ cut + 0 = cut
    BY <1>7, <1>11 DEF WriteParts
  <2> DEFINE v == r[0]
             w == g[cut]
  <2>2. v = WriteParts(u, <<>>, 1)
    BY <2>1
  <2>3. Held(w, C) /\ w.next \in Int /\ w.next <= cut + 1
    BY <1>16 DEF Along
  <2> HIDE DEF v
  <2>4. Held(v, C) /\ Flushed(v) = u /\ v.next = 1
    BY <1>12, <1>17, <2>2
  <2>5. Flushed(v) = Flushed(w)
    BY <1>17, <2>4
  <2> HIDE DEF w
  <2>6. Along(w, v, cut, C)
    BY <2>3, <2>4, <2>5 DEF Along
  <2>7. QED BY <2>1, <2>6 DEF v, w
<1>19. ASSUME NEW k \in Nat, k \in T PROVE k + 1 \in T
  <2>1. CASE k + 1 <= l
    <3> DEFINE i == cut + k + 1
               w == g[cut + k]
               v == r[k]
    <3>1. /\ k <= l /\ k \in 0 .. l - 1 /\ cut + k \in 0 .. n - 1 /\ i \in cut + 1 .. n /\ i \in 1 .. n
          /\ i \in Int /\ cut < i /\ i - cut = k + 1 /\ (cut + k) + 1 = i /\ cut + (k + 1) = i
      BY <1>1, <1>7, <2>1
    <3>2. Along(w, v, cut, C)
      BY <1>19, <3>1
    <3>3. Matches(buffer, rest, cut, i) /\ buffer[i] \in C
      BY <1>1, <1>5, <3>1
    <3>4. g[i] = WriteTurn(buffer, w, i) /\ r[k + 1] = WriteTurn(rest, v, i - cut)
      BY <1>8, <1>11, <3>1
    <3> HIDE DEF i, w, v
    <3>5. Along(WriteTurn(buffer, w, i), WriteTurn(rest, v, i - cut), cut, C)
      BY <1>7, <3>1, <3>2, <3>3, AlongTurn
    <3>6. Along(g[cut + (k + 1)], r[k + 1], cut, C)
      BY <3>1, <3>4, <3>5
    <3>7. QED BY <3>6
  <2>2. CASE ~ (k + 1 <= l)
    BY <2>2
  <2>3. QED BY <2>1, <2>2
<1> HIDE DEF T
<1>20. l \in T
  BY <1>7, <1>18, <1>19, SetInduction
<1>21. Along(g[n], r[l], cut, C)
  BY <1>7, <1>20 DEF T
<1>22. terminal_write(u, rest) = Flushed(r[l]) /\ terminal_write(t, buffer) = Flushed(g[n])
  BY <1>8, <1>11, <1>21, FlushHeld DEF Along
<1>23. terminal_write(u, rest) = terminal_write(t, buffer)
  BY <1>21, <1>22 DEF Along
<1>24. QED BY <1>23 DEF u, first, rest, n

(* A program may write its output in one piece or in any pieces that cut no   *)
(* escape sequence: in both branches of display.c the screen and the colour   *)
(* come out the same, whatever the terminal held, wherever terminal_write's   *)
(* segment fills up, for texts of any length without a NUL.                   *)
THEOREM PiecesWriteTheWhole == ConsoleSpec => []WritesMayBeCut
<1> DEFINE Inv == TermAlike(term)
<1>1. ConsoleInit => Inv
  BY InitAlike
<1>2. Inv /\ [ConsoleNext]_allVars => Inv'
  BY NextAlike
<1>3. Inv => WritesMayBeCut
  <2>1. SUFFICES ASSUME Inv, NEW buffer \in Writes, NEW cut \in 1 .. Len(buffer) - 1,
                        NUL \notin Range(buffer), ~ InEscape(buffer, cut)
                 PROVE  terminal_write(term, buffer) =
                        terminal_write(terminal_write(term, SubSeq(buffer, 1, cut)),
                                       SubSeq(buffer, cut + 1, Len(buffer)))
    BY DEF WritesMayBeCut
  <2> DEFINE C == Range(buffer)
  <2>2. buffer \in Seq(C) /\ NUL \notin C
    BY <2>1, ConsoleAssumption
  <2>3. Formed(term)
    BY <2>1 DEF TermAlike, Formed
  <2> HIDE DEF C
  <2>4. QED BY <2>1, <2>2, <2>3, CutWrite
<1> HIDE DEF Inv
<1>4. QED BY <1>1, <1>2, <1>3, PTL DEF ConsoleSpec
=============================================================================
