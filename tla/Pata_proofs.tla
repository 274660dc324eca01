---------------------------- MODULE Pata_proofs ----------------------------
(***************************************************************************)
(* The three address forms of the PATA driver name the sector they are     *)
(* given, whatever the registers held; so that, for every number of        *)
(* channels and every mixture of drives, a read returns the sector it was  *)
(* asked for, a write changes no other, and the search finds exactly the   *)
(* ATA disks.                                                              *)
(***************************************************************************)
EXTENDS Pata, SequenceTheorems, TLAPS

-----------------------------------------------------------------------------
(* Division.                                                               *)

(* Quotient and remainder make up the number.                              *)
LEMMA DivMod ==
  ASSUME NEW n \in Nat, NEW b \in Nat \ {0}
  PROVE  /\ n \div b \in Nat /\ n % b \in 0 .. b - 1
         /\ n = b * (n \div b) + (n % b)
OBVIOUS

(* There is one quotient with one remainder below the divisor.             *)
LEMMA QuotientIsUnique ==
  ASSUME NEW n \in Nat, NEW b \in Nat \ {0}, NEW q \in Nat, NEW r \in 0 .. b - 1,
         n = b * q + r
  PROVE  n \div b = q /\ n % b = r
<1> DEFINE p == n \div b
           s == n % b
<1>1. p \in Nat /\ s \in 0 .. b - 1 /\ n = b * p + s
  BY DivMod
<1> HIDE DEF p, s
<1>2. b * (p - q) = r - s
  BY <1>1
<1>3. p = q
  <2>1. CASE p > q
    <3>1. b * (p - q) >= b
      BY <1>1, <2>1
    <3>2. QED BY <1>1, <1>2, <3>1
  <2>2. CASE q > p
    <3>1. b * (q - p) >= b /\ b * (q - p) = s - r
      BY <1>1, <1>2, <2>2
    <3>2. QED BY <1>1, <3>1
  <2>3. QED BY <1>1, <2>1, <2>2
<1>4. QED BY <1>1, <1>2, <1>3 DEF p, s

(* A number below a product has a quotient below the other factor.         *)
LEMMA QuotientBelow ==
  ASSUME NEW n \in Nat, NEW b \in Nat \ {0}, NEW c \in Nat, n < b * c
  PROVE  n \div b < c
<1> DEFINE p == n \div b
           s == n % b
<1>1. p \in Nat /\ s \in 0 .. b - 1 /\ n = b * p + s
  BY DivMod
<1> HIDE DEF p, s
<1>2. CASE p >= c
  <2>1. b * p >= b * c
    BY <1>1, <1>2
  <2>2. QED BY <1>1, <2>1
<1>3. QED BY <1>1, <1>2 DEF p

(* Dividing twice is dividing by the product.                              *)
LEMMA DivideTwice ==
  ASSUME NEW n \in Nat, NEW b \in Nat \ {0}, NEW c \in Nat \ {0}
  PROVE  n \div (b * c) = (n \div b) \div c
<1> DEFINE p == n \div b
           s == n % b
           q == p \div c
           r == p % c
<1>1. p \in Nat /\ s \in 0 .. b - 1 /\ n = b * p + s
  BY DivMod
<1> HIDE DEF p, s
<1>2. q \in Nat /\ r \in 0 .. c - 1 /\ p = c * q + r
  BY <1>1, DivMod
<1> HIDE DEF q, r
<1>3. n = (b * c) * q + (b * r + s)
  BY <1>1, <1>2
<1>4. b * c \in Nat \ {0} /\ b * r + s \in 0 .. b * c - 1
  <2>1. b * r <= b * (c - 1)
    BY <1>2
  <2>2. b * r + s <= b * c - 1 /\ b * r + s \in Nat
    BY <1>1, <1>2, <2>1
  <2>3. QED BY <2>2
<1>5. n \div (b * c) = q
  BY <1>2, <1>3, <1>4, QuotientIsUnique
<1>6. QED BY <1>5 DEF p, q

-----------------------------------------------------------------------------
(* Sector addresses.                                                       *)

(* The sizes are positive, and powers of Byte as well.                     *)
LEMMA Sizes ==
  /\ Byte \in Nat \ {0} /\ Nibble \in Nat \ {0} /\ Spt \in Nat \ {0}
  /\ Heads \in Nat \ {0} /\ Channels \in Nat \ {0}
  /\ Spt < Byte /\ Heads <= Nibble /\ Nibble <= Byte
  /\ Byte * Byte \in Nat \ {0} /\ Byte * Byte * Byte \in Nat \ {0}
  /\ Heads * Spt \in Nat \ {0} /\ U32 \in Nat \ {0}
<1>1. /\ Byte \in Nat \ {0} /\ Nibble \in Nat \ {0} /\ Spt \in Nat \ {0}
      /\ Heads \in Nat \ {0} /\ Channels \in Nat \ {0}
      /\ Spt < Byte /\ Heads <= Nibble /\ Nibble <= Byte
  BY PataAssumption
<1>2. \A a, b \in Nat \ {0} : a * b \in Nat \ {0}
  OBVIOUS
<1>3. QED BY <1>1, <1>2 DEF U32

(* The low digits of a number and the rest make it up.                     *)
LEMMA DigitsMakeUp ==
  ASSUME NEW n \in Nat
  PROVE  /\ Digit(n, 0) \in Nat /\ Digit(n, 1) \in Nat /\ Digit(n, 2) \in Nat
         /\ Digit(n, 3) = (n \div (Byte * Byte * Byte)) % Byte
         /\ n \div (Byte * Byte * Byte) \in Nat
         /\ n = Digit(n, 0) + Byte * (Digit(n, 1) + Byte * Digit(n, 2))
                  + Byte * Byte * Byte * (n \div (Byte * Byte * Byte))
<1>a. Byte \in Nat \ {0}
  BY Sizes
<1>b. \A m \in Nat : /\ m \div Byte \in Nat /\ m % Byte \in Nat
                     /\ m = Byte * (m \div Byte) + (m % Byte)
  BY <1>a, DivMod
<1> DEFINE q1 == n \div Byte
           q2 == q1 \div Byte
           q3 == q2 \div Byte
           d0 == n % Byte
           d1 == q1 % Byte
           d2 == q2 % Byte
<1>1. q1 \in Nat /\ d0 \in Nat /\ n = Byte * q1 + d0
  BY <1>b
<1>2. q2 \in Nat /\ d1 \in Nat /\ q1 = Byte * q2 + d1
  <2>1. q1 \in Nat
    BY <1>1
  <2> HIDE DEF q1
  <2>2. QED BY <2>1, <1>b
<1>3. q3 \in Nat /\ d2 \in Nat /\ q2 = Byte * q3 + d2
  <2>1. q2 \in Nat
    BY <1>2
  <2> HIDE DEF q2
  <2>2. QED BY <2>1, <1>b
<1> HIDE DEF q1, q2, q3, d0, d1, d2
<1>5. n \div (Byte * Byte) = q2
  BY <1>a, DivideTwice DEF q1, q2
<1>6. n \div (Byte * Byte * Byte) = q3
  <2> DEFINE bb == Byte * Byte
  <2>1. bb \in Nat \ {0} /\ n \div bb = q2
    BY <1>5, Sizes
  <2> HIDE DEF bb
  <2>2. n \div (bb * Byte) = (n \div bb) \div Byte
    BY <1>a, <2>1, DivideTwice
  <2>3. QED BY <2>1, <2>2 DEF bb, q3
<1>7. /\ Digit(n, 0) = d0 /\ Digit(n, 1) = d1
      /\ Digit(n, 2) = (n \div (Byte * Byte)) % Byte
      /\ Digit(n, 3) = (n \div (Byte * Byte * Byte)) % Byte
  <2> DEFINE powers == <<1, Byte, Byte * Byte, Byte * Byte * Byte>>
  <2>1. /\ powers[0 + 1] = 1 /\ powers[1 + 1] = Byte
        /\ powers[2 + 1] = Byte * Byte /\ powers[3 + 1] = Byte * Byte * Byte
    OBVIOUS
  <2>2. \A k : Digit(n, k) = (n \div powers[k + 1]) % Byte
    BY DEF Digit
  <2> HIDE DEF powers
  <2>3. n \div 1 = n
    OBVIOUS
  <2>4. QED BY <2>1, <2>2, <2>3 DEF q1, d0, d1
<1>8. Digit(n, 2) = d2
  BY <1>5, <1>7 DEF d2
<1>9. n = d0 + Byte * (d1 + Byte * d2) + Byte * Byte * Byte * q3
  <2>1. q1 = Byte * (Byte * q3 + d2) + d1
    BY <1>2, <1>3
  <2>2. n = Byte * (Byte * (Byte * q3 + d2) + d1) + d0
    BY <1>1, <2>1
  <2>3. QED BY <1>a, <1>1, <1>2, <1>3, <2>2
<1>10. QED BY <1>1, <1>2, <1>3, <1>6, <1>7, <1>8, <1>9

(* The registers of a channel, and the bytes that go into them.            *)
Registers == [sel : {0, 1}, lba : BOOLEAN, head : Nat, r : [0 .. 2 -> Nat \X Nat]]
Bytes == [0 .. 5 -> Nat]

(* A write of three LBA registers keeps what each held last before.        *)
LEMMA WriteLbaHolds ==
  ASSUME NEW r \in Registers, NEW io \in Bytes, NEW half \in {0, 1}
  PROVE  LET w == WriteLba(r, io, half)
         IN /\ w \in Registers
            /\ w.sel = r.sel /\ w.lba = r.lba /\ w.head = r.head
            /\ \A n \in 0 .. 2 : w.r[n][1] = r.r[n][2] /\ w.r[n][2] = io[3 * half + n]
<1> DEFINE f == [n \in 0 .. 2 |-> Push(r.r[n], io[3 * half + n])]
           w == WriteLba(r, io, half)
<1>1. \A n \in 0 .. 2 : io[3 * half + n] \in Nat
  BY DEF Bytes
<1>2. \A n \in 0 .. 2 : r.r[n] \in Nat \X Nat
  BY DEF Registers
<1>3. \A n \in 0 .. 2 : f[n] = <<r.r[n][2], io[3 * half + n]>>
  BY DEF Push
<1>4. f \in [0 .. 2 -> Nat \X Nat]
  BY <1>1, <1>2 DEF Push
<1>5. w = [r EXCEPT !.r = f]
  BY DEF WriteLba
<1> HIDE DEF f, w
<1>6. /\ w \in Registers /\ w.r = f
      /\ w.sel = r.sel /\ w.lba = r.lba /\ w.head = r.head
  BY <1>4, <1>5 DEF Registers
<1>7. \A n \in 0 .. 2 : w.r[n][1] = r.r[n][2] /\ w.r[n][2] = io[3 * half + n]
  BY <1>3, <1>6
<1>8. QED BY <1>6, <1>7 DEF w

(* After the parameters are written, the registers hold the low bytes, and *)
(* for an extended command the high bytes behind them.                     *)
LEMMA ParametersHold ==
  ASSUME NEW r \in Registers, NEW io \in Bytes, NEW mode
  PROVE  LET w == Parameters(r, mode, io)
         IN /\ w \in Registers
            /\ w.sel = r.sel /\ w.lba = r.lba /\ w.head = r.head
            /\ \A n \in 0 .. 2 : w.r[n][2] = io[n] /\ (mode = 2 => w.r[n][1] = io[3 + n])
<1> DEFINE v == IF mode = 2 THEN WriteLba(r, io, 1) ELSE r
           w == WriteLba(v, io, 0)
<1>1. /\ v \in Registers
      /\ v.sel = r.sel /\ v.lba = r.lba /\ v.head = r.head
      /\ mode = 2 => \A n \in 0 .. 2 : v.r[n][2] = io[3 + n]
  BY WriteLbaHolds
<1>2. Parameters(r, mode, io) = w
  BY DEF Parameters
<1> HIDE DEF v
<1>3. /\ w \in Registers
      /\ w.sel = v.sel /\ w.lba = v.lba /\ w.head = v.head
      /\ \A n \in 0 .. 2 : w.r[n][1] = v.r[n][2] /\ w.r[n][2] = io[3 * 0 + n]
  BY <1>1, WriteLbaHolds
<1> HIDE DEF w
<1>4. \A n \in 0 .. 2 : 3 * 0 + n = n
  OBVIOUS
<1>5. QED BY <1>1, <1>2, <1>3, <1>4

(* Cylinder, head and sector of a sector within a CHS drive.               *)
LEMMA ChsNames ==
  ASSUME NEW lba \in Nat, lba < Byte * Byte * (Heads * Spt)
  PROVE  LET a == Chs(lba)
         IN /\ a.io \in Bytes /\ a.head \in Nat
            /\ ((a.io[1] + Byte * a.io[2]) * Heads + a.head) * Spt + a.io[0] - 1 = lba
<1> DEFINE k == lba \div Spt
           s == lba % Spt
           q == k \div Heads
           h == k % Heads
           hs == Heads * Spt
           bb == Byte * Byte
<1>1. k \in Nat /\ s \in 0 .. Spt - 1 /\ lba = Spt * k + s
  BY Sizes, DivMod
<1>2. q \in Nat /\ h \in 0 .. Heads - 1 /\ k = Heads * q + h
  <2>1. k \in Nat
    BY <1>1
  <2> HIDE DEF k
  <2>2. Heads \in Nat \ {0}
    BY Sizes
  <2>3. QED BY <2>1, <2>2, DivMod
<1>4. hs \in Nat \ {0} /\ bb \in Nat \ {0} /\ Byte \in Nat \ {0}
  BY Sizes
<1> HIDE DEF k, s, q, h
<1>3. lba + 1 - (s + 1) = Spt * k
  BY <1>1, Sizes
<1>5. Spt * k \in Nat /\ Spt * h \in 0 .. hs - 1 /\ Spt * k = hs * q + Spt * h
  <2>1. Spt \in Nat \ {0} /\ Heads \in Nat \ {0}
    BY Sizes
  <2>2. Spt * h <= Spt * (Heads - 1) /\ Spt * h \in Nat
    BY <1>2, <2>1
  <2>3. Spt * h <= Heads * Spt - 1
    BY <1>2, <2>1, <2>2
  <2>4. Spt * k = Heads * Spt * q + Spt * h
    BY <1>2, <2>1
  <2>5. QED BY <1>1, <2>1, <2>2, <2>3, <2>4
<1> HIDE DEF hs
<1>6. (Spt * k) \div hs = q /\ (Spt * k) % hs = Spt * h
  <2> DEFINE n == Spt * k
             r == Spt * h
  <2>1. n \in Nat /\ r \in 0 .. hs - 1 /\ n = hs * q + r
    BY <1>5
  <2> HIDE DEF n, r
  <2>2. n \div hs = q /\ n % hs = r
    BY <1>2, <1>4, <2>1, QuotientIsUnique
  <2>3. QED BY <2>2 DEF n, r
<1>7. (Spt * h) \div Spt = h
  <2> DEFINE n == Spt * h
  <2>1. Spt \in Nat \ {0} /\ n \in Nat /\ n = Spt * h + 0 /\ 0 \in 0 .. Spt - 1
    BY <1>2, Sizes
  <2> HIDE DEF n
  <2>2. n \div Spt = h
    BY <1>2, <2>1, QuotientIsUnique
  <2>3. QED BY <2>2 DEF n
<1>8. q < bb
  <2>1. hs * q <= lba
    <3>1. hs * q \in Int /\ Spt * h \in Nat /\ lba = hs * q + Spt * h + s
      BY <1>1, <1>2, <1>4, <1>5
    <3>2. QED BY <1>1, <3>1
  <2>2. lba < bb * hs
    BY DEF hs
  <2>3. CASE q >= bb
    <3>1. hs * q >= hs * bb
      BY <1>2, <1>4, <2>3
    <3>2. QED BY <1>1, <1>2, <1>4, <2>1, <2>2, <3>1
  <2>4. QED BY <1>2, <1>4, <2>3
<1>9. q % bb = q
  BY <1>2, <1>4, <1>8, QuotientIsUnique
<1>10. q = Digit(q, 0) + Byte * Digit(q, 1) /\ Digit(q, 0) \in Nat /\ Digit(q, 1) \in Nat
  <2>1. q \div (Byte * Byte) = 0
    <3>1. q = bb * 0 + q /\ q \in 0 .. bb - 1
      BY <1>2, <1>4, <1>8
    <3> HIDE DEF bb
    <3>2. q \div bb = 0
      BY <1>2, <1>4, <3>1, QuotientIsUnique
    <3>3. QED BY <3>2 DEF bb
  <2>2. Digit(q, 2) = 0
    <3>1. Digit(q, 2) = (q \div (Byte * Byte)) % Byte
      <4> DEFINE powers == <<1, Byte, Byte * Byte, Byte * Byte * Byte>>
      <4>1. powers[2 + 1] = Byte * Byte
        OBVIOUS
      <4> HIDE DEF powers
      <4>2. QED BY <4>1 DEF Digit, powers
    <3>2. QED BY <1>4, <2>1, <3>1
  <2>3. q \div (Byte * Byte * Byte) = 0
    <3>1. (q \div bb) \div Byte = q \div (bb * Byte)
      <4> HIDE DEF bb
      <4>1. QED BY <1>2, <1>4, DivideTwice
    <3>2. 0 \div Byte = 0
      BY <1>4
    <3>3. QED BY <2>1, <3>1, <3>2
  <2>4. QED BY <1>2, <1>4, <2>2, <2>3, DigitsMakeUp
<1> DEFINE a == Chs(lba)
<1>11. /\ a.head = h
       /\ a.io = [n \in 0 .. 5 |-> CASE n = 0 -> s + 1
                                     [] n \in {1, 2} -> Digit(q, n - 1)
                                     [] OTHER -> 0]
  <2>1. Chs(lba) = [io |-> [n \in 0 .. 5 |-> CASE n = 0 -> s + 1
                                     [] n \in {1, 2} -> Digit(q, n - 1)
                                     [] OTHER -> 0],
                    head |-> h]
    BY <1>3, <1>6, <1>7, <1>9 DEF Chs, s, hs
  <2>2. QED BY <2>1
<1> HIDE DEF a
<1>12. /\ a.io[0] = s + 1 /\ a.io[1] = Digit(q, 0) /\ a.io[2] = Digit(q, 1)
       /\ a.io \in Bytes
  BY <1>1, <1>10, <1>11 DEF Bytes
<1>13. ((a.io[1] + Byte * a.io[2]) * Heads + a.head) * Spt + a.io[0] - 1 = lba
  <2>1. a.io[1] + Byte * a.io[2] = q
    BY <1>10, <1>12
  <2>2. (q * Heads + h) * Spt = Spt * k
    BY <1>1, <1>2, Sizes
  <2>3. QED BY <1>1, <1>11, <1>12, <2>1, <2>2
<1>14. QED BY <1>2, <1>11, <1>12, <1>13 DEF a

(* The registers name the sector for every drive that BeyondEnd lets       *)
(* through, whatever they held: as CHS, LBA28 or LBA48.                    *)
LEMMA AddressReaches ==
  ASSUME NEW dev, dev.mode \in 0 .. 2, dev.sectors \in 0 .. U32 - 1,
         dev.mode = 0 => dev.sectors <= Byte * Byte * (Heads * Spt),
         NEW lba \in 0 .. U32 - 1, ~BeyondEnd(dev, lba),
         LbaMode(dev, lba) = 2 => dev.mode = 2,
         NEW r \in Registers, r.lba <=> LbaMode(dev, lba) # 0,
         r.head = Address(LbaMode(dev, lba), lba).head
  PROVE  LET mode == LbaMode(dev, lba)
             w == Parameters(r, mode, Address(mode, lba).io)
         IN w \in Registers /\ w.sel = r.sel /\ Sector(w, mode = 2) = lba
<1> DEFINE mode == LbaMode(dev, lba)
           a == Address(mode, lba)
           w == Parameters(r, mode, a.io)
           b3 == Byte * Byte * Byte
           low == w.r[0][2] + Byte * (w.r[1][2] + Byte * w.r[2][2])
<1> SUFFICES w \in Registers /\ w.sel = r.sel /\ Sector(w, mode = 2) = lba
  OBVIOUS
<1>1. /\ Byte \in Nat \ {0} /\ Nibble \in Nat \ {0} /\ b3 \in Nat \ {0} /\ U32 \in Nat \ {0}
      /\ Nibble <= Byte /\ U32 = b3 * Byte
  BY Sizes DEF U32
<1>2. lba \in Nat
  BY <1>1
<1>3. mode \in 0 .. 2 /\ (mode = 2 <=> dev.mode = 2) /\ (mode # 2 => mode = dev.mode)
  BY DEF LbaMode
<1>4. mode # 2 => lba < b3 * Nibble - 1
  BY <1>1 DEF LbaMode
<1>5. /\ Digit(lba, 0) \in Nat /\ Digit(lba, 1) \in Nat /\ Digit(lba, 2) \in Nat
      /\ Digit(lba, 3) = (lba \div b3) % Byte /\ lba \div b3 \in Nat
      /\ lba = Digit(lba, 0) + Byte * (Digit(lba, 1) + Byte * Digit(lba, 2))
                 + b3 * (lba \div b3)
  BY <1>2, DigitsMakeUp
<1> HIDE DEF b3
<1>6. ASSUME a.io \in Bytes
      PROVE  /\ w \in Registers /\ w.sel = r.sel /\ (w.lba <=> mode # 0)
             /\ w.head = a.head
             /\ low = a.io[0] + Byte * (a.io[1] + Byte * a.io[2])
             /\ w.r[0][2] = a.io[0] /\ w.r[1][2] = a.io[1] /\ w.r[2][2] = a.io[2]
             /\ mode = 2 => /\ w.r[0][1] = a.io[3] /\ w.r[1][1] = a.io[4]
                            /\ w.r[2][1] = a.io[5]
  <2> HIDE DEF a, mode, w
  <2>1. /\ w \in Registers /\ w.sel = r.sel /\ w.lba = r.lba /\ w.head = r.head
        /\ \A n \in 0 .. 2 : w.r[n][2] = a.io[n] /\ (mode = 2 => w.r[n][1] = a.io[3 + n])
    BY <1>6, ParametersHold DEF w
  <2>2. r.head = a.head /\ (r.lba <=> mode # 0)
    BY DEF a, mode
  <2>3. QED BY <2>1, <2>2
<1>7. CASE mode = 2
  <2>1. a = [io |-> [k \in 0 .. 5 |-> IF k < 4 THEN Digit(lba, k) ELSE 0], head |-> 0]
    BY <1>7 DEF Address
  <2> HIDE DEF a
  <2>2. /\ a.io[0] = Digit(lba, 0) /\ a.io[1] = Digit(lba, 1) /\ a.io[2] = Digit(lba, 2)
        /\ a.io[3] = Digit(lba, 3) /\ a.io[4] = 0 /\ a.io[5] = 0
    BY <2>1
  <2>3. lba \div b3 < Byte
    BY <1>1, <1>2, QuotientBelow
  <2>4. Digit(lba, 3) = lba \div b3
    <3>1. lba \div b3 = Byte * 0 + (lba \div b3) /\ lba \div b3 \in 0 .. Byte - 1
      BY <1>1, <1>5, <2>3
    <3> DEFINE n == lba \div b3
    <3>2. n \in Nat /\ n = Byte * 0 + n /\ n \in 0 .. Byte - 1
      BY <1>5, <3>1
    <3> HIDE DEF n
    <3>3. n % Byte = n
      BY <1>1, <3>2, QuotientIsUnique
    <3>4. QED BY <1>5, <3>3 DEF n
  <2>5. a.io \in Bytes
    <3>1. \A k \in 0 .. 5 : k < 4 => Digit(lba, k) \in Nat
      BY <1>5, <2>4
    <3>2. QED BY <2>1, <3>1 DEF Bytes
  <2>6. Sector(w, mode = 2) = low + b3 * (w.r[0][1] + Byte * (w.r[1][1] + Byte * w.r[2][1]))
    BY <1>7 DEF Sector, b3
  <2>7. w.r[0][1] + Byte * (w.r[1][1] + Byte * w.r[2][1]) = lba \div b3
    <3> HIDE DEF w
    <3>1. w.r[0][1] = lba \div b3 /\ w.r[1][1] = 0 /\ w.r[2][1] = 0
      BY <1>6, <1>7, <2>2, <2>4, <2>5
    <3>2. QED BY <1>1, <1>5, <3>1
  <2> HIDE DEF w, mode
  <2>8. QED BY <1>5, <1>6, <2>2, <2>5, <2>6, <2>7
<1>8. CASE mode = 1
  <2>1. a = [io |-> [k \in 0 .. 5 |-> IF k < 3 THEN Digit(lba, k) ELSE 0],
             head |-> (lba \div b3) % Nibble]
    BY <1>8 DEF Address, b3
  <2> HIDE DEF a
  <2>2. /\ a.io[0] = Digit(lba, 0) /\ a.io[1] = Digit(lba, 1) /\ a.io[2] = Digit(lba, 2)
        /\ a.head = (lba \div b3) % Nibble
    BY <2>1
  <2>3. a.io \in Bytes
    <3>1. \A k \in 0 .. 5 : k < 3 => Digit(lba, k) \in Nat
      BY <1>5
    <3>2. QED BY <2>1, <3>1 DEF Bytes
  <2>4. a.head = lba \div b3
    <3>1. lba < b3 * Nibble
      BY <1>1, <1>2, <1>4, <1>8
    <3>2. lba \div b3 < Nibble
      BY <1>1, <1>2, <3>1, QuotientBelow
    <3> DEFINE n == lba \div b3
    <3>3. n \in Nat /\ n = Nibble * 0 + n /\ n \in 0 .. Nibble - 1
      BY <1>1, <1>5, <3>2
    <3> HIDE DEF n
    <3>4. n % Nibble = n
      BY <1>1, <3>3, QuotientIsUnique
    <3>5. QED BY <2>2, <3>4 DEF n
  <2>5. w.lba
    BY <1>6, <1>8, <2>3
  <2>6. Sector(w, mode = 2) = low + b3 * w.head
    BY <1>8, <2>5 DEF Sector, b3
  <2> HIDE DEF w, mode
  <2>7. QED BY <1>5, <1>6, <2>2, <2>3, <2>4, <2>6
<1>9. CASE mode = 0
  <2>1. a = Chs(lba)
    BY <1>9 DEF Address
  <2>2. lba < Byte * Byte * (Heads * Spt)
    <3>1. lba + 1 < U32
      <4>1. b3 * Nibble <= b3 * Byte
        BY <1>1
      <4>2. QED BY <1>1, <1>2, <1>4, <1>9, <4>1
    <3>2. (lba + 1) % U32 = lba + 1
      <4>1. lba + 1 = U32 * 0 + (lba + 1) /\ lba + 1 \in 0 .. U32 - 1
        BY <1>1, <1>2, <3>1
      <4> DEFINE n == lba + 1
      <4>2. n \in Nat /\ n = U32 * 0 + n /\ n \in 0 .. U32 - 1
        BY <1>2, <4>1
      <4> HIDE DEF n
      <4>3. n % U32 = n
        BY <1>1, <4>2, QuotientIsUnique
      <4>4. QED BY <4>3 DEF n
    <3>3. lba + 1 <= dev.sectors
      BY <1>1, <1>2, <3>2 DEF BeyondEnd
    <3>4. dev.sectors <= Byte * Byte * (Heads * Spt)
      BY <1>3, <1>9
    <3> DEFINE most == Byte * Byte * (Heads * Spt)
    <3>5. most \in Int
      BY Sizes
    <3> HIDE DEF most
    <3>6. lba < most
      BY <1>1, <1>2, <3>3, <3>4, <3>5 DEF most
    <3>7. QED BY <3>6 DEF most
  <2>3. /\ a.io \in Bytes /\ a.head \in Nat
        /\ ((a.io[1] + Byte * a.io[2]) * Heads + a.head) * Spt + a.io[0] - 1 = lba
    BY <1>2, <2>1, <2>2, ChsNames
  <2> HIDE DEF a
  <2>4. ~ w.lba
    BY <1>6, <1>9, <2>3
  <2>5. Sector(w, mode = 2) =
          ((w.r[1][2] + Byte * w.r[2][2]) * Heads + w.head) * Spt + w.r[0][2] - 1
    BY <1>9, <2>4 DEF Sector
  <2> HIDE DEF w, mode
  <2>6. QED BY <1>6, <2>3, <2>5
<1>10. QED BY <1>3, <1>7, <1>8, <1>9

-----------------------------------------------------------------------------
(* The inductive invariant.                                                *)

States == {"idle", "busy", "data", "err", "df"}
Commands == {"none", "identify", "read", "write", "store", "flush"}
Described == [place : Places, mode : 0 .. 2, sectors : 0 .. U32 - 1]
Calls == [op : {"read", "write"}, dev : Described, lba : Lbas,
          got : {<<>>} \cup (Places \X Nat \X BOOLEAN)]
Searching == {"select", "identify", "present", "probe"}
Accessing == {"ready", "poll", "send", "flush", "flushed", "return"}

(* The parts of the machine and of the driver have their types.            *)
Typed ==
  /\ setup \in Setups
  /\ reg \in [0 .. Channels - 1 -> Registers]
  /\ drive \in [Places -> [st : States, cmd : Commands, sector : Nat]]
  /\ written \in [Places -> SUBSET Nat] /\ asked \in [Places -> SUBSET Nat]
  /\ pc \in Searching \cup {"idle"} \cup Accessing
  /\ at \in Places \cup {<<Channels, 0>>}
  /\ devices \in Seq(Described)
  /\ pc \in Accessing => call \in Calls

(* The search has found the disks before the place it looks at, which is   *)
(* the drive that was selected and told to identify itself.                *)
Description(d) == [place |-> d, mode |-> Kind(d).mode, sectors |-> Kind(d).sectors]
Before(p) == {d \in Places : d[1] < p[1] \/ (d[1] = p[1] /\ d[2] < p[2])}
Searched ==
  /\ pc \in Searching <=> at \in Places
  /\ FoundDrives = {Description(d) : d \in {p \in Before(at) : IsAta(p)}}
  /\ \A i, j \in DOMAIN devices : i # j => devices[i].place # devices[j].place
  /\ pc \in {"identify", "present", "probe"} => reg[at[1]].sel = at[2]
  /\ pc \in {"present", "probe"} /\ IsDrive(at) =>
       /\ drive[at].cmd = "identify"
       /\ drive[at].st \in {"busy", IF IsAta(at) THEN "data" ELSE "err"}

(* A call is on a registered drive, which is selected from the command on, *)
(* and which offers no sector but the one of the call.                     *)
Accessed ==
  /\ pc \in Accessing => call.dev \in FoundDrives
  /\ pc = "ready" => ~BeyondEnd(call.dev, call.lba)
  /\ pc \in {"poll", "send", "flush", "flushed"} => Target = call.dev.place
  /\ pc = "poll" => call.op = "read"
  /\ pc \in {"send", "flush", "flushed"} => call.op = "write"
  /\ pc \in {"poll", "send"} =>
       /\ drive[Target].cmd = call.op
       /\ drive[Target].st \in {"busy", "data", "err", "df"}
       /\ drive[Target].sector < Kind(Target).sectors => drive[Target].sector = call.lba
       /\ drive[Target].st = "data" => drive[Target].sector = call.lba
  /\ pc \in Accessing /\ call.op = "write" => call.lba \in asked[call.dev.place]
  /\ pc = "return" /\ call.op = "read" /\ err = 0 => drive[call.dev.place].st = "idle"

(* A sector that is stored, or on its way, is one that a caller wrote.     *)
Stored == /\ \A d \in Places : drive[d].cmd = "store" => drive[d].sector \in asked[d]
          /\ WritesAddressed

IInv == Typed /\ Searched /\ Accessed /\ Stored /\ ReadsAddressed

-----------------------------------------------------------------------------
(* Places and kinds.                                                       *)

(* A place is a channel and one of its two drives.                         *)
LEMMA PlaceShape ==
  ASSUME NEW d \in Places
  PROVE  d[1] \in 0 .. Channels - 1 /\ d[2] \in {0, 1} /\ d = <<d[1], d[2]>>
BY DEF Places

(* A selected drive has a place.                                           *)
LEMMA SelectedPlace ==
  ASSUME Typed, NEW c \in 0 .. Channels - 1
  PROVE  reg[c] \in Registers /\ Selected(c) \in Places
BY DEF Typed, Registers, Selected, Places

(* What may be at a place.                                                 *)
LEMMA KindTyped ==
  ASSUME Typed, NEW d \in Places
  PROVE  /\ Kind(d) \in Kinds
         /\ Kind(d).mode = 0 => Kind(d).sectors <= Byte * Byte * (Heads * Spt)
BY PataAssumption DEF Typed, Kind

(* What the search registers of a disk.                                    *)
LEMMA DescriptionTyped ==
  ASSUME Typed, NEW d \in Places
  PROVE  Description(d) \in Described /\ Description(d).place = d
BY KindTyped DEF Description, Described, Kinds

(* The next place of the search, and what is before it.                    *)
LEMMA NextPlaceShape ==
  ASSUME NEW p \in Places
  PROVE  /\ NextPlace(p) \in Places \cup {<<Channels, 0>>}
         /\ NextPlace(p)[1] = Channels <=> NextPlace(p) \notin Places
         /\ Before(NextPlace(p)) = Before(p) \cup {p}
         /\ p \notin Before(p)
<1>1. p[1] \in 0 .. Channels - 1 /\ p[2] \in {0, 1} /\ p = <<p[1], p[2]>>
  BY PlaceShape
<1>2. Channels \in Nat \ {0}
  BY Sizes
<1>3. \A d \in Places : d[1] \in 0 .. Channels - 1 /\ d[2] \in {0, 1} /\ d = <<d[1], d[2]>>
  BY PlaceShape
<1>4. \A d \in Places : d = p <=> d[1] = p[1] /\ d[2] = p[2]
  BY <1>1, <1>3
<1>5. CASE p[2] = 0
  <2>1. NextPlace(p) = <<p[1], 1>>
    BY <1>5 DEF NextPlace
  <2>2. <<p[1], 1>> \in Places /\ <<p[1], 1>>[1] = p[1] /\ <<p[1], 1>>[2] = 1
    BY <1>1 DEF Places
  <2>3. \A d \in Places : d \in Before(<<p[1], 1>>) <=> d \in Before(p) \/ d = p
    BY <1>1, <1>3, <1>4, <1>5 DEF Before
  <2>4. p \notin Before(p)
    BY <1>1 DEF Before
  <2>5. Before(<<p[1], 1>>) = Before(p) \cup {p}
    BY <2>3 DEF Before
  <2>6. QED BY <1>1, <1>2, <2>1, <2>2, <2>4, <2>5
<1>6. CASE p[2] = 1
  <2>1. NextPlace(p) = <<p[1] + 1, 0>>
    BY <1>6 DEF NextPlace
  <2>2. <<p[1] + 1, 0>>[1] = p[1] + 1 /\ <<p[1] + 1, 0>>[2] = 0
    OBVIOUS
  <2>3. \A d \in Places : d \in Before(<<p[1] + 1, 0>>) <=> d \in Before(p) \/ d = p
    BY <1>1, <1>3, <1>4, <1>6 DEF Before
  <2>4. p \notin Before(p)
    BY <1>1 DEF Before
  <2>5. Before(<<p[1] + 1, 0>>) = Before(p) \cup {p}
    BY <2>3 DEF Before
  <2>6. p[1] + 1 = Channels => <<p[1] + 1, 0>> \notin Places
    BY <1>2, <1>3, <2>2
  <2>7. p[1] + 1 # Channels => <<p[1] + 1, 0>> \in Places
    BY <1>1, <1>2 DEF Places
  <2>8. p[1] + 1 = Channels => <<p[1] + 1, 0>> = <<Channels, 0>>
    OBVIOUS
  <2>9. QED BY <2>1, <2>2, <2>4, <2>5, <2>6, <2>7, <2>8
<1>7. QED BY <1>1, <1>5, <1>6

-----------------------------------------------------------------------------
(* At power on the search begins at the first place.                       *)
LEMMA InitIInv == PataInit => IInv
<1> SUFFICES ASSUME PataInit PROVE IInv
  OBVIOUS
<1>1. <<0, 0>> \in Places
  BY Sizes DEF Places
<1>2. Typed
  <2>1. devices \in Seq(Described)
    BY EmptySeq DEF PataInit
  <2>2. [n \in 0 .. 2 |-> <<0, 0>>] \in [0 .. 2 -> Nat \X Nat]
    OBVIOUS
  <2>3. reg \in [0 .. Channels - 1 -> Registers]
    BY <2>2 DEF PataInit, Registers
  <2>4. drive \in [Places -> [st : States, cmd : Commands, sector : Nat]]
    BY DEF PataInit, States, Commands
  <2>5. QED BY <1>1, <2>1, <2>3, <2>4 DEF PataInit, Typed, Searching, Accessing
<1>3. Searched
  <2>1. Before(at) = {}
    <3>1. at[1] = 0 /\ at[2] = 0
      BY DEF PataInit
    <3>2. \A d \in Places : d[1] \in 0 .. Channels - 1 /\ d[2] \in {0, 1}
      BY PlaceShape
    <3>3. \A d \in Places : ~ (d[1] < 0 \/ (d[1] = 0 /\ d[2] < 0))
      BY <3>2, Sizes
    <3>4. QED BY <3>1, <3>3 DEF Before
  <2>2. DOMAIN devices = {} /\ 1 .. Len(devices) = {}
    BY EmptySeq DEF PataInit
  <2>3. QED BY <1>1, <2>1, <2>2 DEF Searched, PataInit, FoundDrives, Searching
<1>4. Accessed
  BY DEF Accessed, PataInit, Accessing
<1>5. Stored
  BY DEF Stored, WritesAddressed, PataInit
<1>6. ReadsAddressed
  BY DEF ReadsAddressed, PataInit
<1>7. QED BY <1>2, <1>3, <1>4, <1>5, <1>6 DEF IInv

(* Outside the calls there is nothing to say of one.                       *)
LEMMA NotAccessing ==
  ASSUME pc' \in Searching \cup {"idle"}
  PROVE  Accessed' /\ ReadsAddressed'
BY DEF Accessed, ReadsAddressed, Searching, Accessing

(* "continue": the next place, with the disks found so far.                *)
LEMMA SkipKeeps ==
  ASSUME IInv, pc \in Searching, Skip, UNCHANGED <<setup, reg, written, caller>>,
         drive' \in [Places -> [st : States, cmd : Commands, sector : Nat]],
         devices' \in Seq(Described),
         FoundDrives' = {Description(d) : d \in {p \in Before(at) \cup {at} : IsAta(p)}},
         \A i, j \in DOMAIN devices' : i # j => devices'[i].place # devices'[j].place,
         \A d \in Places : drive'[d].cmd = "store" => drive[d].cmd = "store" /\ drive'[d] = drive[d]
  PROVE  IInv'
<1>1. at \in Places
  BY DEF IInv, Searched
<1>2. /\ at' \in Places \cup {<<Channels, 0>>}
      /\ at' \in Places => pc' = "select"
      /\ at' \notin Places => pc' = "idle"
      /\ Before(at') = Before(at) \cup {at}
  BY <1>1, NextPlaceShape DEF Skip, Goto
<1>3. pc' \in Searching \cup {"idle"} /\ pc' \notin Accessing /\ pc' \notin {"identify", "present", "probe"}
  BY <1>2 DEF Searching, Accessing
<1>4. Typed'
  BY <1>2, <1>3 DEF IInv, Typed, caller
<1>5. Searched'
  <2>1. pc' \in Searching <=> at' \in Places
    BY <1>2 DEF Searching
  <2>2. (FoundDrives = {Description(d) : d \in {p \in Before(at) : IsAta(p)}})'
    BY <1>2 DEF Description, Kind, IsAta
  <2>4. QED BY <1>3, <2>1, <2>2 DEF Searched
<1>6. Accessed' /\ ReadsAddressed'
  BY <1>3, NotAccessing
<1>7. Stored'
  BY DEF IInv, Stored, WritesAddressed, caller
<1>8. QED BY <1>4, <1>5, <1>6, <1>7 DEF IInv

(* Selecting the drive of the search.                                      *)
LEMMA SelectDriveKeeps == ASSUME IInv, SelectDrive PROVE IInv'
<1> DEFINE r == Select(at[1], FALSE, at[2], 0)
<1>1. at \in Places /\ at[1] \in 0 .. Channels - 1 /\ at[2] \in {0, 1}
  BY PlaceShape DEF IInv, Searched, SelectDrive, Searching
<1>2. reg[at[1]] \in Registers
  BY <1>1 DEF IInv, Typed
<1>3. r \in Registers /\ r.sel = at[2]
  BY <1>1, <1>2 DEF Select, Registers
<1> HIDE DEF r
<1>4. reg' = [reg EXCEPT ![at[1]] = r] /\ pc' = "identify" /\ pc = "select"
  BY DEF SelectDrive, Goto, r
<1>5. UNCHANGED <<setup, drive, written, at, devices, call, err, asked, calls>>
  BY DEF SelectDrive, search, caller
<1>6. reg' \in [0 .. Channels - 1 -> Registers] /\ reg'[at[1]] = r
  BY <1>1, <1>3, <1>4 DEF IInv, Typed
<1>7. Typed'
  BY <1>4, <1>5, <1>6 DEF IInv, Typed, Searching, Accessing
<1>8. Searched'
  BY <1>1, <1>3, <1>4, <1>5, <1>6
     DEF IInv, Searched, Searching, FoundDrives, Description, Kind, IsAta, Before, IsDrive
<1>9. Accessed' /\ ReadsAddressed'
  BY <1>4, NotAccessing DEF Searching
<1>10. Stored'
  BY <1>5 DEF IInv, Stored, WritesAddressed
<1>11. QED BY <1>7, <1>8, <1>9, <1>10 DEF IInv

(* IDENTIFY, which only a drive takes.                                     *)
LEMMA IdentifyKeeps == ASSUME IInv, Identify PROVE IInv'
<1>1. at \in Places
  BY DEF IInv, Searched, Identify, Searching
<1>2. pc' = "present" /\ pc = "identify"
  BY DEF Identify, Goto
<1>3. UNCHANGED <<setup, reg, written, at, devices, call, err, asked, calls>>
  BY DEF Identify, search, caller
<1>4. drive' = IF IsDrive(at)
               THEN [drive EXCEPT ![at] = [st |-> "busy", cmd |-> "identify", sector |-> 0]]
               ELSE drive
  BY DEF Identify, Commanded
<1>5. /\ drive' \in [Places -> [st : States, cmd : Commands, sector : Nat]]
      /\ IsDrive(at) => drive'[at] = [st |-> "busy", cmd |-> "identify", sector |-> 0]
      /\ \A d \in Places : drive'[d].cmd = "store" =>
                             drive[d].cmd = "store" /\ drive'[d] = drive[d]
  BY <1>1, <1>4 DEF IInv, Typed, States, Commands
<1>6. Typed'
  BY <1>2, <1>3, <1>5 DEF IInv, Typed, Searching, Accessing
<1>7. Searched'
  BY <1>1, <1>2, <1>3, <1>5
     DEF IInv, Searched, Searching, FoundDrives, Description, Kind, IsAta, Before, IsDrive
<1>8. Accessed' /\ ReadsAddressed'
  BY <1>2, NotAccessing DEF Searching
<1>9. Stored'
  BY <1>3, <1>5 DEF IInv, Stored, WritesAddressed
<1>10. QED BY <1>6, <1>7, <1>8, <1>9 DEF IInv

(* The status of what is at a place of the search.                         *)
LEMMA SearchStatus ==
  ASSUME IInv, pc \in {"present", "probe"}
  PROVE  /\ at \in Places /\ Selected(at[1]) = at
         /\ Kind(at).k = "float" => Status(at[1]) = {"BSY", "DF", "DRQ", "ERR"}
         /\ Kind(at).k = "none" => Status(at[1]) = {}
         /\ Kind(at).k \in {"ata", "atapi"} =>
              Status(at[1]) \in {{"BSY", "DRDY"}, IF IsAta(at) THEN {"DRQ", "DRDY"}
                                                  ELSE {"ERR", "DRDY"}}
<1>1. at \in Places /\ reg[at[1]].sel = at[2]
  BY DEF IInv, Searched, Searching
<1>2. Selected(at[1]) = at
  BY <1>1, PlaceShape DEF Selected
<1>3. Kind(at).k = "float" => Status(at[1]) = {"BSY", "DF", "DRQ", "ERR"}
  BY <1>2 DEF Status
<1>4. Kind(at).k = "none" => Status(at[1]) = {}
  BY <1>2 DEF Status
<1>5. ASSUME Kind(at).k \in {"ata", "atapi"}
      PROVE  Status(at[1]) \in {{"BSY", "DRDY"}, IF IsAta(at) THEN {"DRQ", "DRDY"}
                                                 ELSE {"ERR", "DRDY"}}
  <2>1. drive[at].st \in {"busy", IF IsAta(at) THEN "data" ELSE "err"}
    BY <1>5 DEF IInv, Searched, IsDrive
  <2>2. /\ drive[at].st = "busy" => Status(at[1]) = {"BSY"} \cup {"DRDY"}
        /\ drive[at].st = "data" => Status(at[1]) = {"DRQ"} \cup {"DRDY"}
        /\ drive[at].st = "err" => Status(at[1]) = {"ERR"} \cup {"DRDY"}
    BY <1>2, <1>5 DEF Status
  <2>3. QED BY <2>1, <2>2
<1>6. QED BY <1>1, <1>2, <1>3, <1>4, <1>5

(* A place that is no disk adds none.                                      *)
LEMMA SkipNoDisk ==
  ASSUME IInv, pc \in Searching, Skip, UNCHANGED <<hardware, devices, caller>>, ~ IsAta(at)
  PROVE  IInv'
<1>1. {p \in Before(at) \cup {at} : IsAta(p)} = {p \in Before(at) : IsAta(p)}
  OBVIOUS
<1>2. FoundDrives' = FoundDrives
  BY DEF FoundDrives
<1>3. FoundDrives' = {Description(d) : d \in {p \in Before(at) \cup {at} : IsAta(p)}}
  BY <1>1, <1>2 DEF IInv, Searched
<1>4. QED BY <1>3, SkipKeeps DEF IInv, Typed, Searched, hardware

(* Nothing answers.                                                        *)
LEMMA PresentKeeps == ASSUME IInv, Present PROVE IInv'
<1>1. pc = "present" /\ UNCHANGED <<hardware, devices, caller>>
  BY DEF Present
<1>2. CASE Status(at[1]) = {}
  <2>1. ~ IsAta(at)
    BY <1>1, <1>2, SearchStatus DEF IsAta
  <2>2. QED BY <1>1, <1>2, <2>1, SkipNoDisk DEF Present, Searching
<1>3. CASE Status(at[1]) # {}
  <2>1. pc' = "probe" /\ at' = at
    BY <1>3 DEF Present, Goto
  <2>2. Typed'
    BY <1>1, <2>1 DEF IInv, Typed, Searching, Accessing, hardware, caller
  <2>3. Searched'
    BY <1>1, <2>1 DEF IInv, Searched, Searching, FoundDrives, Description, Kind, IsAta,
                      Before, IsDrive, hardware
  <2>4. Accessed' /\ ReadsAddressed'
    BY <2>1, NotAccessing DEF Searching
  <2>5. Stored'
    BY <1>1 DEF IInv, Stored, WritesAddressed, hardware, caller
  <2>6. QED BY <2>2, <2>3, <2>4, <2>5 DEF IInv
<1>4. QED BY <1>2, <1>3

(* What answers with an error is no disk.                                  *)
LEMMA RefusedKeeps == ASSUME IInv, Refused PROVE IInv'
<1>1. pc = "probe" /\ "ERR" \in Status(at[1]) /\ Skip /\ UNCHANGED <<hardware, devices, caller>>
  BY DEF Refused
<1>2. ~ IsAta(at)
  BY <1>1, SearchStatus DEF IsAta
<1>3. QED BY <1>1, <1>2, SkipNoDisk DEF Searching

(* What has data is a disk, which joins the list.                          *)
LEMMA RegisterKeeps == ASSUME IInv, Register PROVE IInv'
<1> DEFINE new == Description(at)
<1>1. /\ pc = "probe" /\ "ERR" \notin Status(at[1]) /\ "BSY" \notin Status(at[1])
      /\ "DRQ" \in Status(at[1]) /\ Skip /\ UNCHANGED <<setup, reg, written, caller>>
      /\ devices' = Append(devices, new)
      /\ drive' = [drive EXCEPT ![at].st = "idle"]
  BY DEF Register, Description, ide_read_buffer, Becomes
<1>2. at \in Places
  BY <1>1, SearchStatus
<1>3. Kind(at).k \in {"none", "float", "atapi", "ata"}
  BY <1>2, KindTyped DEF IInv, Kinds
<1>4. IsAta(at)
  BY <1>1, <1>3, SearchStatus DEF IsAta
<1>5. new \in Described /\ new.place = at
  BY <1>2, DescriptionTyped DEF IInv
<1>6. /\ devices \in Seq(Described) /\ Len(devices) \in Nat
      /\ DOMAIN devices = 1 .. Len(devices)
  BY LenProperties DEF IInv, Typed
<1> HIDE DEF new
<1>7. /\ devices' \in Seq(Described) /\ Len(devices') = Len(devices) + 1
      /\ \A i \in 1 .. Len(devices) : devices'[i] = devices[i]
      /\ devices'[Len(devices) + 1] = new
  BY <1>1, <1>5, <1>6, AppendProperties
<1>8. DOMAIN devices' = 1 .. Len(devices) + 1
  BY <1>7, LenProperties
<1>9. FoundDrives' = FoundDrives \cup {new}
  <2>1. \A i \in 1 .. Len(devices) + 1 : i \in 1 .. Len(devices) \/ i = Len(devices) + 1
    BY <1>6
  <2>2. /\ Len(devices) + 1 \in 1 .. Len(devices) + 1
        /\ \A i \in 1 .. Len(devices) : i \in 1 .. Len(devices) + 1
    BY <1>6
  <2>3. FoundDrives' = {devices'[k] : k \in 1 .. Len(devices) + 1}
    BY <1>7 DEF FoundDrives
  <2>4. QED BY <1>7, <2>1, <2>2, <2>3 DEF FoundDrives
<1>10. FoundDrives' = {Description(d) : d \in {p \in Before(at) \cup {at} : IsAta(p)}}
  <2>1. FoundDrives = {Description(d) : d \in {p \in Before(at) : IsAta(p)}}
    BY DEF IInv, Searched
  <2>2. QED BY <1>4, <1>9, <2>1 DEF new
<1>11. \A i \in 1 .. Len(devices) : devices[i].place # at
  <2> SUFFICES ASSUME NEW i \in 1 .. Len(devices) PROVE devices[i].place # at
    OBVIOUS
  <2>1. devices[i] \in FoundDrives
    BY DEF FoundDrives
  <2>2. PICK d \in Before(at) : devices[i] = Description(d)
    BY <2>1 DEF IInv, Searched
  <2>3. d # at
    BY <1>2, NextPlaceShape
  <2>4. QED BY <2>2, <2>3 DEF Description
<1>12. \A i, j \in DOMAIN devices' : i # j => devices'[i].place # devices'[j].place
  <2> SUFFICES ASSUME NEW i \in 1 .. Len(devices) + 1, NEW j \in 1 .. Len(devices) + 1, i # j
               PROVE  devices'[i].place # devices'[j].place
    BY <1>8
  <2>1. CASE i \in 1 .. Len(devices) /\ j \in 1 .. Len(devices)
    BY <1>6, <1>7, <2>1 DEF IInv, Searched
  <2>2. CASE i \in 1 .. Len(devices) /\ j = Len(devices) + 1
    BY <1>5, <1>7, <1>11, <2>2
  <2>3. CASE j \in 1 .. Len(devices) /\ i = Len(devices) + 1
    BY <1>5, <1>7, <1>11, <2>3
  <2>4. QED BY <1>6, <2>1, <2>2, <2>3
<1>13. /\ drive' \in [Places -> [st : States, cmd : Commands, sector : Nat]]
       /\ \A d \in Places : drive'[d].cmd = "store" => drive[d].cmd = "store" /\ drive'[d] = drive[d]
  <2>1. drive \in [Places -> [st : States, cmd : Commands, sector : Nat]]
    BY DEF IInv, Typed
  <2>2. drive[at].cmd = "identify"
    BY <1>1, <1>4 DEF IInv, Searched, IsDrive, IsAta
  <2>3. drive' = [drive EXCEPT ![at] = [@ EXCEPT !.st = "idle"]]
    BY <1>1
  <2>4. QED BY <1>2, <2>1, <2>2, <2>3 DEF States
<1>14. QED BY <1>1, <1>7, <1>10, <1>12, <1>13, SkipKeeps DEF Searching

-----------------------------------------------------------------------------
(* The calls.                                                              *)

DriveStates == [st : States, cmd : Commands, sector : Nat]

(* A change of one drive.                                                  *)
LEMMA OneDrive ==
  ASSUME Typed, NEW d \in Places, NEW x \in DriveStates, drive' = [drive EXCEPT ![d] = x]
  PROVE  /\ drive' \in [Places -> DriveStates] /\ drive'[d] = x
         /\ \A e \in Places : e # d => drive'[e] = drive[e]
BY DEF Typed, DriveStates

(* The search is over while a call runs.                                   *)
LEMMA SearchIsOver ==
  ASSUME Searched, pc \notin Searching, pc' \notin Searching,
         UNCHANGED <<setup, at, devices>>
  PROVE  Searched'
<1>1. at' \notin Places /\ pc' \notin {"identify", "present", "probe"}
  BY DEF Searched, Searching
<1>2. QED BY <1>1 DEF Searched, FoundDrives, Description, Before, Kind, IsAta

(* The drive of a call is an ATA disk, described as the caller has it.     *)
LEMMA CalledDisk ==
  ASSUME IInv, pc \in Accessing
  PROVE  /\ call \in Calls /\ call.dev.place \in Places /\ IsAta(call.dev.place)
         /\ call.dev = Description(call.dev.place)
         /\ Channel \in 0 .. Channels - 1 /\ call.lba \in 0 .. U32 - 1
<1>1. call \in Calls /\ call.dev \in FoundDrives
  BY DEF IInv, Typed, Accessed
<1>2. PICK d \in {p \in Before(at) : IsAta(p)} : call.dev = Description(d)
  BY <1>1 DEF IInv, Searched
<1>3. d \in Places /\ call.dev.place = d
  BY <1>2 DEF Before, Description
<1>4. call.lba \in 0 .. U32 - 1
  BY <1>1, PataAssumption DEF Calls
<1>5. QED BY <1>1, <1>2, <1>3, <1>4, PlaceShape DEF Channel

(* disk_read and disk_write, up to the check of the end of the drive.      *)
LEMMA CalledKeeps ==
  ASSUME IInv, NEW op \in {"read", "write"}, NEW k \in 1 .. Len(devices), NEW lba \in Lbas,
         Called(op, devices[k], lba)
  PROVE  IInv'
<1> DEFINE dev == devices[k]
<1>1. /\ pc = "idle" /\ call' = [op |-> op, dev |-> dev, lba |-> lba, got |-> <<>>]
      /\ asked' = IF op = "read" THEN asked ELSE [asked EXCEPT ![dev.place] = @ \cup {lba}]
      /\ UNCHANGED <<setup, reg, drive, written, at, devices>>
      /\ \/ BeyondEnd(dev, lba) /\ err' = 2 /\ pc' = "return"
         \/ ~ BeyondEnd(dev, lba) /\ err' = 0 /\ pc' = "ready"
  BY DEF Called, hardware, search, Goto
<1>2. dev \in Described /\ dev \in FoundDrives
  BY LenProperties DEF IInv, Typed, FoundDrives
<1> HIDE DEF dev
<1>3. dev.place \in Places /\ lba \in Nat
  BY <1>2, PataAssumption, Sizes DEF Described
<1>4. /\ asked' \in [Places -> SUBSET Nat] /\ \A d \in Places : asked[d] \subseteq asked'[d]
      /\ op = "write" => lba \in asked'[dev.place]
  BY <1>1, <1>3 DEF IInv, Typed
<1>5. call' \in Calls
  BY <1>1, <1>2 DEF Calls
<1>6. Typed'
  BY <1>1, <1>4, <1>5 DEF IInv, Typed, Accessing, Searching
<1>7. Searched'
  BY <1>1, SearchIsOver DEF IInv, Searching
<1>8. FoundDrives' = FoundDrives
  BY <1>1 DEF FoundDrives
<1>9. /\ call'.dev = dev /\ call'.lba = lba /\ call'.op = op
  BY <1>1
<1>10. Accessed'
  <2>1. (pc = "ready" => ~BeyondEnd(call.dev, call.lba))'
    BY <1>1, <1>9 DEF BeyondEnd
  <2>2. pc' \notin {"poll", "send", "flush", "flushed"}
    BY <1>1
  <2>3. (pc = "return" => err # 0)'
    BY <1>1
  <2>4. QED BY <1>2, <1>4, <1>8, <1>9, <2>1, <2>2, <2>3 DEF Accessed
<1>11. ReadsAddressed'
  BY <1>1 DEF ReadsAddressed
<1>12. Stored'
  BY <1>1, <1>4 DEF IInv, Stored, WritesAddressed
<1>13. QED BY <1>6, <1>7, <1>10, <1>11, <1>12 DEF IInv

(* What goes into the registers are numbers.                               *)
LEMMA AddressBytes ==
  ASSUME NEW lba \in Nat, NEW mode \in 0 .. 2
  PROVE  Address(mode, lba).io \in Bytes /\ Address(mode, lba).head \in Nat
<1>1. \A n \in Nat : /\ Digit(n, 0) \in Nat /\ Digit(n, 1) \in Nat /\ Digit(n, 2) \in Nat
                     /\ Digit(n, 3) \in Nat
  <2> SUFFICES ASSUME NEW n \in Nat
               PROVE  /\ Digit(n, 0) \in Nat /\ Digit(n, 1) \in Nat /\ Digit(n, 2) \in Nat
                      /\ Digit(n, 3) \in Nat
    OBVIOUS
  <2> DEFINE q == n \div (Byte * Byte * Byte)
  <2>1. q \in Nat /\ Digit(n, 3) = q % Byte
    BY DigitsMakeUp
  <2> HIDE DEF q
  <2>2. q % Byte \in Nat
    BY <2>1, Sizes, DivMod
  <2>3. QED BY <2>1, <2>2, DigitsMakeUp
<1>2. \A n, b \in Nat : b # 0 => n \div b \in Nat /\ n % b \in Nat
  BY DivMod
<1>3. CASE mode = 2
  <2>1. \A k \in 0 .. 5 : (IF k < 4 THEN Digit(lba, k) ELSE 0) \in Nat
    BY <1>1
  <2>2. QED BY <1>3, <2>1 DEF Address, Bytes
<1>4. CASE mode = 1
  <2>1. \A k \in 0 .. 5 : (IF k < 3 THEN Digit(lba, k) ELSE 0) \in Nat
    BY <1>1
  <2> DEFINE q == lba \div (Byte * Byte * Byte)
  <2>2. q \in Nat
    BY DigitsMakeUp
  <2>3. Address(mode, lba) = [io |-> [k \in 0 .. 5 |-> IF k < 3 THEN Digit(lba, k) ELSE 0],
                              head |-> q % Nibble]
    BY <1>4 DEF Address
  <2> HIDE DEF q
  <2>4. q % Nibble \in Nat
    BY <1>2, <2>2, Sizes
  <2>5. QED BY <2>1, <2>3, <2>4 DEF Bytes
<1>5. CASE mode = 0
  <2> DEFINE s == lba % Spt
             n == lba + 1 - (s + 1)
             hs == Heads * Spt
             bb == Byte * Byte
             q == (n \div hs) % bb
             h == (n % hs) \div Spt
  <2>1. s \in Nat /\ n \in Nat
    <3>1. /\ lba \div Spt \in Nat /\ s \in 0 .. Spt - 1
          /\ lba = Spt * (lba \div Spt) + s
      BY DivMod, Sizes
    <3>2. Spt * (lba \div Spt) \in Nat
      BY <3>1, Sizes
    <3> HIDE DEF s
    <3>3. QED BY <3>1, <3>2, Sizes
  <2>2. Address(mode, lba) = [io |-> [k \in 0 .. 5 |-> CASE k = 0 -> s + 1
                                       [] k \in {1, 2} -> Digit(q, k - 1)
                                       [] OTHER -> 0],
                              head |-> h]
    BY <1>5 DEF Address, Chs
  <2> HIDE DEF s, n
  <2>3. hs \in Nat \ {0} /\ bb \in Nat \ {0} /\ Spt \in Nat \ {0}
    BY Sizes
  <2> HIDE DEF hs, bb
  <2>4. n \div hs \in Nat /\ n % hs \in Nat
    BY <1>2, <2>1, <2>3
  <2>5. q \in Nat /\ h \in Nat
    <3> DEFINE x == n \div hs
               y == n % hs
    <3>1. x \in Nat /\ y \in Nat
      BY <2>4
    <3> HIDE DEF x, y
    <3>2. x % bb \in Nat /\ y \div Spt \in Nat
      BY <1>2, <2>3, <3>1
    <3>3. QED BY <3>2 DEF x, y
  <2> HIDE DEF q, h
  <2>6. \A k \in 0 .. 5 : (CASE k = 0 -> s + 1
                              [] k \in {1, 2} -> Digit(q, k - 1)
                              [] OTHER -> 0) \in Nat
    BY <1>1, <2>1, <2>5
  <2>7. QED BY <2>2, <2>5, <2>6 DEF Bytes
<1>6. QED BY <1>3, <1>4, <1>5

(* The registers are written and the command is given.                     *)
LEMMA CommandKeeps == ASSUME IInv, Command PROVE IInv'
<1> DEFINE c == Channel
           dev == call.dev
           d == call.dev.place
           lba == call.lba
           mode == LbaMode(dev, lba)
           addr == Address(mode, lba)
           s == Select(c, mode # 0, d[2], addr.head)
           r == Parameters(s, mode, addr.io)
           at0 == IF mode = 2 /\ Kind(d).mode # 2 THEN U32 ELSE Sector(r, mode = 2)
           x == [st |-> "busy", cmd |-> call.op, sector |-> at0]
<1>1. /\ pc = "ready" /\ reg' = [reg EXCEPT ![c] = r]
      /\ drive' = Commanded(<<c, r.sel>>, call.op,
                            IF mode = 2 /\ Kind(<<c, r.sel>>).mode # 2 THEN U32
                            ELSE Sector(r, mode = 2))
      /\ pc' = IF call.op = "read" THEN "poll" ELSE "send"
      /\ UNCHANGED <<setup, written, at, devices, call, err, asked, calls>>
  BY DEF Command, Channel, Goto, search, caller
<1>2. /\ call \in Calls /\ d \in Places /\ IsAta(d) /\ dev = Description(d)
      /\ c \in 0 .. Channels - 1 /\ lba \in 0 .. U32 - 1
  BY <1>1, CalledDisk DEF Accessing
<1>3. /\ call.op \in {"read", "write"} /\ dev.mode = Kind(d).mode
      /\ dev.sectors = Kind(d).sectors /\ ~ BeyondEnd(dev, lba)
  BY <1>1, <1>2 DEF Calls, Description, IInv, Accessed
<1>4. /\ dev.mode \in 0 .. 2 /\ dev.sectors \in 0 .. U32 - 1
      /\ dev.mode = 0 => dev.sectors <= Byte * Byte * (Heads * Spt)
  BY <1>2, <1>3, KindTyped DEF IInv, Kinds
<1>5. lba \in Nat /\ mode \in 0 .. 2 /\ U32 \in Nat
  BY <1>2, <1>4, Sizes DEF LbaMode
<1>6. addr.io \in Bytes /\ addr.head \in Nat
  BY <1>5, AddressBytes
<1>7. s \in Registers /\ s.sel = d[2] /\ (s.lba <=> mode # 0) /\ s.head = addr.head
  <2>1. reg[c] \in Registers /\ d[2] \in {0, 1}
    BY <1>2, PlaceShape DEF IInv, Typed
  <2> HIDE DEF c, d, mode, addr
  <2>2. QED BY <1>6, <2>1 DEF Select, Registers
<1>8. r \in Registers /\ r.sel = d[2] /\ <<c, r.sel>> = d
  <2>1. r \in Registers /\ r.sel = s.sel
    <3> HIDE DEF addr, s, mode
    <3>1. QED BY <1>6, <1>7, ParametersHold
  <2>2. QED BY <1>2, <1>7, <2>1, PlaceShape DEF Channel
<1>9. ~ (mode = 2 /\ Kind(d).mode # 2) => Sector(r, mode = 2) = lba
  BY <1>2, <1>3, <1>4, <1>7, AddressReaches
<1>10. at0 \in Nat /\ (at0 < Kind(d).sectors => at0 = lba)
  <2> HIDE DEF r, mode, lba, d
  <2>1. QED BY <1>2, <1>3, <1>4, <1>5, <1>9
<1>11. drive' = [drive EXCEPT ![d] = x]
  BY <1>1, <1>8 DEF Commanded
<1>12. x \in DriveStates /\ x.st = "busy" /\ x.cmd = call.op /\ x.sector = at0
  BY <1>3, <1>10 DEF DriveStates, States, Commands
<1> HIDE DEF r, x, at0, mode, addr, s
<1>13. /\ drive' \in [Places -> DriveStates] /\ drive'[d] = x
       /\ \A e \in Places : e # d => drive'[e] = drive[e]
  BY <1>2, <1>11, <1>12, OneDrive DEF IInv
<1>14. reg' \in [0 .. Channels - 1 -> Registers] /\ reg'[c] = r
  BY <1>1, <1>2, <1>8 DEF IInv, Typed
<1>15. pc' \in {"poll", "send"} /\ (pc' = "poll" <=> call.op = "read")
  BY <1>1
<1>16. Target' = d /\ call' = call /\ Kind(d)' = Kind(d)
  BY <1>1, <1>8, <1>14 DEF Target, Selected, Channel, Kind
<1>17. Typed'
  BY <1>1, <1>2, <1>13, <1>14, <1>15 DEF IInv, Typed, DriveStates, Accessing
<1>18. Searched'
  BY <1>1, <1>15, SearchIsOver DEF IInv, Searching
<1>19. Accessed'
  <2>1. FoundDrives' = FoundDrives
    BY <1>1 DEF FoundDrives
  <2>2. (pc \in {"poll", "send"} =>
           /\ drive[Target].cmd = call.op
           /\ drive[Target].st \in {"busy", "data", "err", "df"}
           /\ drive[Target].sector < Kind(Target).sectors => drive[Target].sector = call.lba
           /\ drive[Target].st = "data" => drive[Target].sector = call.lba)'
    BY <1>1, <1>10, <1>12, <1>13, <1>16 DEF Kind
  <2>3. QED BY <1>1, <1>3, <1>15, <1>16, <2>1, <2>2 DEF IInv, Accessed, Accessing
<1>20. ReadsAddressed'
  BY <1>15 DEF ReadsAddressed
<1>21. Stored'
  BY <1>1, <1>3, <1>12, <1>13 DEF IInv, Stored, WritesAddressed
<1>22. QED BY <1>17, <1>18, <1>19, <1>20, <1>21 DEF IInv

(* The selected drive of a call that has given its command.                *)
LEMMA TargetIsCalled ==
  ASSUME IInv, pc \in {"poll", "send", "flush", "flushed"}
  PROVE  /\ Target = call.dev.place /\ Target \in Places /\ drive[Target] \in DriveStates
         /\ call \in Calls /\ call.lba \in Nat /\ call.dev \in FoundDrives
         /\ (pc = "poll" <=> call.op = "read")
         /\ call.op = "write" => call.lba \in asked[Target]
         /\ Status(Channel) = {"DRDY"} \cup
              (CASE drive[Target].st = "idle" -> {} [] drive[Target].st = "busy" -> {"BSY"}
                 [] drive[Target].st = "data" -> {"DRQ"} [] drive[Target].st = "err" -> {"ERR"}
                 [] drive[Target].st = "df" -> {"DF"})
<1>1. pc \in Accessing
  BY DEF Accessing
<1>2. /\ call \in Calls /\ call.dev.place \in Places /\ IsAta(call.dev.place)
      /\ call.lba \in 0 .. U32 - 1
  BY <1>1, CalledDisk
<1>3. Target = call.dev.place /\ call.dev \in FoundDrives /\ (pc = "poll" <=> call.op = "read")
  BY <1>1 DEF IInv, Accessed
<1>4. Kind(Target).k = "ata"
  BY <1>2, <1>3 DEF IsAta
<1>5. drive[Target] \in DriveStates
  BY <1>2, <1>3 DEF IInv, Typed, DriveStates
<1>6. call.op = "write" => call.lba \in asked[Target]
  BY <1>1, <1>3 DEF IInv, Accessed
<1>7. Status(Channel) = {"DRDY"} \cup
        (CASE drive[Target].st = "idle" -> {} [] drive[Target].st = "busy" -> {"BSY"}
           [] drive[Target].st = "data" -> {"DRQ"} [] drive[Target].st = "err" -> {"ERR"}
           [] drive[Target].st = "df" -> {"DF"})
  BY <1>4 DEF Status, Target
<1>8. call.lba \in Nat
  BY <1>2, Sizes
<1>9. QED BY <1>2, <1>3, <1>5, <1>6, <1>7, <1>8

(* A read takes the data of the drive it polls.                            *)
LEMMA ReadDataKeeps == ASSUME IInv, ReadData PROVE IInv'
<1> DEFINE t == drive[Target]
           x == [t EXCEPT !.st = "idle"]
<1>1. /\ pc = "poll" /\ pc' = "return" /\ err' = Polled(Channel, TRUE)
      /\ \/ /\ err' = 0
            /\ call' = [call EXCEPT !.got = <<Target, t.sector, t.sector \in written[Target]>>]
            /\ drive' = [drive EXCEPT ![Target].st = "idle"]
         \/ err' # 0 /\ UNCHANGED <<call, drive>>
      /\ UNCHANGED <<setup, reg, written, at, devices, asked, calls>>
  BY DEF ReadData, Goto, Becomes, search
<1>2. /\ Target = call.dev.place /\ Target \in Places /\ t \in DriveStates
      /\ call \in Calls /\ call.lba \in Nat /\ call.dev \in FoundDrives
      /\ call.op = "read"
      /\ Status(Channel) = {"DRDY"} \cup
           (CASE t.st = "idle" -> {} [] t.st = "busy" -> {"BSY"} [] t.st = "data" -> {"DRQ"}
              [] t.st = "err" -> {"ERR"} [] t.st = "df" -> {"DF"})
  BY <1>1, TargetIsCalled
<1>3. err' = 0 => t.st = "data" /\ t.sector = call.lba
  <2>1. err' = 0 => "DRQ" \in Status(Channel)
    BY <1>1 DEF Polled
  <2>2. "DRQ" \in Status(Channel) => t.st = "data"
    BY <1>2 DEF DriveStates, States
  <2>3. t.st = "data" => t.sector = call.lba
    BY <1>1 DEF IInv, Accessed
  <2>4. QED BY <2>1, <2>2, <2>3
<1>4. err' = 0 => drive' = [drive EXCEPT ![Target] = x]
  BY <1>1
<1>5. x \in DriveStates /\ x.st = "idle" /\ x.cmd = t.cmd /\ x.sector = t.sector
  BY <1>2 DEF DriveStates, States
<1>6. t.cmd = "read"
  BY <1>1, <1>2 DEF IInv, Accessed
<1>7. t \in DriveStates /\ drive \in [Places -> DriveStates]
  BY <1>2 DEF IInv, Typed, DriveStates
<1> HIDE DEF x, t
<1>8. /\ drive' \in [Places -> DriveStates] /\ (err' = 0 => drive'[Target] = x)
      /\ \A e \in Places : e # Target => drive'[e] = drive[e]
      /\ drive'[Target].cmd = "read"
  <2>1. CASE err' = 0
    BY <1>2, <1>4, <1>5, <1>6, <2>1, OneDrive DEF IInv
  <2>2. CASE err' # 0
    BY <1>1, <1>6, <1>7, <2>2 DEF t
  <2>3. QED BY <2>1, <2>2
<1> DEFINE b == t.sector \in written[Target]
<1>9. /\ err' = 0 => call'.got = <<Target, call.lba, b>>
      /\ call'.op = "read" /\ call'.dev = call.dev /\ call'.lba = call.lba
      /\ call' \in Calls
  <2>1. CASE err' = 0
    <3>1. call' = [call EXCEPT !.got = <<Target, call.lba, b>>]
      BY <1>1, <1>3, <2>1
    <3> HIDE DEF b
    <3>2. (IF b THEN TRUE ELSE FALSE) \in BOOLEAN
      OBVIOUS
    <3>3. b \in BOOLEAN
      BY DEF b
    <3>4. <<Target, call.lba, b>> \in Places \X Nat \X BOOLEAN
      BY <1>2, <3>3
    <3> DEFINE g == <<Target, call.lba, b>>
    <3>5. call' = [call EXCEPT !.got = g] /\ g \in {<<>>} \cup (Places \X Nat \X BOOLEAN)
      BY <3>1, <3>4
    <3> HIDE DEF g
    <3>6. call'.got = g /\ call' \in Calls /\ call'.op = call.op /\ call'.dev = call.dev
          /\ call'.lba = call.lba
      BY <1>2, <3>5 DEF Calls
    <3>7. QED BY <1>2, <3>6 DEF g
  <2>2. CASE err' # 0
    BY <1>1, <1>2, <2>2
  <2>3. QED BY <2>1, <2>2
<1>10. err' = 0 => (b <=> call.lba \in written[call.dev.place])
  BY <1>2, <1>3
<1> HIDE DEF b
<1>11. Typed'
  BY <1>1, <1>8, <1>9 DEF IInv, Typed, DriveStates, Accessing
<1>12. Searched'
  BY <1>1, SearchIsOver DEF IInv, Searching
<1>13. Accessed'
  <2>1. FoundDrives' = FoundDrives
    BY <1>1 DEF FoundDrives
  <2>2. (pc = "return" /\ call.op = "read" /\ err = 0 => drive[call.dev.place].st = "idle")'
    BY <1>2, <1>5, <1>8, <1>9
  <2>3. QED BY <1>1, <1>2, <1>9, <2>1, <2>2 DEF Accessed
<1>14. ReadsAddressed'
  <2>1. err' = 0 => call'.got = <<call'.dev.place, call'.lba, call'.lba \in written'[call'.dev.place]>>
    <3>1. err' = 0 => b = (call.lba \in written[call.dev.place])
      BY <1>2, <1>3, Zenon DEF b
    <3>2. err' = 0 => call'.got = <<call.dev.place, call.lba, call.lba \in written[call.dev.place]>>
      BY <1>2, <1>9, <3>1, Zenon
    <3>3. QED BY <1>1, <1>9, <3>2, Zenon
  <2>2. QED BY <2>1 DEF ReadsAddressed
<1>15. Stored'
  BY <1>1, <1>8 DEF IInv, Stored, WritesAddressed
<1>16. QED BY <1>11, <1>12, <1>13, <1>14, <1>15 DEF IInv

(* A write hands over the words only to a drive that wants them, for the   *)
(* sector of the call.                                                     *)
LEMMA SendDataKeeps == ASSUME IInv, SendData PROVE IInv'
<1> DEFINE t == drive[Target]
           x == [st |-> "busy", cmd |-> "store", sector |-> t.sector]
<1>1. /\ pc = "send" /\ pc' = "flush"
      /\ drive' = IF t.st = "data" THEN [drive EXCEPT ![Target] = x] ELSE drive
      /\ UNCHANGED <<setup, reg, written, at, devices, call, err, asked, calls>>
  BY DEF SendData, Goto, Commanded, search, caller
<1>2. /\ Target = call.dev.place /\ Target \in Places /\ t \in DriveStates
      /\ call \in Calls /\ call.op = "write" /\ call.lba \in asked[Target]
  BY <1>1, TargetIsCalled DEF Calls
<1>3. t.st = "data" => t.sector = call.lba
  BY <1>1 DEF IInv, Accessed
<1>4. x \in DriveStates /\ x.sector = t.sector
  BY <1>2 DEF DriveStates, States, Commands
<1>5. drive \in [Places -> DriveStates]
  BY DEF IInv, Typed, DriveStates
<1> HIDE DEF x, t
<1>6. /\ drive' \in [Places -> DriveStates]
      /\ \A d \in Places : drive'[d] = drive[d] \/ (d = Target /\ drive'[d].sector \in asked[d])
  <2>1. CASE t.st = "data"
    BY <1>1, <1>2, <1>3, <1>4, <2>1, OneDrive DEF IInv
  <2>2. CASE t.st # "data"
    BY <1>1, <1>5, <2>2
  <2>3. QED BY <2>1, <2>2
<1>7. Typed'
  BY <1>1, <1>6 DEF IInv, Typed, DriveStates, Accessing
<1>8. Searched'
  BY <1>1, SearchIsOver DEF IInv, Searching
<1>9. Accessed'
  <2>1. FoundDrives' = FoundDrives /\ Target' = Target
    BY <1>1 DEF FoundDrives, Target, Selected, Channel
  <2>2. QED BY <1>1, <2>1 DEF IInv, Accessed, Accessing
<1>10. ReadsAddressed'
  BY <1>1 DEF ReadsAddressed
<1>11. Stored'
  BY <1>1, <1>6 DEF IInv, Stored, WritesAddressed
<1>12. QED BY <1>7, <1>8, <1>9, <1>10, <1>11 DEF IInv

(* The flush command, which a drive that stores the sector does not take.  *)
LEMMA FlushKeeps == ASSUME IInv, Flush PROVE IInv'
<1> DEFINE x == [st |-> "busy", cmd |-> "flush", sector |-> 0]
<1>1. /\ pc = "flush" /\ pc' = "flushed"
      /\ drive' = IF NotBusy(Channel) THEN [drive EXCEPT ![Target] = x] ELSE drive
      /\ UNCHANGED <<setup, reg, written, at, devices, call, err, asked, calls>>
  BY DEF Flush, Goto, Commanded, search, caller
<1>2. Target = call.dev.place /\ Target \in Places
  BY <1>1, TargetIsCalled
<1>3. x \in DriveStates /\ x.cmd = "flush"
  BY DEF DriveStates, States, Commands
<1>4. drive \in [Places -> DriveStates]
  BY DEF IInv, Typed, DriveStates
<1> HIDE DEF x
<1>5. /\ drive' \in [Places -> DriveStates]
      /\ \A d \in Places : drive'[d] = drive[d] \/ drive'[d].cmd = "flush"
  <2>1. CASE NotBusy(Channel)
    BY <1>1, <1>2, <1>3, <2>1, OneDrive DEF IInv
  <2>2. CASE ~ NotBusy(Channel)
    BY <1>1, <1>4, <2>2
  <2>3. QED BY <2>1, <2>2
<1>6. Typed'
  BY <1>1, <1>5 DEF IInv, Typed, DriveStates, Accessing
<1>7. Searched'
  BY <1>1, SearchIsOver DEF IInv, Searching
<1>8. Accessed'
  <2>1. FoundDrives' = FoundDrives /\ Target' = Target
    BY <1>1 DEF FoundDrives, Target, Selected, Channel
  <2>2. QED BY <1>1, <2>1 DEF IInv, Accessed, Accessing
<1>9. ReadsAddressed'
  BY <1>1 DEF ReadsAddressed
<1>10. Stored'
  BY <1>1, <1>5 DEF IInv, Stored, WritesAddressed
<1>11. QED BY <1>6, <1>7, <1>8, <1>9, <1>10 DEF IInv

(* A write returns without looking at an error.                            *)
LEMMA FlushedKeeps == ASSUME IInv, Flushed PROVE IInv'
<1>1. /\ pc = "flushed" /\ pc' = "return"
      /\ UNCHANGED <<setup, reg, drive, written, at, devices, call, err, asked, calls>>
  BY DEF Flushed, Goto, hardware, search
<1>2. call.op = "write"
  BY <1>1 DEF IInv, Accessed
<1>3. Typed'
  BY <1>1 DEF IInv, Typed, Accessing
<1>4. Searched'
  BY <1>1, SearchIsOver DEF IInv, Searching
<1>5. Accessed'
  <2>1. FoundDrives' = FoundDrives
    BY <1>1 DEF FoundDrives
  <2>2. QED BY <1>1, <1>2, <2>1 DEF IInv, Accessed, Accessing
<1>6. ReadsAddressed'
  BY <1>1, <1>2 DEF ReadsAddressed
<1>7. Stored'
  BY <1>1 DEF IInv, Stored, WritesAddressed
<1>8. QED BY <1>3, <1>4, <1>5, <1>6, <1>7 DEF IInv

(* The call ends.                                                          *)
LEMMA ReturnKeeps == ASSUME IInv, Return PROVE IInv'
<1>1. /\ pc = "return" /\ pc' = "idle"
      /\ UNCHANGED <<setup, reg, drive, written, at, devices, asked, calls>>
  BY DEF Return, Goto, hardware, search
<1>2. Typed'
  BY <1>1 DEF IInv, Typed, Accessing, Searching
<1>3. Searched'
  BY <1>1, SearchIsOver DEF IInv, Searching
<1>4. Accessed' /\ ReadsAddressed'
  BY <1>1, NotAccessing
<1>5. Stored'
  BY <1>1 DEF IInv, Stored, WritesAddressed
<1>6. QED BY <1>2, <1>3, <1>4, <1>5 DEF IInv

(* A drive goes on, whatever the driver does meanwhile.                    *)
LEMMA AnswerKeeps == ASSUME IInv, NEW d \in Places, Answer(d) PROVE IInv'
<1> DEFINE t == drive[d]
<1>1. /\ IsDrive(d) /\ t.st = "busy"
      /\ UNCHANGED <<setup, reg, at, devices, pc, call, err, asked, calls>>
  BY DEF Answer, search, caller
<1>2. PICK st \in States :
        /\ drive' = [drive EXCEPT ![d].st = st]
        /\ t.cmd = "identify" => st = IF IsAta(d) THEN "data" ELSE "err"
        /\ t.cmd \in {"read", "write"} =>
             st \in {"err", "df"} \/ (st = "data" /\ t.sector < Kind(d).sectors)
        /\ \/ written' = written
           \/ t.cmd = "store" /\ written' = [written EXCEPT ![d] = @ \cup {t.sector}]
  <2>1. CASE t.cmd = "identify"
    BY <2>1 DEF Answer, Becomes, States
  <2>2. CASE t.cmd \in {"read", "write"}
    BY <2>2 DEF Answer, Becomes, States
  <2>3. CASE t.cmd = "store"
    BY <2>3 DEF Answer, Becomes, States
  <2>4. CASE t.cmd = "flush"
    BY <2>4 DEF Answer, Becomes, States
  <2>5. t.cmd \in Commands /\ t.cmd # "none"
    BY DEF Answer, IInv, Typed
  <2>6. QED BY <2>1, <2>2, <2>3, <2>4, <2>5 DEF Commands
<1> DEFINE x == [t EXCEPT !.st = st]
<1>3. t \in DriveStates /\ drive' = [drive EXCEPT ![d] = x]
  BY <1>2 DEF IInv, Typed, DriveStates
<1>4. x \in DriveStates /\ x.st = st /\ x.cmd = t.cmd /\ x.sector = t.sector
  BY <1>3 DEF DriveStates
<1> HIDE DEF x, t
<1>5. /\ drive' \in [Places -> DriveStates] /\ drive'[d] = x
      /\ \A e \in Places : e # d => drive'[e] = drive[e]
  BY <1>3, <1>4, OneDrive DEF IInv
<1>6. /\ written' \in [Places -> SUBSET Nat]
      /\ \A e \in Places :
           \/ written'[e] = written[e]
           \/ /\ e = d /\ drive[e].cmd = "store"
              /\ written'[e] = written[e] \cup {drive[e].sector}
  BY <1>2, <1>3 DEF IInv, Typed, DriveStates, t
<1>7. Typed'
  BY <1>1, <1>5, <1>6 DEF IInv, Typed, DriveStates
<1>8. FoundDrives' = FoundDrives /\ Target' = Target /\ Kind(Target)' = Kind(Target)
  BY <1>1 DEF FoundDrives, Target, Selected, Channel, Kind
<1>9. Searched'
  <2>1. ASSUME pc \in {"present", "probe"}, IsDrive(at)
        PROVE  /\ drive'[at].cmd = "identify"
               /\ drive'[at].st \in {"busy", IF IsAta(at) THEN "data" ELSE "err"}
    <3>1. /\ at \in Places /\ drive[at].cmd = "identify"
          /\ drive[at].st \in {"busy", IF IsAta(at) THEN "data" ELSE "err"}
      BY <2>1 DEF IInv, Searched, Searching
    <3>2. QED BY <1>2, <1>4, <1>5, <3>1 DEF t
  <2>2. QED BY <1>1, <1>8, <2>1
           DEF IInv, Searched, FoundDrives, Description, Before, Kind, IsAta, IsDrive
<1>10. Accessed'
  <2>1. ASSUME pc \in {"poll", "send"}
        PROVE  /\ drive'[Target].cmd = call.op
               /\ drive'[Target].st \in {"busy", "data", "err", "df"}
               /\ drive'[Target].sector < Kind(Target).sectors => drive'[Target].sector = call.lba
               /\ drive'[Target].st = "data" => drive'[Target].sector = call.lba
    <3>1. Target \in Places /\ call \in Calls
      BY <2>1, TargetIsCalled
    <3>2. /\ drive[Target].cmd = call.op
          /\ drive[Target].st \in {"busy", "data", "err", "df"}
          /\ drive[Target].sector < Kind(Target).sectors => drive[Target].sector = call.lba
          /\ drive[Target].st = "data" => drive[Target].sector = call.lba
      BY <2>1 DEF IInv, Accessed
    <3>3. CASE Target = d
      <4>1. call.op \in {"read", "write"}
        BY <3>1 DEF Calls
      <4>2. QED BY <1>2, <1>4, <1>5, <3>2, <3>3, <4>1 DEF t
    <3>4. CASE Target # d
      BY <1>5, <3>1, <3>2, <3>4
    <3>5. QED BY <3>3, <3>4
  <2>2. ASSUME pc = "return", call.op = "read", err = 0
        PROVE  drive'[call.dev.place].st = "idle"
    <3>1. call.dev.place \in Places /\ drive[call.dev.place].st = "idle"
      BY <2>2, CalledDisk DEF IInv, Accessed, Accessing
    <3>2. QED BY <1>1, <1>5, <3>1 DEF t
  <2>3. QED BY <1>1, <1>8, <2>1, <2>2 DEF IInv, Accessed, BeyondEnd
<1>11. ReadsAddressed'
  <2>1. ASSUME pc = "return", call.op = "read", err = 0
        PROVE  written'[call.dev.place] = written[call.dev.place]
    <3>1. call.dev.place \in Places /\ drive[call.dev.place].st = "idle"
      BY <2>1, CalledDisk DEF IInv, Accessed, Accessing
    <3>2. QED BY <1>1, <1>6, <3>1 DEF t
  <2>2. QED BY <1>1, <2>1 DEF IInv, ReadsAddressed
<1>12. Stored'
  BY <1>1, <1>4, <1>5, <1>6 DEF IInv, Stored, WritesAddressed, t
<1>13. QED BY <1>7, <1>9, <1>10, <1>11, <1>12 DEF IInv

-----------------------------------------------------------------------------
(* Every step keeps the invariant.                                         *)
LEMMA NextIInv == IInv /\ [PataNext]_pataVars => IInv'
<1> SUFFICES ASSUME IInv, [PataNext]_pataVars PROVE IInv'
  OBVIOUS
<1>1. CASE Driver
  BY <1>1, SelectDriveKeeps, IdentifyKeeps, PresentKeeps, RefusedKeeps, RegisterKeeps,
     CommandKeeps, ReadDataKeeps, SendDataKeeps, FlushKeeps, FlushedKeeps, ReturnKeeps
     DEF Driver, ide_initialize, ide_ata_access
<1>2. CASE disk_read \/ disk_write
  BY <1>2, CalledKeeps DEF disk_read, disk_write
<1>3. CASE \E d \in Places : Answer(d)
  BY <1>3, AnswerKeeps
<1>4. CASE UNCHANGED pataVars
  BY <1>4 DEF pataVars, hardware, search, caller, IInv, Typed, Searched, Accessed, Stored,
     ReadsAddressed, WritesAddressed, FoundDrives, Description, Before, Kind, IsAta, IsDrive,
     Target, Selected, Channel, BeyondEnd
<1>5. QED BY <1>1, <1>2, <1>3, <1>4 DEF PataNext

(* The inductive invariant holds throughout.                               *)
LEMMA PataInvariant == PataSpec => []IInv
BY InitIInv, NextIInv, PTL DEF PataSpec

(* disk_read returns the sector it was asked for, of the drive it was      *)
(* asked of, as it was last stored, for every number of drives, sizes of   *)
(* them and addressing (disk.c:441).                                       *)
THEOREM PataReadsAddressed == PataSpec => []ReadsAddressed
<1>1. IInv => ReadsAddressed
  BY DEF IInv
<1>2. QED BY <1>1, PataInvariant, PTL

(* disk_write changes no sector but its own, whichever drive was selected  *)
(* before on its channel.                                                  *)
THEOREM PataWritesAddressed == PataSpec => []WritesAddressed
<1>1. IInv => WritesAddressed
  BY DEF IInv, Stored
<1>2. QED BY <1>1, PataInvariant, PTL

(* The search ends with all ATA disks registered, each once, and nothing   *)
(* else (disk.c:331).                                                      *)
THEOREM PataFindsTheDisks == PataSpec => []FindsTheDisks
<1>1. IInv => FindsTheDisks
  <2> SUFFICES ASSUME IInv, at[1] = Channels PROVE FindsTheDisks
    BY DEF FindsTheDisks
  <2>1. at \notin Places
    <3>1. \A d \in Places : d[1] # Channels
      BY PlaceShape, Sizes
    <3>2. QED BY <3>1
  <2>2. at = <<Channels, 0>>
    BY <2>1 DEF IInv, Typed
  <2>3. Before(at) = Places
    <3>1. \A d \in Places : d[1] < Channels
      BY PlaceShape, Sizes
    <3>2. QED BY <2>2, <3>1 DEF Before
  <2>4. DOMAIN devices = 1 .. Len(devices)
    BY LenProperties DEF IInv, Typed
  <2>5. FoundDrives = {Description(d) : d \in {p \in Places : IsAta(p)}}
    BY <2>3 DEF IInv, Searched
  <2>6. \A i, j \in 1 .. Len(devices) : i # j => devices[i].place # devices[j].place
    BY <2>4 DEF IInv, Searched
  <2>7. QED BY <2>5, <2>6 DEF FindsTheDisks, Description
<1>2. QED BY <1>1, PataInvariant, PTL
=============================================================================
