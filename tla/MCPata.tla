--------------------------------- MODULE MCPata ---------------------------------
(***************************************************************************)
(* The PATA driver on small drives: bytes have 4 values, a track has 3     *)
(* sectors and a cylinder 2 heads, so that a CHS drive ends at 96 sectors, *)
(* LBA28 at 127 and LBA48 within the 256 values of a sector number.        *)
(***************************************************************************)
EXTENDS Pata

None  == [k |-> "none", mode |-> 0, sectors |-> 0]
Float == [k |-> "float", mode |-> 0, sectors |-> 0]
Cd    == [k |-> "atapi", mode |-> 0, sectors |-> 0]
Ata(mode, sectors) == [k |-> "ata", mode |-> mode, sectors |-> sectors]

Chain(m0, s0, m1, s1) ==
  [d \in {0, 1} \X {0, 1} |-> IF d[1] = 0 THEN (IF d[2] = 0 THEN m0 ELSE s0)
                              ELSE (IF d[2] = 0 THEN m1 ELSE s1)]

\* Two disks on one channel, on two, beside a CD drive, and none at all.
MCSetups == {Chain(Ata(0, 96), Ata(2, 256 - 1), Float, Float),
             Chain(Ata(1, 127), Cd, None, Ata(2, 200)),
             Chain(Cd, None, Ata(2, 200), Ata(1, 100)),
             Chain(Float, Float, None, None)}

\* The first sector and the last ones of each kind of drive, a change of head, of
\* cylinder, and of each byte, and the number that wraps.
MCLbas == {0, 3, 17, 95, 126, 127, 199, 255}
================================================================================
