--------------------------- MODULE Devices_proofs ---------------------------
(***************************************************************************)
(* The registry's two sides agree, and the pages of a driver file stay     *)
(* mapped exactly while they are used: for every order of the kernel's     *)
(* calls, every number of devices, drivers and failures of their init, and *)
(* whatever ids the stack held.                                            *)
(***************************************************************************)
EXTENDS Devices, FiniteSetTheorems, SequenceTheorems, WellFoundedInduction, TLAPS

-----------------------------------------------------------------------------
(* The inductive invariant.                                                *)

Frames == [call : {"register"}, device : Nat, next : Nat]
            \cup [call : {"init"}, driver : Drivers, device : Nat, found : Nat]
            \cup [call : {"postregister"}, driver : Drivers, next : Nat, detected : Nat]
Typed == TypeOK /\ calls \in Seq(Frames)

(* How calls nest: at most install_driver, the init of the controller,     *)
(* register_device of one of its disks and the init of the disk's driver.  *)
Installing == calls # <<>> /\ calls[1].call = "postregister"
Registering == calls # <<>> /\ calls[1].call = "register"
Nested ==
  LET n == Len(calls)
  IN /\ n <= 4
     /\ n >= 1 => Installing \/ Registering
     /\ n >= 2 => calls[2].call = "init"
     /\ n >= 2 /\ Registering => calls[2].driver # Controller
     /\ n >= 2 /\ Installing => calls[2].driver = calls[1].driver
     /\ n >= 3 => /\ Installing /\ calls[2].driver = Controller /\ calls[3].call = "register"
                  /\ heap[calls[3].device].kind = "disk"
     /\ n = 4 => calls[4].call = "init" /\ calls[4].driver = Disk
     /\ Installing => calls[1].detected + (IF n > 1 THEN 1 ELSE 0) < calls[1].next

(* What the script has to do with the call at work.                        *)
Past == {script[j] : j \in 1 .. step - 1}
Installed(driver) == [call |-> "install_driver", driver |-> driver] \in Past
Scripted ==
  /\ calls # <<>> => step > 1
  /\ Registering => script[step - 1] = [call |-> "register_device",
                                        kind |-> heap[calls[1].device].kind]
  /\ Installing =>
       /\ script[step - 1] = [call |-> "install_driver", driver |-> calls[1].driver]
       /\ \A i \in DOMAIN available_drivers : available_drivers[i].driver # calls[1].driver
  /\ \A i \in DOMAIN available_drivers : Installed(available_drivers[i].driver)
  /\ \A s \in Subsystems : \A i \in DOMAIN instances[s] : Installed(instances[s][i].driver)

(* The device being registered has an id that no other has.                *)
Identified ==
  /\ UniqueIds
  /\ \A i \in DOMAIN calls : calls[i].call = "register" => heap[calls[i].device].id \notin Ids

(* Instances and owned devices correspond. An init that may fail is that   *)
(* of the last text screen.                                                *)
Trying == In("init") /\ Top.driver \in Files
Screens == instances["ttype"]
Paired ==
  /\ \A s \in Subsystems : \A i \in DOMAIN instances[s] :
       /\ heap[instances[s][i].device].owned
       /\ instances[s][i].driver \in Files => s = "ttype"
  /\ \A d \in DOMAIN heap : heap[d].owned =>
       \E s \in Subsystems : \E i \in DOMAIN instances[s] : instances[s][i].device = d
  /\ \A s, t \in Subsystems : \A i \in DOMAIN instances[s], j \in DOMAIN instances[t] :
       instances[s][i].device = instances[t][j].device => s = t /\ i = j
  /\ Trying => /\ Screens # <<>> /\ Screens[Len(Screens)].driver = Top.driver
               /\ Screens[Len(Screens)].device = Top.device

(* The files that drive a screen for good.                                 *)
Sure == Len(Screens) - (IF Trying THEN 1 ELSE 0)
SettledFiles == {Screens[i].driver : i \in 1 .. Sure}
Kept ==
  /\ \A s \in Subsystems : \A i \in DOMAIN instances[s] :
       instances[s][i].driver \in Files => instances[s][i].driver \in resident
  /\ \A i \in DOMAIN available_drivers :
       available_drivers[i].loaded /\ available_drivers[i].driver \in Files =>
         available_drivers[i].driver \in resident
  /\ Installing /\ calls[1].driver \in Files =>
       /\ calls[1].driver \in resident
       /\ calls[1].detected > 0 <=> calls[1].driver \in SettledFiles
  /\ \A f \in resident : f \in SettledFiles \/ (Installing /\ calls[1].driver = f)

IInv == Typed /\ Nested /\ Scripted /\ Identified /\ Paired /\ Kept

-----------------------------------------------------------------------------
(* Types.                                                                  *)

DeviceSet(h) == [kind : DOMAIN Kinds, id : Nat, parent : 0 .. h, children : Seq(1 .. h),
                 owned : BOOLEAN]
Indexes == [driver : Drivers, loaded : BOOLEAN]
ElementKinds == {"none", "index", "pointer"}
States == {"up", "stopped", "panicked", "wild"}
InstanceSet(h) == [driver : Drivers, device : 1 .. h]
\* A frame with h devices on the heap, a drivers and n devices of the system.
Bounded(f, h, a, n) ==
  \/ f \in [call : {"register"}, device : 1 .. h, next : 1 .. a + 1]
  \/ f \in [call : {"init"}, driver : Drivers, device : 1 .. h, found : 0 .. MaxDisks]
  \/ f \in [call : {"postregister"}, driver : Drivers, next : 1 .. n + 1, detected : 0 .. n]

(* TypeOK, with the sizes as parameters.                                   *)
LEMMA TypeParts ==
  TypeOK <=>
    /\ heap \in Seq(DeviceSet(Len(heap)))
    /\ devices \in Seq(1 .. Len(heap)) /\ current_id \in Nat \ {0}
    /\ available_drivers \in Seq(Indexes)
    /\ instances \in [Subsystems -> Seq(InstanceSet(Len(heap)))]
    /\ active_disk_driver \in 0 .. Len(heap)
    /\ resident \subseteq Files
    /\ script \in Scripts /\ step \in 1 .. Len(script) + 1
    /\ element \in ElementKinds /\ state \in States
    /\ \A i \in DOMAIN calls :
         Bounded(calls[i], Len(heap), Len(available_drivers), Len(devices))
BY DEF TypeOK, DeviceSet, Indexes, InstanceSet, Bounded, ElementKinds, States

(* What is in the sequences.                                               *)
LEMMA Elements ==
  ASSUME TypeOK
  PROVE  /\ Len(heap) \in Nat /\ DOMAIN heap = 1 .. Len(heap)
         /\ \A d \in 1 .. Len(heap) : heap[d] \in DeviceSet(Len(heap))
         /\ Len(devices) \in Nat /\ DOMAIN devices = 1 .. Len(devices)
         /\ \A i \in 1 .. Len(devices) : devices[i] \in 1 .. Len(heap)
         /\ Len(available_drivers) \in Nat
         /\ DOMAIN available_drivers = 1 .. Len(available_drivers)
         /\ \A i \in 1 .. Len(available_drivers) : available_drivers[i] \in Indexes
         /\ \A s \in Subsystems :
              /\ Len(instances[s]) \in Nat /\ DOMAIN instances[s] = 1 .. Len(instances[s])
              /\ \A i \in 1 .. Len(instances[s]) : instances[s][i] \in InstanceSet(Len(heap))
<1>1. heap \in Seq(DeviceSet(Len(heap))) /\ devices \in Seq(1 .. Len(heap))
      /\ available_drivers \in Seq(Indexes)
      /\ instances \in [Subsystems -> Seq(InstanceSet(Len(heap)))]
  BY TypeParts
<1>2. \A S : \A s \in Seq(S) : /\ Len(s) \in Nat /\ DOMAIN s = 1 .. Len(s)
                               /\ \A i \in 1 .. Len(s) : s[i] \in S
  BY LenProperties, ElementOfSeq
<1>3. \A s \in Subsystems : instances[s] \in Seq(InstanceSet(Len(heap)))
  BY <1>1
<1>4. QED BY <1>1, <1>2, <1>3

(* A frame stays in its bounds when the sequences grow.                    *)
LEMMA BoundsGrow ==
  ASSUME NEW f, NEW h \in Nat, NEW a \in Nat, NEW n \in Nat, Bounded(f, h, a, n),
         NEW hh \in Nat, NEW aa \in Nat, NEW nn \in Nat, h <= hh, a <= aa, n <= nn
  PROVE  Bounded(f, hh, aa, nn)
<1>1. 1 .. h \subseteq 1 .. hh /\ 1 .. a + 1 \subseteq 1 .. aa + 1
      /\ 1 .. n + 1 \subseteq 1 .. nn + 1 /\ 0 .. n \subseteq 0 .. nn
  OBVIOUS
<1>2. QED BY <1>1 DEF Bounded

(* A frame within bounds is a frame.                                       *)
LEMMA BoundedIsFrame ==
  ASSUME NEW f, NEW h \in Nat, NEW a \in Nat, NEW n \in Nat, Bounded(f, h, a, n)
  PROVE  f \in Frames
<1>1. 1 .. h \subseteq Nat /\ 1 .. a + 1 \subseteq Nat /\ 1 .. n + 1 \subseteq Nat
      /\ 0 .. n \subseteq Nat /\ 0 .. MaxDisks \subseteq Nat
  BY DevicesAssumption
<1>2. QED BY <1>1 DEF Bounded, Frames

(* The first k calls of the stack.                                         *)
LEMMA Prefix ==
  ASSUME Typed, NEW k \in 0 .. Len(calls)
  PROVE  /\ SubSeq(calls, 1, k) \in Seq(Frames) /\ Len(SubSeq(calls, 1, k)) = k
         /\ \A i \in 1 .. k : SubSeq(calls, 1, k)[i] = calls[i]
<1>1. calls \in Seq(Frames) /\ Len(calls) \in Nat
  BY LenProperties DEF Typed
<1>2. \A i \in 1 .. k : calls[i] \in Frames
  BY <1>1, ElementOfSeq
<1>3. QED BY <1>1, <1>2, SubSeqProperties

(* The stack with its top exchanged, taken away, or called from.           *)
LEMMA Stack ==
  ASSUME Typed, calls # <<>>
  PROVE  LET n == Len(calls)
         IN /\ n \in Nat \ {0} /\ DOMAIN calls = 1 .. n /\ Top = calls[n]
            /\ Bounded(Top, Len(heap), Len(available_drivers), Len(devices))
            /\ Callers \in Seq(Frames) /\ Len(Callers) = n - 1
            /\ \A i \in 1 .. n - 1 : Callers[i] = calls[i]
            /\ \A f \in Frames :
                 /\ Append(Callers, f) \in Seq(Frames) /\ Len(Append(Callers, f)) = n
                 /\ Append(Callers, f)[n] = f
                 /\ \A i \in 1 .. n - 1 : Append(Callers, f)[i] = calls[i]
            /\ \A f, g \in Frames :
                 /\ Append(Append(Callers, f), g) \in Seq(Frames)
                 /\ Len(Append(Append(Callers, f), g)) = n + 1
                 /\ Append(Append(Callers, f), g)[n] = f
                 /\ Append(Append(Callers, f), g)[n + 1] = g
                 /\ \A i \in 1 .. n - 1 : Append(Append(Callers, f), g)[i] = calls[i]
<1> DEFINE n == Len(calls)
<1>1. n \in Nat \ {0} /\ DOMAIN calls = 1 .. n
  BY EmptySeq, LenProperties DEF Typed
<1>2. Bounded(Top, Len(heap), Len(available_drivers), Len(devices)) /\ Top = calls[n]
  <2>1. Top = calls[n] /\ n \in DOMAIN calls
    BY <1>1 DEF Top
  <2>2. \A i \in DOMAIN calls :
          Bounded(calls[i], Len(heap), Len(available_drivers), Len(devices))
    BY TypeParts DEF Typed
  <2>3. QED BY <2>1, <2>2
<1>3. /\ Callers \in Seq(Frames) /\ Len(Callers) = n - 1
      /\ \A i \in 1 .. n - 1 : Callers[i] = calls[i]
  BY <1>1, Prefix DEF Callers
<1> HIDE DEF n
<1>4. ASSUME NEW f \in Frames
      PROVE  /\ Append(Callers, f) \in Seq(Frames) /\ Len(Append(Callers, f)) = n
             /\ Append(Callers, f)[n] = f
             /\ \A i \in 1 .. n - 1 : Append(Callers, f)[i] = calls[i]
  BY <1>1, <1>3, AppendProperties
<1>5. ASSUME NEW f \in Frames, NEW g \in Frames
      PROVE  /\ Append(Append(Callers, f), g) \in Seq(Frames)
             /\ Len(Append(Append(Callers, f), g)) = n + 1
             /\ Append(Append(Callers, f), g)[n] = f
             /\ Append(Append(Callers, f), g)[n + 1] = g
             /\ \A i \in 1 .. n - 1 : Append(Append(Callers, f), g)[i] = calls[i]
  <2> DEFINE s == Append(Callers, f)
  <2>1. /\ s \in Seq(Frames) /\ Len(s) = n /\ s[n] = f
        /\ \A i \in 1 .. n - 1 : s[i] = calls[i]
    BY <1>4
  <2> HIDE DEF s
  <2>2. /\ Append(s, g) \in Seq(Frames) /\ Len(Append(s, g)) = n + 1
        /\ Append(s, g)[n + 1] = g /\ \A i \in 1 .. n : Append(s, g)[i] = s[i]
    BY <2>1, AppendProperties
  <2>3. Append(s, g)[n] = f /\ \A i \in 1 .. n - 1 : Append(s, g)[i] = calls[i]
    BY <1>1, <2>1, <2>2
  <2>4. QED BY <2>2, <2>3 DEF s
<1>6. QED BY <1>1, <1>2, <1>3, <1>4, <1>5 DEF n

-----------------------------------------------------------------------------
(* Identifiers.                                                            *)

(* A nonempty set of numbers has a least element.                          *)
LEMMA LeastExists ==
  ASSUME NEW S \in SUBSET Nat, S # {}
  PROVE  \E x \in S : \A y \in S : x <= y
<1> DEFINE R == OpToRel(<, Nat)
<1>a. IsWellFoundedOn(R, Nat)
  BY NatLessThanWellFounded
<1>2. R = {ss \in Nat \X Nat : ss[1] < ss[2]}
  BY Zenon DEF OpToRel
<1> HIDE DEF R
<1>1. PICK x \in S : \A y \in S : ~ (<<y, x>> \in R)
  BY <1>a, WFMin
<1>3. ASSUME NEW y \in S PROVE x <= y
  <2> DEFINE p == <<y, x>>
  <2>1. p \in Nat \X Nat /\ p[1] = y /\ p[2] = x /\ p \notin R
    BY <1>1
  <2> HIDE DEF p
  <2>2. ~ (y < x)
    BY <1>2, <2>1
  <2>3. QED BY <2>2
<1>4. QED BY <1>3

(* Of as many ids as there are devices and one, one is free.               *)
LEMMA FreshIdIsFresh ==
  ASSUME TypeOK
  PROVE  FreshId \in Nat \ {0} /\ FreshId \notin Ids
<1> DEFINE c == current_id
           n == Len(devices)
           Window == c .. c + n
<1>1. c \in Nat \ {0} /\ n \in Nat /\ DOMAIN devices = 1 .. n
  BY TypeParts, Elements
<1>2. Ids = {heap[devices[i]].id : i \in 1 .. n}
  BY <1>1 DEF Ids
<1>3. \E m \in Window : m \notin Ids
  <2> SUFFICES ASSUME \A m \in Window : m \in Ids PROVE FALSE
    OBVIOUS
  <2> DEFINE Of(m) == CHOOSE i \in 1 .. n : heap[devices[i]].id = m
             f == [m \in Window |-> Of(m)]
  <2>1. \A m \in Window : Of(m) \in 1 .. n /\ heap[devices[Of(m)]].id = m
    BY <1>2
  <2>2. f \in [Window -> 1 .. n] /\ \A m \in Window : heap[devices[f[m]]].id = m
    BY <2>1
  <2>3. /\ IsFiniteSet(Window) /\ Cardinality(Window) = n + 1
        /\ IsFiniteSet(1 .. n) /\ Cardinality(1 .. n) = n
    <3>1. c \in Int /\ c + n \in Int /\ 1 \in Int /\ n \in Int
      BY <1>1
    <3> HIDE DEF c, n
    <3>2. /\ IsFiniteSet(1 .. n) /\ Cardinality(1 .. n) = IF 1 > n THEN 0 ELSE n - 1 + 1
          /\ IsFiniteSet(c .. c + n)
          /\ Cardinality(c .. c + n) = IF c > c + n THEN 0 ELSE c + n - c + 1
      BY <3>1, FS_Interval
    <3>3. QED BY <1>1, <3>2
  <2> HIDE DEF f, Window
  <2>4. \E x, y \in Window : x # y /\ f[x] = f[y]
    BY <1>1, <2>2, <2>3, FS_PigeonHole
  <2>5. QED BY <2>2, <2>4
<1> DEFINE Free == {m \in Window : m \notin Ids}
<1>4. Free \in SUBSET Nat /\ Free # {}
  BY <1>1, <1>3
<1>5. PICK x \in Free : \A y \in Free : x <= y
  BY <1>4, LeastExists
<1>6. x \in Window /\ x \notin Ids /\ \A m \in c .. x - 1 : m \in Ids
  BY <1>1, <1>5
<1>7. FreshId \in Window /\ FreshId \notin Ids
  BY <1>6 DEF FreshId
<1>8. QED BY <1>1, <1>7

(* The id that a new device gets is no other's.                            *)
LEMMA UniqueIdIsUnique ==
  ASSUME TypeOK, NEW asked \in Nat
  PROVE  UniqueId(asked) \in Nat /\ UniqueId(asked) \notin Ids
BY FreshIdIsFresh DEF UniqueId

(* A lookup finds a device or none.                                        *)
LEMMA LookupTyped ==
  ASSUME TypeOK, NEW id
  PROVE  get_device_by_id(id) \in 0 .. Len(heap)
<1>1. /\ Len(devices) \in Nat /\ DOMAIN devices = 1 .. Len(devices) /\ Len(heap) \in Nat
      /\ \A i \in 1 .. Len(devices) : devices[i] \in 1 .. Len(heap)
  BY Elements
<1>2. ASSUME id \in Ids
      PROVE  \E i \in DOMAIN devices :
               heap[devices[i]].id = id /\ \A j \in 1 .. i - 1 : heap[devices[j]].id # id
  <2> DEFINE S == {i \in 1 .. Len(devices) : heap[devices[i]].id = id}
  <2>1. S \in SUBSET Nat /\ S # {}
    BY <1>1, <1>2 DEF Ids
  <2>2. PICK i \in S : \A j \in S : i <= j
    BY <2>1, LeastExists
  <2>3. \A j \in 1 .. i - 1 : j \in 1 .. Len(devices) /\ j \notin S
    BY <1>1, <2>2
  <2>4. QED BY <1>1, <2>2, <2>3
<1>3. QED BY <1>1, <1>2 DEF get_device_by_id, null

-----------------------------------------------------------------------------
(* What a step has to show.                                                *)

(* TypeOK after a step.                                                    *)
LEMMA TypeNext ==
  ASSUME heap' \in Seq(DeviceSet(Len(heap'))),
         devices' \in Seq(1 .. Len(heap')), current_id' \in Nat \ {0},
         available_drivers' \in Seq(Indexes),
         instances' \in [Subsystems -> Seq(InstanceSet(Len(heap')))],
         active_disk_driver' \in 0 .. Len(heap'),
         resident' \subseteq Files,
         script' \in Scripts, step' \in 1 .. Len(script') + 1,
         element' \in ElementKinds, state' \in States,
         \A i \in DOMAIN calls' :
           Bounded(calls'[i], Len(heap'), Len(available_drivers'), Len(devices'))
  PROVE  TypeOK'
BY DEF TypeOK, DeviceSet, Indexes, InstanceSet, Bounded, ElementKinds, States

(* Where the stack can be.                                                 *)
LEMMA TopShape ==
  ASSUME Typed, Nested, calls # <<>>
  PROVE  /\ Len(calls) \in 1 .. 4 /\ Top = calls[Len(calls)]
         /\ In("register") => \/ Len(calls) = 1 /\ Registering
                              \/ Len(calls) = 3 /\ Installing
         /\ In("init") => Len(calls) = 2 \/ (Len(calls) = 4 /\ Top.driver = Disk)
         /\ In("postregister") => Len(calls) = 1 /\ Installing
         /\ Trying => Len(calls) = 2
<1>1. Len(calls) \in 1 .. 4 /\ Top = calls[Len(calls)]
  <2> DEFINE n == Len(calls)
  <2>1. n \in Nat \ {0} /\ Top = calls[n]
    BY Stack
  <2>2. n <= 4
    BY DEF Nested
  <2> HIDE DEF n
  <2>3. n \in 1 .. 4
    BY <2>1, <2>2
  <2>4. QED BY <2>1, <2>3 DEF n
<1>2. /\ Len(calls) = 1 => Top.call \in {"register", "postregister"}
      /\ Len(calls) = 2 => Top.call = "init"
      /\ Len(calls) = 3 => Top.call = "register" /\ Installing
      /\ Len(calls) = 4 => Top.call = "init" /\ Top.driver = Disk
  BY <1>1 DEF Nested, Installing, Registering
<1>3. /\ Len(calls) = 1 /\ Top.call = "register" => Registering
      /\ Len(calls) = 1 /\ Top.call = "postregister" => Installing
  BY <1>1 DEF Installing, Registering
<1>4. Disk \notin Files
  BY DevicesAssumption
<1>5. QED BY <1>1, <1>2, <1>3, <1>4 DEF In, Trying

(* The parts about the script stay when the first call does.               *)
LEMMA ScriptedStays ==
  ASSUME Typed, Nested, Scripted, calls # <<>>, calls' # <<>>,
         UNCHANGED <<script, step, available_drivers, instances>>,
         calls'[1].call = calls[1].call,
         calls[1].call = "register" =>
           heap'[calls'[1].device].kind = heap[calls[1].device].kind,
         calls[1].call = "postregister" => calls'[1].driver = calls[1].driver
  PROVE  Scripted'
<1>1. Past' = Past
  BY DEF Past
<1>2. QED BY <1>1 DEF Scripted, Installing, Registering, Installed

(* Ids stay unique when only devices to be are added.                      *)
LEMMA IdentifiedStays ==
  ASSUME Typed, Identified, UNCHANGED devices, Len(heap) \in Nat,
         \A d \in 1 .. Len(heap) : heap'[d].id = heap[d].id,
         \A i \in DOMAIN calls' : calls'[i].call = "register" =>
           heap'[calls'[i].device].id \notin Ids
  PROVE  Identified' /\ Ids' = Ids
<1>1. DOMAIN devices = 1 .. Len(devices) /\ \A i \in 1 .. Len(devices) : devices[i] \in 1 .. Len(heap)
  BY Elements DEF Typed
<1>2. Ids' = Ids
  <2>1. \A i \in DOMAIN devices : heap'[devices[i]].id = heap[devices[i]].id
    BY <1>1
  <2>2. QED BY <2>1 DEF Ids
<1>3. UniqueIds'
  BY <1>1 DEF Identified, UniqueIds
<1>4. QED BY <1>2, <1>3 DEF Identified

(* Instances and owned devices correspond when neither changes.            *)
LEMMA PairedStays ==
  ASSUME Typed, Paired, UNCHANGED instances, Len(heap') \in Nat, Len(heap) <= Len(heap'),
         DOMAIN heap' = 1 .. Len(heap'),
         \A d \in 1 .. Len(heap) : heap'[d].owned <=> heap[d].owned,
         \A d \in Len(heap) + 1 .. Len(heap') : ~ heap'[d].owned,
         ~ Trying'
  PROVE  Paired'
<1>1. Len(heap) \in Nat /\ DOMAIN heap = 1 .. Len(heap)
  BY Elements DEF Typed
<1>2. \A s \in Subsystems : \A i \in DOMAIN instances[s] :
        instances[s][i].device \in 1 .. Len(heap)
  BY Elements DEF Typed, InstanceSet
<1>3. \A s \in Subsystems : \A i \in DOMAIN instances[s] :
        heap'[instances[s][i].device].owned
  BY <1>2 DEF Paired
<1>4. \A d \in DOMAIN heap' : heap'[d].owned => d \in DOMAIN heap /\ heap[d].owned
  BY <1>1
<1>5. QED BY <1>3, <1>4 DEF Paired

(* The files in use stay those in use when nothing about them changes.     *)
LEMMA KeptStays ==
  ASSUME Kept, UNCHANGED <<available_drivers, instances, resident>>,
         ~ Trying, ~ Trying', Installing' <=> Installing,
         Installing => /\ calls'[1].driver = calls[1].driver
                       /\ calls'[1].detected = calls[1].detected
  PROVE  Kept'
<1>1. SettledFiles' = SettledFiles
  BY DEF SettledFiles, Sure, Screens
<1>2. QED BY <1>1 DEF Kept

(* A device fits a longer heap.                                            *)
LEMMA DeviceGrows ==
  ASSUME NEW h \in Nat, NEW d \in DeviceSet(h)
  PROVE  d \in DeviceSet(h + 1)
<1>1. 0 .. h \subseteq 0 .. h + 1 /\ 1 .. h \subseteq 1 .. h + 1
  OBVIOUS
<1>2. \A s \in Seq(1 .. h) : s \in Seq(1 .. h + 1)
  BY <1>1, SeqMonotonic
<1>3. QED BY <1>1, <1>2 DEF DeviceSet

-----------------------------------------------------------------------------
(* register_device.                                                        *)

(* The device is copied to the heap, with an id of its own.                *)
LEMMA RegisterHeap ==
  ASSUME Typed, NEW kind \in DOMAIN Kinds, NEW id \in Nat, NEW parent_id, NEW callers,
         BeginRegister(kind, id, parent_id, callers)
  PROVE  /\ heap' \in Seq(DeviceSet(Len(heap) + 1)) /\ Len(heap') = Len(heap) + 1
         /\ \A d \in 1 .. Len(heap) : /\ heap'[d].kind = heap[d].kind
                                      /\ heap'[d].id = heap[d].id
                                      /\ heap'[d].owned <=> heap[d].owned
         /\ heap'[Len(heap) + 1].kind = kind
         /\ heap'[Len(heap) + 1].id \notin Ids
         /\ ~ heap'[Len(heap) + 1].owned
         /\ current_id' \in Nat \ {0}
<1> DEFINE h == Len(heap)
           p == get_device_by_id(parent_id)
           S == DeviceSet(h + 1)
           x == [kind |-> kind, id |-> UniqueId(id), parent |-> p, children |-> <<>>,
                 owned |-> FALSE]
           linked == IF p = null THEN heap
                     ELSE [heap EXCEPT ![p] = [heap[p] EXCEPT
                                             !.children = Append(heap[p].children, h + 1)]]
<1>0. TypeOK
  BY DEF Typed
<1>1. h \in Nat /\ p \in 0 .. h /\ UniqueId(id) \in Nat /\ UniqueId(id) \notin Ids
  BY <1>0, Elements, LookupTyped, UniqueIdIsUnique
<1>2. heap' = Append(linked, x)
  BY DEF BeginRegister
<1>3. x \in S
  <2>1. <<>> \in Seq(1 .. h + 1)
    BY EmptySeq
  <2>2. p \in 0 .. h + 1 /\ UniqueId(id) \in Nat
    BY <1>1
  <2> DEFINE u == UniqueId(id)
             e == <<>>
  <2>3. x = [kind |-> kind, id |-> u, parent |-> p, children |-> e, owned |-> FALSE]
    OBVIOUS
  <2> HIDE DEF p, u, e, x
  <2>4. QED BY <2>1, <2>2, <2>3 DEF DeviceSet, u, e
<1>4. heap \in Seq(S) /\ DOMAIN heap = 1 .. h /\ \A d \in 1 .. h : heap[d] \in S
  <2>1. heap \in Seq(DeviceSet(h)) /\ DOMAIN heap = 1 .. h
        /\ \A d \in 1 .. h : heap[d] \in DeviceSet(h)
    BY <1>0, TypeParts, Elements
  <2>2. DeviceSet(h) \subseteq S
    BY <1>1, DeviceGrows
  <2>3. QED BY <2>1, <2>2, SeqMonotonic
<1>5. /\ linked \in Seq(S) /\ Len(linked) = h
      /\ \A d \in 1 .. h : /\ linked[d].kind = heap[d].kind
                           /\ linked[d].id = heap[d].id
                           /\ linked[d].owned <=> heap[d].owned
  <2>1. CASE p = null
    BY <1>4, <2>1
  <2>2. CASE p # null
    <3> DEFINE y == [heap[p] EXCEPT !.children = Append(heap[p].children, h + 1)]
    <3>1. p \in 1 .. h
      BY <1>1, <2>2 DEF null
    <3>2. heap[p] \in S /\ heap[p].children \in Seq(1 .. h + 1) /\ h + 1 \in 1 .. h + 1
      BY <1>1, <1>4, <3>1 DEF DeviceSet
    <3>3. Append(heap[p].children, h + 1) \in Seq(1 .. h + 1)
      BY <3>2, AppendProperties
    <3>4. /\ y \in S /\ y.kind = heap[p].kind /\ y.id = heap[p].id
          /\ (y.owned <=> heap[p].owned)
      <4> DEFINE x0 == heap[p]
                 c0 == Append(x0.children, h + 1)
      <4>1. x0 \in S /\ c0 \in Seq(1 .. h + 1) /\ y = [x0 EXCEPT !.children = c0]
        BY <3>2, <3>3
      <4> HIDE DEF x0, c0, y
      <4>2. QED BY <4>1 DEF DeviceSet, x0
    <3>5. linked = [heap EXCEPT ![p] = y]
      BY <2>2
    <3> HIDE DEF y, linked, S, p
    <3>6. QED BY <1>4, <3>1, <3>4, <3>5, ExceptSeq
  <2>3. QED BY <2>1, <2>2
<1> HIDE DEF linked, S
<1>6. /\ heap' \in Seq(S) /\ Len(heap') = h + 1 /\ heap'[h + 1] = x
      /\ \A d \in 1 .. h : heap'[d] = linked[d]
  BY <1>2, <1>3, <1>5, AppendProperties
<1>7. current_id' \in Nat \ {0}
  <2>1. current_id \in Nat \ {0} /\ FreshId \in Nat
    BY <1>0, TypeParts, FreshIdIsFresh
  <2>2. current_id' = IF id \in Ids THEN FreshId + 1 ELSE current_id
    BY DEF BeginRegister
  <2>3. QED BY <2>1, <2>2
<1>8. QED BY <1>1, <1>5, <1>6, <1>7 DEF S

(* What a script may hold.                                                 *)
LEMMA ScriptShape ==
  ASSUME TypeOK, NEW j \in DOMAIN script
  PROVE  /\ Len(script) \in Nat /\ DOMAIN script = 1 .. Len(script)
         /\ script[j].call = "register_device" =>
              /\ script[j].kind \in {"controller", "display"}
              /\ script[j] = [call |-> "register_device", kind |-> script[j].kind]
         /\ script[j].call = "install_driver" =>
              /\ script[j].driver \in Drivers
              /\ script[j] = [call |-> "install_driver", driver |-> script[j].driver]
<1> DEFINE C == [call : {"register_device"}, kind : {"controller", "display"}]
                  \cup [call : {"install_driver"}, driver : Drivers]
                  \cup [call : {"mount"}]
<1>1. script \in Seq(C)
  BY TypeParts, DevicesAssumption
<1>2. Len(script) \in Nat /\ DOMAIN script = 1 .. Len(script) /\ script[j] \in C
  <2> HIDE DEF C
  <2>1. Len(script) \in Nat /\ DOMAIN script = 1 .. Len(script)
    BY <1>1, LenProperties
  <2>2. QED BY <1>1, <2>1, ElementOfSeq
<1>3. QED BY <1>2

(* The types after a device was copied.                                    *)
LEMMA RegisterTyped ==
  ASSUME Typed, NEW kind \in DOMAIN Kinds, NEW id \in Nat, NEW parent_id, NEW callers,
         BeginRegister(kind, id, parent_id, callers), UNCHANGED <<driver_vars, script, state>>,
         step' \in 1 .. Len(script) + 1, calls' \in Seq(Frames),
         \A i \in DOMAIN calls' :
           Bounded(calls'[i], Len(heap) + 1, Len(available_drivers), Len(devices))
  PROVE  Typed'
<1>0. TypeOK
  BY DEF Typed
<1> DEFINE h == Len(heap)
           a == Len(available_drivers)
           n == Len(devices)
<1>1. h \in Nat /\ 1 .. h \subseteq 1 .. h + 1 /\ 0 .. h \subseteq 0 .. h + 1
  BY <1>0, Elements
<1>2. heap' \in Seq(DeviceSet(h + 1)) /\ Len(heap') = h + 1 /\ current_id' \in Nat \ {0}
  BY RegisterHeap
<1>3. /\ UNCHANGED <<devices, available_drivers, element, instances, active_disk_driver,
                     resident, script, state>>
  BY DEF BeginRegister, driver_vars
<1>4. /\ devices \in Seq(1 .. h) /\ available_drivers \in Seq(Indexes)
      /\ instances \in [Subsystems -> Seq(InstanceSet(h))]
      /\ active_disk_driver \in 0 .. h /\ resident \subseteq Files /\ script \in Scripts
      /\ element \in ElementKinds /\ state \in States
  BY <1>0, TypeParts
<1>5. devices \in Seq(1 .. h + 1) /\ active_disk_driver \in 0 .. h + 1
  BY <1>1, <1>4, SeqMonotonic
<1>6. instances \in [Subsystems -> Seq(InstanceSet(h + 1))]
  <2>1. InstanceSet(h) \subseteq InstanceSet(h + 1)
    BY <1>1 DEF InstanceSet
  <2>2. \A s \in Subsystems : instances[s] \in Seq(InstanceSet(h + 1))
    BY <1>4, <2>1, SeqMonotonic
  <2>3. QED BY <1>4, <2>2
<1>7. \A i \in DOMAIN calls' :
        Bounded(calls'[i], Len(heap'), Len(available_drivers'), Len(devices'))
  BY <1>2, <1>3
<1> HIDE DEF h
<1>8. TypeOK'
  BY <1>2, <1>3, <1>4, <1>5, <1>6, <1>7, TypeNext
<1>9. QED BY <1>8 DEF Typed

(* main's register_device.                                                 *)
LEMMA RegisterDeviceKeeps == ASSUME IInv, register_device PROVE IInv'
<1> DEFINE kind == script[step].kind
           h == Len(heap)
           f == [call |-> "register", device |-> h + 1, next |-> 1]
<1>0. TypeOK /\ Typed
  BY DEF IInv, Typed
<1>1. /\ calls = <<>> /\ step \in DOMAIN script /\ script[step].call = "register_device"
      /\ step' = step + 1
      /\ UNCHANGED <<script, state, available_drivers, instances, active_disk_driver, resident>>
      /\ UNCHANGED <<driver_vars, script, state>>
  BY DEF register_device, Calling, Idle, driver_vars
<1>2. PICK id \in Garbage : BeginRegister(kind, id, 0, calls)
  BY DEF register_device
<1>3. id \in Nat /\ calls' = Append(<<>>, f) /\ UNCHANGED devices
  BY <1>1, <1>2, DevicesAssumption DEF BeginRegister
<1>4. /\ Len(script) \in Nat /\ DOMAIN script = 1 .. Len(script)
      /\ kind \in {"controller", "display"}
      /\ script[step] = [call |-> "register_device", kind |-> kind]
  BY <1>0, <1>1, ScriptShape
<1>5. kind \in DOMAIN Kinds
  BY <1>4 DEF Kinds
<1>6. h \in Nat /\ Len(available_drivers) \in Nat /\ Len(devices) \in Nat
      /\ DOMAIN heap = 1 .. h
  BY <1>0, Elements
<1> HIDE DEF h
<1>7. Bounded(f, h + 1, Len(available_drivers), Len(devices)) /\ f \in Frames
  BY <1>6 DEF Bounded, Frames
<1>8. calls' \in Seq(Frames) /\ Len(calls') = 1 /\ calls'[1] = f /\ DOMAIN calls' = {1}
      /\ calls' # <<>>
  <2>1. <<>> \in Seq(Frames) /\ Len(<<>>) = 0
    BY EmptySeq
  <2> HIDE DEF f
  <2>2. calls' \in Seq(Frames) /\ Len(calls') = 1 /\ calls'[1] = f
    BY <1>3, <1>7, <2>1, AppendProperties
  <2>3. DOMAIN calls' = 1 .. 1
    BY <2>2, LenProperties
  <2>4. QED BY <2>1, <2>2, <2>3
<1>9. /\ heap' \in Seq(DeviceSet(h + 1)) /\ Len(heap') = h + 1
      /\ \A d \in 1 .. h : /\ heap'[d].kind = heap[d].kind
                           /\ heap'[d].id = heap[d].id
                           /\ heap'[d].owned <=> heap[d].owned
      /\ heap'[h + 1].kind = kind
      /\ heap'[h + 1].id \notin Ids
      /\ ~ heap'[h + 1].owned
  BY <1>0, <1>2, <1>3, <1>5, RegisterHeap DEF h
<1>10. Typed'
  <2>1. step' \in 1 .. Len(script) + 1
    BY <1>1, <1>4
  <2>2. QED BY <1>0, <1>1, <1>2, <1>3, <1>5, <1>7, <1>8, <2>1, RegisterTyped DEF h
<1>11. f.call = "register" /\ f.device = h + 1
  OBVIOUS
<1> HIDE DEF f
<1>12. Registering' /\ ~ Installing' /\ ~ Installing /\ ~ Trying /\ ~ Trying'
  <2>1. Len(calls') = 1 /\ calls'[1].call = "register"
    BY <1>8, <1>11
  <2>2. QED BY <1>1, <1>8, <2>1 DEF Registering, Installing, Trying, In, Top
<1>13. Nested'
  BY <1>8, <1>12 DEF Nested
<1>14. Scripted'
  <2>1. step' > 1 /\ step' - 1 = step
    BY <1>1, <1>4
  <2>2. Past \subseteq Past'
    BY <1>1, <1>4 DEF Past
  <2>3. (script[step - 1] = [call |-> "register_device", kind |-> heap[calls[1].device].kind])'
    BY <1>1, <1>4, <1>8, <1>9, <1>11, <2>1
  <2>4. QED BY <1>1, <1>12, <2>1, <2>2, <2>3 DEF IInv, Scripted, Installed
<1>15. Identified'
  BY <1>0, <1>3, <1>6, <1>8, <1>9, <1>11, IdentifiedStays DEF IInv, h
<1>16. Paired'
  <2>1. DOMAIN heap' = 1 .. h + 1
    BY <1>9, LenProperties
  <2>2. h <= h + 1 /\ h + 1 \in Nat /\ h + 1 .. h + 1 = {h + 1}
    BY <1>6
  <2>3. QED BY <1>0, <1>1, <1>9, <1>12, <2>1, <2>2, PairedStays DEF IInv, h
<1>17. Kept'
  BY <1>1, <1>12, KeptStays DEF IInv
<1>18. QED BY <1>10, <1>13, <1>14, <1>15, <1>16, <1>17 DEF IInv

(* ide_initialize registers a disk of the controller.                      *)
LEMMA RegisterDiskKeeps == ASSUME IInv, RegisterDisk PROVE IInv'
<1> DEFINE h == Len(heap)
           g == [Top EXCEPT !.found = @ + 1]
           f == [call |-> "register", device |-> h + 1, next |-> 1]
<1>0. TypeOK /\ Typed
  BY DEF IInv, Typed
<1>1. /\ In("init") /\ Top.driver = Controller /\ Top.found < MaxDisks
      /\ BeginRegister("disk", 0, heap[Top.device].id, Append(Callers, g))
      /\ UNCHANGED <<script, step, state, available_drivers, instances, active_disk_driver,
                     resident>>
      /\ UNCHANGED <<driver_vars, script, state>>
  BY DEF RegisterDisk, MoreDrives, driver_vars
<1>2. calls # <<>> /\ Len(calls) = 2 /\ Top = calls[2] /\ Installing
  <2>1. calls # <<>>
    BY <1>1 DEF In
  <2>2. Len(calls) = 2 /\ Top = calls[2]
    BY <1>0, <1>1, <2>1, TopShape DEF IInv, Controller, Disk
  <2>3. Installing \/ Registering
    BY <2>2 DEF IInv, Nested
  <2>4. QED BY <1>1, <2>1, <2>2, <2>3 DEF IInv, Nested
<1>3. h \in Nat /\ Len(available_drivers) \in Nat /\ Len(devices) \in Nat
      /\ DOMAIN heap = 1 .. h
  BY <1>0, Elements
<1>4. Bounded(Top, h, Len(available_drivers), Len(devices)) /\ DOMAIN calls = 1 .. 2
  BY <1>0, <1>2, Stack
<1> HIDE DEF h
<1>5. Top \in [call : {"init"}, driver : Drivers, device : 1 .. h, found : 0 .. MaxDisks]
  BY <1>1, <1>4 DEF Bounded, In
<1>6. /\ g \in [call : {"init"}, driver : Drivers, device : 1 .. h + 1, found : 0 .. MaxDisks]
      /\ g.driver = Controller /\ g.call = "init"
  <2>1. MaxDisks \in Nat
    BY DevicesAssumption
  <2>2. QED BY <1>1, <1>3, <1>5, <2>1
<1>7. /\ Bounded(f, h + 1, Len(available_drivers), Len(devices)) /\ f \in Frames
      /\ Bounded(g, h + 1, Len(available_drivers), Len(devices)) /\ g \in Frames
      /\ f.call = "register" /\ f.device = h + 1
  <2>1. /\ Bounded(f, h + 1, Len(available_drivers), Len(devices))
        /\ Bounded(g, h + 1, Len(available_drivers), Len(devices))
    BY <1>3, <1>6 DEF Bounded
  <2>2. h + 1 \in Nat
    BY <1>3
  <2> HIDE DEF g
  <2>3. QED BY <1>3, <2>1, <2>2, BoundedIsFrame
<1>8. calls' = Append(Append(Callers, g), f) /\ UNCHANGED devices
  BY <1>1 DEF BeginRegister, h
<1> HIDE DEF f, g
<1>9. /\ calls' \in Seq(Frames) /\ Len(calls') = 3 /\ calls'[1] = calls[1] /\ calls'[2] = g
      /\ calls'[3] = f /\ DOMAIN calls' = 1 .. 3 /\ calls' # <<>>
  <2>1. /\ calls' \in Seq(Frames) /\ Len(calls') = 2 + 1 /\ calls'[2] = g /\ calls'[2 + 1] = f
        /\ \A i \in 1 .. 2 - 1 : calls'[i] = calls[i]
    BY <1>0, <1>2, <1>7, <1>8, Stack
  <2>2. DOMAIN calls' = 1 .. 3
    BY <2>1, LenProperties
  <2>3. calls'[1] = calls[1]
    BY <2>1
  <2>4. Len(calls') = 3 /\ calls'[3] = f /\ Len(<<>>) = 0
    BY <2>1, EmptySeq
  <2>5. QED BY <2>1, <2>2, <2>3, <2>4
<1>10. /\ heap' \in Seq(DeviceSet(h + 1)) /\ Len(heap') = h + 1
       /\ \A d \in 1 .. h : /\ heap'[d].kind = heap[d].kind
                            /\ heap'[d].id = heap[d].id
                            /\ heap'[d].owned <=> heap[d].owned
       /\ heap'[h + 1].kind = "disk"
       /\ heap'[h + 1].id \notin Ids
       /\ ~ heap'[h + 1].owned
  <2>1. "disk" \in DOMAIN Kinds /\ 0 \in Nat
    BY DEF Kinds
  <2>2. QED BY <1>0, <1>1, <2>1, RegisterHeap DEF h
<1>11. Bounded(calls[1], h, Len(available_drivers), Len(devices))
  <2>1. 1 \in DOMAIN calls
    BY <1>4
  <2>2. QED BY <1>0, <2>1, TypeParts DEF h
<1>12. Typed'
  <2>1. Bounded(calls[1], h + 1, Len(available_drivers), Len(devices))
    <3>1. h <= h + 1 /\ h + 1 \in Nat
      BY <1>3
    <3>2. QED BY <1>3, <1>11, <3>1, BoundsGrow
  <2>2. \A i \in DOMAIN calls' : i = 1 \/ i = 2 \/ i = 3
    BY <1>9
  <2>3. \A i \in DOMAIN calls' :
          Bounded(calls'[i], h + 1, Len(available_drivers), Len(devices))
    BY <1>7, <1>9, <2>1, <2>2
  <2>4. step' \in 1 .. Len(script) + 1
    BY <1>0, <1>1, TypeParts
  <2>5. "disk" \in DOMAIN Kinds /\ 0 \in Nat
    BY DEF Kinds
  <2>6. QED BY <1>0, <1>1, <1>9, <2>3, <2>4, <2>5, RegisterTyped DEF h
<1>13. Installing' /\ ~ Registering' /\ ~ Trying /\ ~ Trying' /\ calls[1].call = "postregister"
  <2>1. Top' = f
    BY <1>9 DEF Top
  <2>2. Controller \notin Files
    BY DevicesAssumption
  <2>3. QED BY <1>1, <1>2, <1>7, <1>9, <2>1, <2>2 DEF Registering, Installing, Trying, In
<1>14. Nested'
  BY <1>1, <1>2, <1>6, <1>7, <1>9, <1>10, <1>13 DEF IInv, Nested
<1>15. Scripted'
  BY <1>0, <1>1, <1>2, <1>9, <1>13, ScriptedStays DEF IInv
<1>16. Identified'
  <2>1. \A i \in DOMAIN calls' : calls'[i].call = "register" => i = 3
    BY <1>6, <1>9, <1>13
  <2>2. QED BY <1>0, <1>3, <1>7, <1>8, <1>9, <1>10, <2>1, IdentifiedStays DEF IInv, h
<1>17. Paired'
  <2>1. DOMAIN heap' = 1 .. h + 1
    BY <1>10, LenProperties
  <2>2. h <= h + 1 /\ h + 1 \in Nat /\ h + 1 .. h + 1 = {h + 1}
    BY <1>3
  <2>3. QED BY <1>0, <1>1, <1>10, <1>13, <2>1, <2>2, PairedStays DEF IInv, h
<1>18. Kept'
  BY <1>1, <1>2, <1>9, <1>13, KeptStays DEF IInv
<1>19. QED BY <1>12, <1>14, <1>15, <1>16, <1>17, <1>18 DEF IInv

-----------------------------------------------------------------------------
(* Offering a device to a driver.                                          *)

(* The kinds that drivers are for.                                         *)
LEMMA KindOfShape ==
  ASSUME NEW driver \in Drivers
  PROVE  /\ KindOf(driver).type \in Subsystems
         /\ driver \in Files <=> driver \notin {Controller, Disk}
         /\ driver \in Files <=> KindOf(driver).type = "ttype"
         /\ \A k \in DOMAIN Kinds : KindOf(driver) = Kinds[k] =>
              /\ driver = Controller <=> k = "controller"
              /\ driver = Disk <=> k = "disk"
<1>1. Controller # Disk /\ Controller \notin Files /\ Disk \notin Files
  BY DevicesAssumption DEF Controller, Disk
<1>2. /\ Kinds.controller.type = "controller" /\ Kinds.disk.type = "disk"
      /\ Kinds.display.type = "ttype" /\ DOMAIN Kinds = {"controller", "disk", "display"}
  BY DEF Kinds
<1>3. /\ driver = Controller => KindOf(driver) = Kinds.controller
      /\ driver = Disk => KindOf(driver) = Kinds.disk
      /\ driver \in Files => KindOf(driver) = Kinds.display
  BY <1>1 DEF KindOf
<1>4. driver = Controller \/ driver = Disk \/ driver \in Files
  BY DEF Drivers
<1>5. QED BY <1>1, <1>2, <1>3, <1>4 DEF Subsystems

(* A device changes hands.                                                 *)
LEMMA OwnedHeap ==
  ASSUME TypeOK, NEW d \in 1 .. Len(heap), NEW b \in BOOLEAN,
         heap' = [heap EXCEPT ![d].owned = b]
  PROVE  /\ heap' \in Seq(DeviceSet(Len(heap))) /\ Len(heap') = Len(heap)
         /\ DOMAIN heap' = 1 .. Len(heap)
         /\ \A e \in 1 .. Len(heap) : /\ heap'[e].kind = heap[e].kind
                                      /\ heap'[e].id = heap[e].id
                                      /\ e # d => (heap'[e].owned <=> heap[e].owned)
         /\ heap'[d].owned <=> b
<1> DEFINE S == DeviceSet(Len(heap))
           y == [heap[d] EXCEPT !.owned = b]
<1>1. heap \in Seq(S) /\ \A e \in 1 .. Len(heap) : heap[e] \in S
  BY TypeParts, Elements
<1>2. y \in S /\ y.kind = heap[d].kind /\ y.id = heap[d].id /\ (y.owned <=> b)
  BY <1>1 DEF DeviceSet
<1>3. heap' = [heap EXCEPT ![d] = y]
  OBVIOUS
<1> HIDE DEF S, y
<1>4. /\ heap' \in Seq(S) /\ Len(heap') = Len(heap)
      /\ \A e \in 1 .. Len(heap) : heap'[e] = IF e = d THEN y ELSE heap[e]
  BY <1>1, <1>2, <1>3, ExceptSeq
<1>5. DOMAIN heap' = 1 .. Len(heap)
  BY <1>4, LenProperties
<1>6. QED BY <1>2, <1>4, <1>5 DEF S

(* A subsystem gets an instance.                                           *)
LEMMA AddInstance ==
  ASSUME TypeOK, NEW t \in Subsystems, NEW x \in InstanceSet(Len(heap)),
         instances' = [instances EXCEPT ![t] = Append(@, x)]
  PROVE  LET n == Len(instances[t])
         IN /\ instances' \in [Subsystems -> Seq(InstanceSet(Len(heap)))]
            /\ n \in Nat /\ Len(instances'[t]) = n + 1 /\ instances'[t][n + 1] = x
            /\ DOMAIN instances[t] = 1 .. n /\ DOMAIN instances'[t] = 1 .. n + 1
            /\ \A i \in 1 .. n : instances'[t][i] = instances[t][i]
            /\ \A s \in Subsystems : s # t => instances'[s] = instances[s]
<1> DEFINE S == InstanceSet(Len(heap))
           n == Len(instances[t])
           y == Append(instances[t], x)
<1>1. instances \in [Subsystems -> Seq(S)] /\ instances[t] \in Seq(S)
  BY TypeParts
<1> HIDE DEF S
<1>2. /\ y \in Seq(S) /\ Len(y) = n + 1 /\ y[n + 1] = x /\ n \in Nat
      /\ \A i \in 1 .. n : y[i] = instances[t][i]
  BY <1>1, AppendProperties, LenProperties DEF S
<1>3. DOMAIN instances[t] = 1 .. n /\ DOMAIN y = 1 .. n + 1
  BY <1>1, <1>2, LenProperties
<1>4. instances' = [instances EXCEPT ![t] = y]
  OBVIOUS
<1> HIDE DEF y, n
<1>5. /\ instances'[t] = y /\ \A s \in Subsystems : s # t => instances'[s] = instances[s]
      /\ instances' \in [Subsystems -> Seq(S)]
  BY <1>1, <1>2, <1>4
<1>6. QED BY <1>2, <1>3, <1>5 DEF S, n

(* The controllers are all there before their driver is, so a device being *)
(* registered by main is not offered to it.                                *)
LEMMA NoController ==
  ASSUME Typed, Scripted, Registering, Installed(Controller)
  PROVE  heap[calls[1].device].kind # "controller"
<1>0. TypeOK /\ calls # <<>>
  BY DEF Typed, Registering
<1>1. PICK j \in 1 .. step - 1 :
        script[j] = [call |-> "install_driver", driver |-> Controller]
  BY DEF Installed, Past
<1>2. script[step - 1] = [call |-> "register_device", kind |-> heap[calls[1].device].kind]
  BY DEF Scripted
<1>3. script \in Scripts /\ step \in 1 .. Len(script) + 1 /\ step > 1
  BY <1>0, TypeParts DEF Scripted
<1>4. Len(script) \in Nat /\ DOMAIN script = 1 .. Len(script)
  <2>1. \E S : script \in Seq(S)
    BY <1>3, DevicesAssumption
  <2>2. QED BY <2>1, LenProperties
<1>5. j \in DOMAIN script /\ step - 1 \in DOMAIN script /\ ~ (step - 1 < j)
  BY <1>3, <1>4
<1>6. ASSUME heap[calls[1].device].kind = "controller"
      PROVE  FALSE
  <2>1. /\ script[j].call = "install_driver" /\ script[j].driver = Controller
        /\ script[step - 1].call = "register_device"
        /\ script[step - 1].kind = "controller"
    BY <1>1, <1>2, <1>6
  <2>2. step - 1 < j
    BY <1>3, <1>5, <2>1, DevicesAssumption
  <2>3. QED BY <1>5, <2>2
<1>7. QED BY <1>6

(* The caller of init: register_device or postregister_driver, which has   *)
(* moved on to the next driver or device.                                  *)
LEMMA CallerShape ==
  ASSUME Typed, Nested, In("register") \/ In("postregister"),
         Top.next \in 1 .. (IF In("register") THEN Len(available_drivers) ELSE Len(devices))
  PROVE  LET f == [Top EXCEPT !.next = @ + 1]
         IN /\ f \in Frames /\ Bounded(f, Len(heap), Len(available_drivers), Len(devices))
            /\ f.call = Top.call /\ f.next = Top.next + 1
            /\ In("register") => f.device = Top.device /\ Top.device \in 1 .. Len(heap)
            /\ In("postregister") => /\ f.driver = Top.driver /\ Top.driver \in Drivers
                                     /\ f.detected = Top.detected /\ Top.next \in Nat
                                     /\ Top.detected \in Nat
<1> DEFINE f == [Top EXCEPT !.next = @ + 1]
           h == Len(heap)
           a == Len(available_drivers)
           n == Len(devices)
<1>0. TypeOK /\ calls # <<>>
  BY DEF Typed, In
<1>1. h \in Nat /\ a \in Nat /\ n \in Nat
  BY <1>0, Elements
<1>2. Bounded(Top, h, a, n)
  BY <1>0, Stack
<1> HIDE DEF h, a, n
<1>3. CASE In("register")
  <2>1. Top \in [call : {"register"}, device : 1 .. h, next : 1 .. a + 1]
    BY <1>2, <1>3 DEF Bounded, In
  <2>2. Top.next \in 1 .. a /\ Top.next + 1 \in 1 .. a + 1
    BY <1>1, <1>3 DEF a
  <2>3. /\ f \in [call : {"register"}, device : 1 .. h, next : 1 .. a + 1]
        /\ f.call = Top.call /\ f.next = Top.next + 1 /\ f.device = Top.device
        /\ Top.device \in 1 .. h
    BY <2>1, <2>2
  <2> HIDE DEF f
  <2>4. Bounded(f, h, a, n) /\ f \in Frames
    BY <1>1, <2>3, BoundedIsFrame DEF Bounded
  <2>5. ~ In("postregister")
    BY <1>3 DEF In
  <2>6. QED BY <2>3, <2>4, <2>5 DEF h, a, n, f
<1>4. CASE In("postregister")
  <2>0. ~ In("register")
    BY <1>4 DEF In
  <2>1. Top \in [call : {"postregister"}, driver : Drivers, next : 1 .. n + 1,
                 detected : 0 .. n]
    BY <1>2, <1>4 DEF Bounded, In
  <2>2. Top.next \in 1 .. n /\ Top.next + 1 \in 1 .. n + 1
    BY <1>1, <2>0 DEF n
  <2>3. /\ f \in [call : {"postregister"}, driver : Drivers, next : 1 .. n + 1,
                  detected : 0 .. n]
        /\ f.call = Top.call /\ f.next = Top.next + 1 /\ f.driver = Top.driver
        /\ Top.driver \in Drivers /\ f.detected = Top.detected /\ Top.detected \in Nat
        /\ Top.next \in Nat
    BY <1>1, <2>1, <2>2
  <2> HIDE DEF f
  <2>4. Bounded(f, h, a, n) /\ f \in Frames
    BY <1>1, <2>3, BoundedIsFrame DEF Bounded
  <2>5. QED BY <2>0, <2>3, <2>4 DEF h, a, n, f
<1>5. QED BY <1>3, <1>4

(* A step that only moves the caller on.                                   *)
LEMMA MoveOnKeeps ==
  ASSUME IInv, In("register") \/ In("postregister"),
         Top.next \in 1 .. (IF In("register") THEN Len(available_drivers) ELSE Len(devices)),
         Continue([Top EXCEPT !.next = @ + 1]),
         UNCHANGED <<registry, driver_vars, script, step, state>>
  PROVE  IInv'
<1> DEFINE f == [Top EXCEPT !.next = @ + 1]
           n == Len(calls)
           h == Len(heap)
<1>0. TypeOK /\ Typed /\ Nested /\ calls # <<>>
  BY DEF IInv, Typed, In
<1>1. UNCHANGED <<heap, devices, current_id, available_drivers, element, instances,
                  active_disk_driver, resident, script, step, state>>
  BY DEF registry, driver_vars
<1>2. /\ f \in Frames /\ Bounded(f, Len(heap), Len(available_drivers), Len(devices))
      /\ f.call = Top.call /\ f.next = Top.next + 1
      /\ In("register") => f.device = Top.device
      /\ In("postregister") => /\ f.driver = Top.driver /\ f.detected = Top.detected
                               /\ Top.next \in Nat /\ Top.detected \in Nat
  BY <1>0, CallerShape
<1>3. calls' = Append(Callers, f)
  BY DEF Continue
<1> HIDE DEF f
<1>4. /\ n \in {1, 3} /\ Top = calls[n] /\ DOMAIN calls = 1 .. n
      /\ In("register") => (n = 1 /\ Registering) \/ (n = 3 /\ Installing)
      /\ In("postregister") => n = 1 /\ Installing
      /\ calls' \in Seq(Frames) /\ Len(calls') = n /\ calls'[n] = f
      /\ \A i \in 1 .. n - 1 : calls'[i] = calls[i]
  BY <1>0, <1>2, <1>3, TopShape, Stack
<1>5. DOMAIN calls' = 1 .. n /\ calls' # <<>> /\ Top' = f
  BY <1>4, EmptySeq, LenProperties DEF Top
<1> HIDE DEF n
<1>6. /\ \A i \in 1 .. n : i # n => calls'[i] = calls[i]
      /\ calls'[1].call = calls[1].call
      /\ calls[1].call = "register" => calls'[1].device = calls[1].device
      /\ calls[1].call = "postregister" => calls'[1].driver = calls[1].driver
      /\ calls[1].call = "postregister" => calls'[1].detected = calls[1].detected
      /\ n = 3 => calls'[3].call = calls[3].call /\ calls'[3].device = calls[3].device
  BY <1>2, <1>4 DEF In
<1>7. ~ Trying /\ ~ Trying' /\ (Installing' <=> Installing) /\ (Registering' <=> Registering)
  BY <1>0, <1>2, <1>5, <1>6 DEF Trying, In, Installing, Registering
<1>8. Typed'
  <2>1. \A i \in DOMAIN calls' :
          Bounded(calls'[i], Len(heap), Len(available_drivers), Len(devices))
    <3>1. \A i \in DOMAIN calls :
            Bounded(calls[i], Len(heap), Len(available_drivers), Len(devices))
      BY <1>0, TypeParts
    <3>2. QED BY <1>2, <1>4, <1>5, <1>6, <3>1
  <2>2. TypeOK'
    BY <1>0, <1>1, <2>1, TypeParts, TypeNext
  <2>3. QED BY <1>4, <2>2 DEF Typed
<1>9. Nested'
  <2>1. n = 3 => calls'[1] = calls[1] /\ calls'[2] = calls[2]
    BY <1>6
  <2>2. n = 1 /\ Installing => /\ In("postregister") /\ Top = calls[1]
                               /\ calls'[1].next = calls[1].next + 1
                               /\ calls[1].next \in Nat /\ calls[1].detected \in Nat
    BY <1>2, <1>4 DEF In, Installing, Registering
  <2>3. Len(calls') = n /\ Len(calls) = n
    BY <1>4 DEF n
  <2>4. CASE n = 1
    <3>1. Installing => calls[1].detected < calls[1].next
      BY <1>0, <2>2, <2>3, <2>4 DEF Nested
    <3>2. Installing => /\ calls'[1].detected < calls'[1].next
                        /\ calls'[1].detected \in Nat
      BY <1>6, <2>2, <2>4, <3>1 DEF Installing
    <3>3. Installing' \/ Registering'
      BY <1>0, <1>7, <2>3, <2>4 DEF Nested
    <3>4. QED BY <1>7, <2>3, <2>4, <3>2, <3>3 DEF Nested
  <2>5. CASE n = 3
    BY <1>0, <1>1, <1>6, <1>7, <2>1, <2>3, <2>5 DEF Nested
  <2>6. QED BY <1>4, <2>4, <2>5
<1>10. Scripted'
  BY <1>0, <1>1, <1>5, <1>6, ScriptedStays DEF IInv
<1>11. h \in Nat /\ DOMAIN heap = 1 .. h
  BY <1>0, Elements
<1>12. Identified'
  <2>1. \A i \in DOMAIN calls' : calls'[i].call = "register" =>
          i \in DOMAIN calls /\ calls[i].call = "register" /\ calls'[i].device = calls[i].device
    BY <1>2, <1>4, <1>5, <1>6 DEF In
  <2>2. \A i \in DOMAIN calls' : calls'[i].call = "register" =>
          heap'[calls'[i].device].id \notin Ids
    BY <1>1, <2>1 DEF IInv, Identified
  <2>3. QED BY <1>0, <1>1, <1>11, <2>2, IdentifiedStays DEF IInv
<1>13. Paired'
  <2>1. h <= h /\ \A d \in h + 1 .. h : FALSE
    BY <1>11
  <2>2. QED BY <1>0, <1>1, <1>7, <1>11, <2>1, PairedStays DEF IInv
<1>14. Kept'
  BY <1>1, <1>6, <1>7, KeptStays DEF IInv, Installing
<1>15. QED BY <1>8, <1>9, <1>10, <1>12, <1>13, <1>14 DEF IInv

(* A driver is given a device: it has an instance, which is not sure yet   *)
(* if its init may fail.                                                   *)
LEMMA BeginInitKeeps ==
  ASSUME IInv, In("register") \/ In("postregister"),
         Top.next \in 1 .. (IF In("register") THEN Len(available_drivers) ELSE Len(devices)),
         NEW driver \in Drivers, NEW d \in 1 .. Len(heap),
         ~ heap[d].owned, Matches(driver, d), Installed(driver),
         In("register") =>
           /\ d = Top.device
           /\ \E i \in DOMAIN available_drivers : available_drivers[i].driver = driver
                                                 /\ available_drivers[i].loaded,
         In("postregister") => driver = Top.driver,
         BeginInit(driver, d, Append(Callers, [Top EXCEPT !.next = @ + 1])),
         UNCHANGED <<script, step, state>>
  PROVE  IInv'
<1> DEFINE f == [Top EXCEPT !.next = @ + 1]
           g == [call |-> "init", driver |-> driver, device |-> d, found |-> 0]
           x == [driver |-> driver, device |-> d]
           t == KindOf(driver).type
           n == Len(calls)
           h == Len(heap)
           k == Len(instances[t])
<1>0. TypeOK /\ Typed /\ Nested /\ Scripted /\ Paired /\ Kept /\ calls # <<>>
  BY DEF IInv, Typed, In
<1>1. /\ UNCHANGED <<devices, current_id, available_drivers, element, active_disk_driver,
                     resident, script, step, state>>
      /\ heap' = [heap EXCEPT ![d].owned = TRUE]
      /\ instances' = [instances EXCEPT ![t] = Append(@, x)]
      /\ calls' = Append(Append(Callers, f), g)
  BY DEF BeginInit
<1>2. /\ f \in Frames /\ Bounded(f, Len(heap), Len(available_drivers), Len(devices))
      /\ f.call = Top.call /\ f.next = Top.next + 1
      /\ In("register") => f.device = Top.device
      /\ In("postregister") => /\ f.driver = Top.driver /\ f.detected = Top.detected
                               /\ Top.next \in Nat /\ Top.detected \in Nat
  BY <1>0, CallerShape
<1>3. t \in Subsystems /\ (driver \in Files <=> t = "ttype")
  BY KindOfShape
<1>4. x \in InstanceSet(h) /\ x.driver = driver /\ x.device = d
  BY DEF InstanceSet
<1>5. /\ heap' \in Seq(DeviceSet(h)) /\ Len(heap') = h
      /\ DOMAIN heap' = 1 .. h
      /\ \A e \in 1 .. h : /\ heap'[e].kind = heap[e].kind
                           /\ heap'[e].id = heap[e].id
                           /\ e # d => (heap'[e].owned <=> heap[e].owned)
      /\ heap'[d].owned
  BY <1>0, <1>1, OwnedHeap
<1>6. /\ instances' \in [Subsystems -> Seq(InstanceSet(h))]
      /\ k \in Nat /\ Len(instances'[t]) = k + 1 /\ instances'[t][k + 1] = x
      /\ DOMAIN instances[t] = 1 .. k /\ DOMAIN instances'[t] = 1 .. k + 1
      /\ \A i \in 1 .. k : instances'[t][i] = instances[t][i]
      /\ \A s \in Subsystems : s # t => instances'[s] = instances[s]
  BY <1>0, <1>1, <1>3, <1>4, AddInstance
<1>7. /\ h \in Nat /\ Len(available_drivers) \in Nat /\ Len(devices) \in Nat
      /\ DOMAIN heap = 1 .. h
  BY <1>0, Elements
<1>8. /\ g \in Frames /\ Bounded(g, h, Len(available_drivers), Len(devices))
      /\ g.call = "init" /\ g.driver = driver /\ g.device = d
  <2>1. g \in [call : {"init"}, driver : Drivers, device : 1 .. h, found : 0 .. MaxDisks]
    BY DevicesAssumption
  <2>2. Bounded(g, h, Len(available_drivers), Len(devices))
    BY <2>1 DEF Bounded
  <2> HIDE DEF g, h
  <2>3. g \in Frames
    BY <1>7, <2>2, BoundedIsFrame
  <2>4. QED BY <2>2, <2>3 DEF g
<1> HIDE DEF f, g, x, t, k
<1>9. /\ n \in {1, 3} /\ Top = calls[n] /\ DOMAIN calls = 1 .. n
      /\ In("register") => (n = 1 /\ Registering) \/ (n = 3 /\ Installing)
      /\ In("postregister") => n = 1 /\ Installing
      /\ calls' \in Seq(Frames) /\ Len(calls') = n + 1 /\ calls'[n] = f
      /\ calls'[n + 1] = g
      /\ \A i \in 1 .. n - 1 : calls'[i] = calls[i]
  <2>1. /\ In("register") => (n = 1 /\ Registering) \/ (n = 3 /\ Installing)
        /\ In("postregister") => n = 1 /\ Installing
    BY <1>0, TopShape
  <2>2. Top = calls[n] /\ DOMAIN calls = 1 .. n
    BY <1>0, Stack
  <2>3. /\ calls' \in Seq(Frames) /\ Len(calls') = n + 1 /\ calls'[n] = f
        /\ calls'[n + 1] = g
        /\ \A i \in 1 .. n - 1 : calls'[i] = calls[i]
    <3> DEFINE c == Append(Append(Callers, f), g)
    <3>1. f \in Frames /\ g \in Frames /\ calls' = c
      BY <1>1, <1>2, <1>8
    <3>2. /\ c \in Seq(Frames) /\ Len(c) = n + 1 /\ c[n] = f /\ c[n + 1] = g
          /\ \A i \in 1 .. n - 1 : c[i] = calls[i]
      BY <1>0, <3>1, Stack
    <3> HIDE DEF c, n
    <3>3. QED BY <3>1, <3>2
  <2> HIDE DEF n
  <2>4. QED BY <2>1, <2>2, <2>3
<1>10. DOMAIN calls' = 1 .. n + 1 /\ calls' # <<>> /\ Top' = g
  <2> HIDE DEF n
  <2>1. DOMAIN calls' = 1 .. n + 1
    BY <1>9, LenProperties
  <2>2. Len(<<>>) = 0
    BY EmptySeq
  <2>3. calls' # <<>>
    BY <1>9, <2>2
  <2>4. Top' = g
    BY <1>9 DEF Top
  <2>5. QED BY <2>1, <2>3, <2>4
<1>11. Len(calls') = n + 1 /\ Len(calls) = n
  BY <1>9
<1> HIDE DEF n
<1>12. /\ \A i \in 1 .. n : i # n => calls'[i] = calls[i]
       /\ calls'[1].call = calls[1].call
       /\ calls[1].call = "register" => calls'[1].device = calls[1].device
       /\ calls[1].call = "postregister" => calls'[1].driver = calls[1].driver
       /\ calls[1].call = "postregister" => calls'[1].detected = calls[1].detected
       /\ n = 3 => calls'[3].call = calls[3].call /\ calls'[3].device = calls[3].device
  BY <1>2, <1>9 DEF In
<1>13. /\ ~ Trying /\ (Trying' <=> driver \in Files)
       /\ (Installing' <=> Installing) /\ (Registering' <=> Registering)
       /\ Top' = g
  BY <1>0, <1>8, <1>10, <1>12 DEF Trying, In, Installing, Registering
<1>14. Typed'
  <2>1. \A i \in DOMAIN calls' :
          Bounded(calls'[i], h, Len(available_drivers), Len(devices))
    <3>1. \A i \in DOMAIN calls :
            Bounded(calls[i], h, Len(available_drivers), Len(devices))
      BY <1>0, TypeParts
    <3>2. \A i \in 1 .. n + 1 : i = n + 1 \/ i = n \/ (i \in 1 .. n /\ i # n)
      BY <1>9
    <3> HIDE DEF h
    <3>3. QED BY <1>2, <1>8, <1>9, <1>10, <1>12, <3>1, <3>2 DEF h
  <2>2. TypeOK'
    BY <1>0, <1>1, <1>5, <1>6, <2>1, TypeParts, TypeNext
  <2>3. QED BY <1>9, <2>2 DEF Typed
<1>15. \A e \in Subsystems : \A i \in DOMAIN instances'[e] :
         \/ /\ i \in DOMAIN instances[e] /\ instances'[e][i] = instances[e][i]
         \/ e = t /\ i = k + 1 /\ instances'[e][i] = x
  <2>1. \A i \in 1 .. k + 1 : i \in 1 .. k \/ i = k + 1
    BY <1>6
  <2>2. QED BY <1>6, <2>1
<1>16. \A e \in Subsystems : \A i \in DOMAIN instances[e] :
         i \in DOMAIN instances'[e] /\ instances'[e][i] = instances[e][i]
  <2>1. \A i \in 1 .. k : i \in 1 .. k + 1
    BY <1>6
  <2>2. QED BY <1>6, <2>1
<1>17. k + 1 \in DOMAIN instances'[t] /\ k + 1 \notin DOMAIN instances[t]
  <2>1. k + 1 \in 1 .. k + 1 /\ k + 1 \notin 1 .. k
    BY <1>6
  <2>2. QED BY <1>6, <2>1
<1>18. Nested'
  <2>1. n = 1 /\ Registering => driver # Controller
    <3> SUFFICES ASSUME n = 1, Registering, driver = Controller PROVE FALSE
      OBVIOUS
    <3>1. In("register") /\ d = calls[1].device
      BY <1>9 DEF In, Installing, Registering
    <3>2. heap[d].kind # "controller"
      BY <1>0, <3>1, NoController
    <3>3. heap[d].kind \in DOMAIN Kinds
      BY <1>0, Elements DEF DeviceSet
    <3>4. QED BY <3>2, <3>3, KindOfShape DEF Matches
  <2>2. n = 1 /\ Installing => /\ driver = calls[1].driver
                               /\ calls'[1].detected \in Nat
                               /\ calls'[1].detected + 1 < calls'[1].next
    <3> SUFFICES ASSUME n = 1, Installing
                 PROVE  /\ driver = calls[1].driver
                        /\ calls'[1].detected \in Nat
                        /\ calls'[1].detected + 1 < calls'[1].next
      OBVIOUS
    <3>1. In("postregister") /\ Top = calls[1] /\ calls'[1] = f
      BY <1>9 DEF In, Installing, Registering
    <3>2. calls[1].detected + 0 < calls[1].next
      BY <1>0, <1>11 DEF Nested
    <3>3. QED BY <1>2, <3>1, <3>2
  <2>3. n = 3 => driver = Disk
    <3> SUFFICES ASSUME n = 3 PROVE driver = Disk
      OBVIOUS
    <3>1. In("register") /\ d = calls[3].device /\ heap[d].kind = "disk"
      BY <1>0, <1>9, <1>11 DEF Nested, In
    <3>2. heap[d].kind \in DOMAIN Kinds
      BY <1>0, Elements DEF DeviceSet
    <3>3. QED BY <3>1, <3>2, KindOfShape DEF Matches
  <2>4. CASE n = 1
    <3>1. Installing' \/ Registering'
      BY <1>0, <1>11, <1>13, <2>4 DEF Nested
    <3>2. /\ Len(calls') = 2 /\ calls'[2].call = "init" /\ calls'[2].driver = driver
          /\ Registering => driver # Controller
          /\ Installing => /\ calls'[1].driver = driver
                           /\ calls'[1].detected \in Nat
                           /\ calls'[1].detected + 1 < calls'[1].next
      BY <1>8, <1>9, <1>11, <1>12, <2>1, <2>2, <2>4 DEF Installing
    <3>3. QED BY <1>13, <3>1, <3>2 DEF Nested
  <2>5. CASE n = 3
    <3>1. /\ Len(calls') = 4 /\ calls'[4].call = "init" /\ calls'[4].driver = Disk
          /\ calls'[1] = calls[1] /\ calls'[2] = calls[2]
          /\ calls'[3].call = calls[3].call /\ calls'[3].device = calls[3].device
      BY <1>8, <1>9, <1>11, <1>12, <2>3, <2>5
    <3>2. calls[3].device \in 1 .. h
      <4>1. In("register") /\ Top = calls[3]
        BY <1>0, <1>9, <1>11, <2>5 DEF Nested, In
      <4>2. QED BY <1>0, <4>1, CallerShape
    <3>3. heap'[calls'[3].device].kind = heap[calls[3].device].kind
      BY <1>5, <3>1, <3>2
    <3>4. QED BY <1>0, <1>11, <1>13, <2>5, <3>1, <3>3 DEF Nested
  <2>6. QED BY <1>9, <2>4, <2>5
<1>19. Scripted'
  <2>1. calls[1].call = "register" => heap'[calls'[1].device].kind = heap[calls[1].device].kind
    <3>1. calls[1].call = "register" => calls[1].device \in 1 .. h
      <4>1. 1 \in DOMAIN calls
        BY <1>9
      <4>2. Bounded(calls[1], h, Len(available_drivers), Len(devices))
        BY <1>0, <4>1, TypeParts
      <4> HIDE DEF h
      <4>3. QED BY <4>2 DEF Bounded
    <3>2. QED BY <1>5, <1>12, <3>1
  <2>2. \A s \in Subsystems : \A i \in DOMAIN instances'[s] : Installed(instances'[s][i].driver)
    BY <1>0, <1>4, <1>15 DEF Scripted
  <2>3. Past' = Past
    BY <1>1 DEF Past
  <2>4. (\A s \in Subsystems : \A i \in DOMAIN instances[s] : Installed(instances[s][i].driver))'
    BY <2>2, <2>3 DEF Installed
  <2>5. step' > 1
    BY <1>0, <1>1 DEF Scripted
  <2>6. Registering' => script'[step' - 1] = [call |-> "register_device",
                                              kind |-> heap'[calls'[1].device].kind]
    BY <1>0, <1>1, <1>13, <2>1 DEF Scripted, Registering
  <2>7. Installing' =>
          /\ script'[step' - 1] = [call |-> "install_driver", driver |-> calls'[1].driver]
          /\ \A i \in DOMAIN available_drivers' :
               available_drivers'[i].driver # calls'[1].driver
    BY <1>0, <1>1, <1>12, <1>13 DEF Scripted, Installing
  <2>8. (\A i \in DOMAIN available_drivers : Installed(available_drivers[i].driver))'
    BY <1>0, <1>1, <2>3 DEF Scripted, Installed
  <2>9. QED BY <1>10, <2>4, <2>5, <2>6, <2>7, <2>8 DEF Scripted
<1>20. Identified'
  <2>1. \A i \in DOMAIN calls' : calls'[i].call = "register" =>
          /\ i \in DOMAIN calls /\ calls[i].call = "register"
          /\ calls'[i].device = calls[i].device
    <3>1. \A i \in 1 .. n + 1 : i = n + 1 \/ i = n \/ (i \in 1 .. n /\ i # n)
      BY <1>9
    <3>2. n \in 1 .. n
      BY <1>9
    <3>3. QED BY <1>2, <1>8, <1>9, <1>10, <1>12, <3>1, <3>2 DEF In
  <2>2. \A i \in DOMAIN calls : calls[i].call = "register" => calls[i].device \in 1 .. h
    <3>1. \A i \in DOMAIN calls :
            Bounded(calls[i], h, Len(available_drivers), Len(devices))
      BY <1>0, TypeParts
    <3> HIDE DEF h
    <3>2. QED BY <3>1 DEF Bounded
  <2>3. \A i \in DOMAIN calls' : calls'[i].call = "register" =>
          heap'[calls'[i].device].id \notin Ids
    BY <1>5, <2>1, <2>2 DEF IInv, Identified
  <2>4. QED BY <1>0, <1>1, <1>5, <1>7, <2>3, IdentifiedStays DEF IInv
<1>21. \A s \in Subsystems : \A i \in DOMAIN instances[s] :
         instances[s][i].device \in 1 .. h /\ instances[s][i].device # d
  BY <1>0, Elements DEF InstanceSet, Paired
<1>22. Paired'
  <2>1. \A s \in Subsystems : \A i \in DOMAIN instances'[s] :
          /\ heap'[instances'[s][i].device].owned
          /\ instances'[s][i].driver \in Files => s = "ttype"
    BY <1>0, <1>3, <1>4, <1>5, <1>15, <1>21 DEF Paired
  <2>2. \A e \in 1 .. h : heap'[e].owned =>
          \E s \in Subsystems : \E i \in DOMAIN instances'[s] : instances'[s][i].device = e
    <3> SUFFICES ASSUME NEW e \in 1 .. h, heap'[e].owned
                 PROVE  \E s \in Subsystems : \E i \in DOMAIN instances'[s] :
                          instances'[s][i].device = e
      OBVIOUS
    <3>1. CASE e = d
      BY <1>3, <1>4, <1>6, <1>17, <3>1
    <3>2. CASE e # d
      BY <1>0, <1>5, <1>7, <1>16, <3>2 DEF Paired
    <3>3. QED BY <3>1, <3>2
  <2>3. \A s, u \in Subsystems : \A i \in DOMAIN instances'[s], j \in DOMAIN instances'[u] :
          instances'[s][i].device = instances'[u][j].device => s = u /\ i = j
    <3> SUFFICES ASSUME NEW s \in Subsystems, NEW u \in Subsystems,
                        NEW i \in DOMAIN instances'[s], NEW j \in DOMAIN instances'[u],
                        instances'[s][i].device = instances'[u][j].device
                 PROVE  s = u /\ i = j
      OBVIOUS
    <3>1. CASE i \in DOMAIN instances[s] /\ j \in DOMAIN instances[u]
               /\ instances'[s][i] = instances[s][i] /\ instances'[u][j] = instances[u][j]
      BY <1>0, <3>1 DEF Paired
    <3>2. CASE i \in DOMAIN instances[s] /\ instances'[s][i] = instances[s][i]
               /\ instances'[u][j] = x
      BY <1>4, <1>21, <3>2
    <3>3. CASE j \in DOMAIN instances[u] /\ instances'[u][j] = instances[u][j]
               /\ instances'[s][i] = x
      BY <1>4, <1>21, <3>3
    <3>4. QED BY <1>15, <3>1, <3>2, <3>3
  <2>4. Trying' => (/\ Screens # <<>> /\ Screens[Len(Screens)].driver = Top.driver
                    /\ Screens[Len(Screens)].device = Top.device)'
    <3> SUFFICES ASSUME driver \in Files
                 PROVE  (/\ Screens # <<>> /\ Screens[Len(Screens)].driver = Top.driver
                         /\ Screens[Len(Screens)].device = Top.device)'
      BY <1>13
    <3>1. Screens' = instances'[t] /\ Len(Screens') = k + 1
      BY <1>3, <1>6 DEF Screens
    <3>2. Screens' # <<>>
      BY <1>6, <3>1, EmptySeq
    <3>3. Screens'[Len(Screens')] = x
      BY <1>6, <3>1
    <3>4. QED BY <1>4, <1>8, <1>13, <3>2, <3>3
  <2>5. QED BY <1>5, <2>1, <2>2, <2>3, <2>4 DEF Paired
<1>23. SettledFiles' = SettledFiles
  <2>1. Sure = Len(Screens) /\ Len(Screens) \in Nat
    BY <1>0, <1>13, Elements DEF Sure, Screens, Subsystems
  <2>2. CASE driver \in Files
    <3>1. Screens = instances[t] /\ Screens' = instances'[t] /\ Len(Screens') = k + 1
      BY <1>3, <1>6, <2>2 DEF Screens
    <3>2. Sure' = k /\ Sure = k
      <4>1. Sure = k
        BY <2>1, <3>1 DEF k
      <4>2. Sure' = Len(Screens') - 1
        BY <1>13, <2>2 DEF Sure
      <4>3. QED BY <1>6, <3>1, <4>1, <4>2
    <3>3. \A i \in 1 .. k : Screens'[i].driver = Screens[i].driver
      BY <1>6, <3>1
    <3>4. SettledFiles' = {Screens'[i].driver : i \in 1 .. k}
      BY <3>2 DEF SettledFiles
    <3>5. SettledFiles = {Screens[i].driver : i \in 1 .. k}
      BY <3>2 DEF SettledFiles
    <3>6. QED BY <3>3, <3>4, <3>5
  <2>3. CASE driver \notin Files
    <3>1. Screens' = Screens /\ Sure' = Sure
      BY <1>3, <1>6, <1>13, <2>1, <2>3 DEF Screens, Sure, Subsystems
    <3>2. QED BY <3>1 DEF SettledFiles
  <2>4. QED BY <2>2, <2>3
<1>24. Kept'
  <2>1. driver \in Files => driver \in resident
    <3>1. CASE In("postregister")
      BY <1>0, <1>9, <3>1 DEF Kept
    <3>2. CASE In("register")
      BY <1>0, <3>2 DEF Kept
    <3>3. QED BY <3>1, <3>2
  <2>2. \A s \in Subsystems : \A i \in DOMAIN instances'[s] :
          instances'[s][i].driver \in Files => instances'[s][i].driver \in resident
    BY <1>0, <1>4, <1>15, <2>1 DEF Kept
  <2>3. Installing' /\ calls'[1].driver \in Files =>
          /\ calls'[1].driver \in resident
          /\ calls'[1].detected > 0 <=> calls'[1].driver \in SettledFiles
    BY <1>0, <1>12, <1>13 DEF Kept, Installing
  <2>4. \A y \in resident : y \in SettledFiles \/ (Installing' /\ calls'[1].driver = y)
    BY <1>0, <1>12, <1>13 DEF Kept, Installing
  <2>5. QED BY <1>0, <1>1, <1>23, <2>2, <2>3, <2>4 DEF Kept
<1>25. QED BY <1>14, <1>18, <1>19, <1>20, <1>22, <1>24 DEF IInv

(* register_device offers the device to the next driver.                   *)
LEMMA OfferDeviceKeeps == ASSUME IInv, OfferDevice PROVE IInv'
<1> DEFINE i == Top.next
           driver == available_drivers[i].driver
<1>0. TypeOK /\ Typed /\ Nested /\ Scripted
  BY DEF IInv, Typed
<1>1. /\ In("register") /\ i \in DOMAIN available_drivers
      /\ UNCHANGED <<script, step, state>>
      /\ DOMAIN available_drivers = 1 .. Len(available_drivers)
  BY <1>0, Elements DEF OfferDevice, Offering
<1>2. Top.device \in 1 .. Len(heap) /\ ~ In("postregister")
  BY <1>0, <1>1, CallerShape DEF In
<1>3. CASE Offers(i, Top.device)
  <2>1. /\ BeginInit(driver, Top.device, Append(Callers, [Top EXCEPT !.next = @ + 1]))
        /\ Matches(driver, Top.device) /\ ~ heap[Top.device].owned
        /\ available_drivers[i].loaded
    BY <1>3 DEF OfferDevice, Offers
  <2>2. driver \in Drivers /\ Installed(driver)
    BY <1>0, <1>1, Elements DEF Indexes, Scripted
  <2> HIDE DEF driver
  <2>3. \E j \in DOMAIN available_drivers : available_drivers[j].driver = driver
                                            /\ available_drivers[j].loaded
    BY <1>1, <2>1 DEF driver
  <2>4. QED BY <1>1, <1>2, <2>1, <2>2, <2>3, BeginInitKeeps
<1>4. CASE ~ Offers(i, Top.device)
  <2>1. Continue([Top EXCEPT !.next = @ + 1]) /\ UNCHANGED <<registry, driver_vars>>
    BY <1>4 DEF OfferDevice
  <2>2. UNCHANGED <<registry, driver_vars, script, step, state>>
    BY <1>1, <2>1
  <2>3. QED BY <1>1, <2>1, <2>2, MoveOnKeeps
<1>5. QED BY <1>3, <1>4

(* A step that leaves everything as it is, but perhaps the kernel.         *)
LEMMA StillKeeps ==
  ASSUME IInv, state' \in States,
         UNCHANGED <<registry, driver_vars, calls, script, step>>
  PROVE  IInv'
<1>1. UNCHANGED <<heap, devices, current_id, available_drivers, element, instances,
                  active_disk_driver, resident, calls, script, step>>
  BY DEF registry, driver_vars
<1>2. Typed'
  <2>1. TypeOK'
    BY <1>1, TypeParts, TypeNext DEF IInv, Typed
  <2>2. QED BY <1>1, <2>1 DEF IInv, Typed
<1>3. Nested'
  BY <1>1 DEF IInv, Nested, Installing, Registering
<1>4. Scripted' /\ Identified'
  BY <1>1 DEF IInv, Scripted, Installing, Registering, Installed, Past, Identified,
              UniqueIds, Ids
<1>5. Paired' /\ Kept'
  <2>1. (Trying' <=> Trying) /\ Screens' = Screens /\ (Installing' <=> Installing)
        /\ Top' = Top
    BY <1>1 DEF Trying, Screens, Installing, In, Top
  <2>2. Sure' = Sure
    BY <2>1 DEF Sure
  <2>3. SettledFiles' = SettledFiles
    BY <2>1, <2>2 DEF SettledFiles
  <2>4. Paired'
    BY <1>1, <2>1 DEF IInv, Paired
  <2>5. Kept'
    BY <1>1, <2>1, <2>3 DEF IInv, Kept
  <2>6. QED BY <2>4, <2>5
<1>6. QED BY <1>2, <1>3, <1>4, <1>5 DEF IInv

(* register_device comes to a truncated index.                             *)
LEMMA OfferTruncatedKeeps == ASSUME IInv, OfferTruncated PROVE IInv'
<1>0. TypeOK /\ Typed /\ Nested
  BY DEF IInv, Typed
<1>1. /\ In("register") /\ Top.next \in DOMAIN available_drivers
      /\ UNCHANGED <<registry, driver_vars, script, step>>
      /\ DOMAIN available_drivers = 1 .. Len(available_drivers)
      /\ Skip \/ CallGarbage
  BY <1>0, Elements DEF OfferTruncated, Offering
<1>2. CASE Skip
  <2>1. Continue([Top EXCEPT !.next = @ + 1]) /\ UNCHANGED state
    BY <1>2 DEF Skip, Continue
  <2>2. UNCHANGED <<registry, driver_vars, script, step, state>>
    BY <1>1, <2>1
  <2>3. QED BY <1>1, <2>1, <2>2, MoveOnKeeps
<1>3. CASE CallGarbage
  <2>1. state' \in States /\ UNCHANGED <<registry, driver_vars, calls, script, step>>
    BY <1>1, <1>3 DEF CallGarbage, States
  <2>2. QED BY <2>1, StillKeeps
<1>4. QED BY <1>1, <1>2, <1>3

(* postregister_driver looks at the next device.                           *)
LEMMA VisitDeviceKeeps == ASSUME IInv, VisitDevice PROVE IInv'
<1> DEFINE d == devices[Top.next]
           driver == Top.driver
<1>0. TypeOK /\ Typed /\ Nested /\ Scripted /\ calls # <<>>
  BY DEF IInv, Typed, VisitDevice, In
<1>1. /\ In("postregister") /\ ~ In("register") /\ Top.next \in DOMAIN devices
      /\ UNCHANGED <<script, step, state>>
      /\ DOMAIN devices = 1 .. Len(devices)
  BY <1>0, Elements DEF VisitDevice, In
<1>2. driver \in Drivers /\ d \in 1 .. Len(heap)
  <2>1. driver \in Drivers
    BY <1>0, <1>1, CallerShape
  <2>2. d \in 1 .. Len(heap)
    BY <1>0, <1>1, Elements
  <2>3. QED BY <2>1, <2>2
<1>3. Installed(driver)
  <2>1. Installing /\ Top = calls[1]
    BY <1>0, <1>1, TopShape
  <2>2. step > 1 /\ step \in Nat
    <3>1. step \in 1 .. Len(script) + 1
      BY <1>0, TypeParts
    <3>2. QED BY <1>0, <3>1 DEF Scripted
  <2>3. script[step - 1] \in Past
    BY <2>2 DEF Past
  <2>4. QED BY <1>0, <2>1, <2>3 DEF Scripted, Installed
<1>4. CASE Takes(driver, d)
  <2>1. /\ BeginInit(driver, d, Append(Callers, [Top EXCEPT !.next = @ + 1]))
        /\ Matches(driver, d) /\ ~ heap[d].owned
    BY <1>4 DEF VisitDevice, Takes
  <2> HIDE DEF d
  <2>2. QED BY <1>1, <1>2, <1>3, <2>1, BeginInitKeeps
<1>5. CASE ~ Takes(driver, d)
  <2>1. Continue([Top EXCEPT !.next = @ + 1]) /\ UNCHANGED <<registry, driver_vars>>
    BY <1>5 DEF VisitDevice
  <2>2. UNCHANGED <<registry, driver_vars, script, step, state>>
    BY <1>1, <2>1
  <2>3. QED BY <1>1, <2>1, <2>2, MoveOnKeeps
<1>6. QED BY <1>4, <1>5

(* The device being registered joins the list.                             *)
LEMMA EndRegisterKeeps == ASSUME IInv, EndRegister PROVE IInv'
<1> DEFINE n == Len(calls)
           h == Len(heap)
           m == Len(devices)
           d == Top.device
<1>0. TypeOK /\ Typed /\ Nested /\ Scripted /\ Paired /\ Kept /\ Identified /\ calls # <<>>
  BY DEF IInv, Typed, EndRegister, In
<1>1. /\ In("register") /\ devices' = Append(devices, d) /\ calls' = Callers
      /\ UNCHANGED <<heap, current_id, available_drivers, element, instances,
                     active_disk_driver, resident, script, step, state>>
  BY DEF EndRegister, driver_vars
<1>2. /\ h \in Nat /\ Len(available_drivers) \in Nat /\ m \in Nat
      /\ DOMAIN heap = 1 .. h /\ DOMAIN devices = 1 .. m
      /\ \A i \in 1 .. m : devices[i] \in 1 .. h
  BY <1>0, Elements
<1>3. /\ (n = 1 /\ Registering) \/ (n = 3 /\ Installing)
      /\ Top = calls[n] /\ DOMAIN calls = 1 .. n
      /\ calls' \in Seq(Frames) /\ Len(calls') = n - 1
      /\ \A i \in 1 .. n - 1 : calls'[i] = calls[i]
  BY <1>0, <1>1, TopShape, Stack
<1>4. DOMAIN calls' = 1 .. n - 1
  BY <1>3, LenProperties
<1>5. d \in 1 .. h
  <2>1. Bounded(Top, h, Len(available_drivers), m)
    BY <1>0, Stack
  <2> HIDE DEF h, m
  <2>2. QED BY <1>1, <2>1 DEF Bounded, In
<1>6. /\ devices' \in Seq(1 .. h) /\ Len(devices') = m + 1 /\ devices'[m + 1] = d
      /\ \A i \in 1 .. m : devices'[i] = devices[i]
      /\ DOMAIN devices' = 1 .. m + 1
  <2>1. devices \in Seq(1 .. h)
    BY <1>0, TypeParts
  <2> HIDE DEF h, d
  <2>2. /\ devices' \in Seq(1 .. h) /\ Len(devices') = m + 1 /\ devices'[m + 1] = d
        /\ \A i \in 1 .. m : devices'[i] = devices[i]
    BY <1>1, <1>5, <2>1, AppendProperties
  <2>3. DOMAIN devices' = 1 .. m + 1
    BY <2>2, LenProperties
  <2>4. QED BY <2>2, <2>3
<1> HIDE DEF m, n
<1>7. ASSUME n = 3
      PROVE  /\ ~ Trying' /\ Nested' /\ Scripted' /\ Kept'
             /\ \A i \in DOMAIN calls' : calls'[i].call # "register"
  <2>1. /\ Len(calls') = 2 /\ calls'[1] = calls[1] /\ calls'[2] = calls[2]
        /\ DOMAIN calls' = {1, 2} /\ calls' # <<>>
    <3>1. Len(<<>>) = 0
      BY EmptySeq
    <3>2. QED BY <1>3, <1>4, <1>7, <3>1
  <2>2. /\ Len(calls) = 3 /\ Installing /\ calls[1].call = "postregister"
        /\ calls[2].call = "init" /\ calls[2].driver = Controller
    BY <1>0, <1>3, <1>7 DEF Nested, n, Installing, Registering
  <2>3. Installing' /\ ~ Registering' /\ ~ Registering /\ ~ Trying /\ ~ Trying'
    <3>1. Controller \notin Files /\ Top' = calls[2]
      BY <2>1, DevicesAssumption DEF Top
    <3>2. QED BY <1>1, <2>1, <2>2, <3>1 DEF Installing, Registering, Trying, In
  <2>4. Nested'
    BY <1>0, <2>1, <2>2, <2>3 DEF Nested
  <2>5. Scripted'
    BY <1>0, <1>1, <2>1, <2>2, ScriptedStays
  <2>6. \A i \in DOMAIN calls' : calls'[i].call # "register"
    BY <2>1, <2>2
  <2>7. Kept'
    BY <1>0, <1>1, <2>1, <2>2, <2>3, KeptStays
  <2>8. QED BY <2>3, <2>4, <2>5, <2>6, <2>7
<1>8. ASSUME n = 1
      PROVE  /\ ~ Trying' /\ Nested' /\ Scripted' /\ Kept'
             /\ \A i \in DOMAIN calls' : calls'[i].call # "register"
  <2>1. calls' = <<>> /\ DOMAIN calls' = {} /\ Len(calls') = 0
    BY <1>3, <1>4, <1>8, EmptySeq
  <2>2. /\ ~ Installing' /\ ~ Registering' /\ ~ Installing /\ ~ Trying /\ ~ Trying'
    BY <1>1, <1>3, <1>8, <2>1 DEF Installing, Registering, Trying, In
  <2>3. Nested'
    BY <2>1, <2>2 DEF Nested
  <2>4. Scripted'
    <3>1. Past' = Past
      BY <1>1 DEF Past
    <3>2. QED BY <1>0, <1>1, <2>1, <2>2, <3>1 DEF Scripted, Installed
  <2>5. \A i \in DOMAIN calls' : calls'[i].call # "register"
    BY <2>1
  <2>6. Kept'
    BY <1>0, <1>1, <2>2, KeptStays
  <2>7. QED BY <2>2, <2>3, <2>4, <2>5, <2>6
<1>9. Typed'
  <2>1. \A i \in DOMAIN calls' : Bounded(calls'[i], h, Len(available_drivers), m + 1)
    <3>1. \A i \in DOMAIN calls : Bounded(calls[i], h, Len(available_drivers), m)
      BY <1>0, TypeParts DEF m
    <3>2. \A i \in 1 .. n - 1 : i \in 1 .. n
      BY <1>3
    <3>3. m <= m + 1 /\ m + 1 \in Nat /\ h <= h
          /\ Len(available_drivers) <= Len(available_drivers)
      BY <1>2
    <3> HIDE DEF h
    <3>4. QED BY <1>2, <1>3, <1>4, <3>1, <3>2, <3>3, BoundsGrow
  <2>2. TypeOK'
    BY <1>0, <1>1, <1>6, <2>1, TypeParts, TypeNext
  <2>3. QED BY <1>3, <2>2 DEF Typed
<1>10. Identified'
  <2>1. heap[d].id \notin Ids
    BY <1>0, <1>1, <1>3 DEF Identified, In
  <2>2. \A i \in 1 .. m : heap[devices[i]].id # heap[d].id
    BY <1>2, <2>1 DEF Ids
  <2>3. \A i \in DOMAIN devices' : i = m + 1 \/ i \in DOMAIN devices
    BY <1>2, <1>6
  <2>4. UniqueIds'
    <3> SUFFICES ASSUME NEW i \in DOMAIN devices', NEW j \in DOMAIN devices',
                        heap[devices'[i]].id = heap[devices'[j]].id
                 PROVE  i = j
      BY <1>1 DEF UniqueIds
    <3> HIDE DEF d
    <3>1. QED BY <1>0, <1>2, <1>6, <2>2, <2>3 DEF Identified, UniqueIds
  <2>5. QED BY <1>3, <1>7, <1>8, <2>4 DEF Identified
<1>11. Paired'
  <2>1. h <= h /\ \A e \in h + 1 .. h : FALSE
    BY <1>2
  <2>2. QED BY <1>0, <1>1, <1>2, <1>3, <1>7, <1>8, <2>1, PairedStays
<1>12. QED BY <1>3, <1>7, <1>8, <1>9, <1>10, <1>11 DEF IInv

-----------------------------------------------------------------------------
(* The end of an init.                                                     *)

(* init returns to its caller, which counts the device if it was a success *)
(* (and postregister_driver called).                                       *)
LEMMA ReturnShape ==
  ASSUME IInv, In("init"), NEW ok \in BOOLEAN, ReturnFromInit(ok),
         Len(heap') = Len(heap), UNCHANGED <<devices, available_drivers>>,
         \A d \in 1 .. Len(heap) : heap'[d].kind = heap[d].kind
  PROVE  LET m == Len(calls) - 1
         IN /\ m \in {1, 3} /\ calls' \in Seq(Frames) /\ calls' # <<>>
            /\ Len(calls') = m /\ DOMAIN calls' = 1 .. m
            /\ DOMAIN calls = 1 .. m + 1 /\ Top = calls[m + 1]
            /\ m = 3 => Installing /\ Top.driver = Disk
            /\ Installing' <=> Installing
            /\ Registering' <=> Registering
            /\ ~ Trying' /\ Nested'
            /\ \A i \in 1 .. m :
                 /\ calls'[i].call = calls[i].call
                 /\ calls[i].call = "register" => /\ calls'[i].device = calls[i].device
                                                  /\ calls[i].device \in 1 .. Len(heap)
                 /\ Bounded(calls'[i], Len(heap), Len(available_drivers), Len(devices))
            /\ Installing => /\ calls'[1].driver = calls[1].driver
                             /\ m = 1 => /\ calls[1].driver = Top.driver
                                         /\ calls[1].detected \in Nat
                                         /\ calls'[1].detected =
                                              calls[1].detected + (IF ok THEN 1 ELSE 0)
                             /\ m = 3 => calls[1].driver = Controller
<1> DEFINE n == Len(calls)
           m == n - 1
           h == Len(heap)
           a == Len(available_drivers)
           p == Len(devices)
           c == Caller
           r == AfterInit(c, ok)
<1>0. TypeOK /\ Typed /\ Nested /\ calls # <<>> /\ h \in Nat /\ a \in Nat /\ p \in Nat
  BY Elements DEF IInv, Typed, In
<1>1. /\ n = 2 \/ (n = 4 /\ Top.driver = Disk)
      /\ Top = calls[n] /\ DOMAIN calls = 1 .. n
  BY <1>0, TopShape, Stack
<1> HIDE DEF n
<1>2. m \in {1, 3} /\ m \in 1 .. n /\ c = calls[m] /\ n - 2 = m - 1 /\ m - 1 \in 0 .. n
  BY <1>1 DEF Caller, n
<1>3. /\ n = 2 => \/ c.call = "register" /\ Registering
                  \/ c.call = "postregister" /\ Installing
      /\ n = 4 => c.call = "register" /\ Installing
      /\ n = 2 /\ Installing => /\ c.detected + 1 < c.next /\ c.driver = Top.driver
      /\ n = 2 /\ Registering => Top.driver # Controller
      /\ n = 4 => calls[1].driver = Controller
  BY <1>0, <1>1, <1>2 DEF Nested, n, Installing, Registering
<1>4. \A i \in 1 .. n : Bounded(calls[i], h, a, p)
  BY <1>0, <1>1, TypeParts
<1> HIDE DEF h, a, p, c, r, m
<1>5. /\ r.call = c.call /\ Bounded(r, h, a, p) /\ r \in Frames
      /\ c.call = "register" => r.device = c.device /\ c.device \in 1 .. h
      /\ c.call = "postregister" => /\ r.driver = c.driver /\ r.next = c.next
                                    /\ c.detected \in Nat /\ c.next \in Nat
                                    /\ r.detected = c.detected + (IF ok THEN 1 ELSE 0)
  <2>1. CASE c.call = "register"
    <3>1. c \in [call : {"register"}, device : 1 .. h, next : 1 .. a + 1]
      BY <1>2, <1>4, <2>1 DEF Bounded
    <3>2. r = IF ok THEN [c EXCEPT !.next = a + 1] ELSE c
      BY <2>1 DEF AfterInit, r, a
    <3>3. a + 1 \in 1 .. a + 1
      BY <1>0
    <3>4. /\ r \in [call : {"register"}, device : 1 .. h, next : 1 .. a + 1]
          /\ r.call = c.call /\ r.device = c.device /\ c.device \in 1 .. h
      BY <3>1, <3>2, <3>3
    <3>5. Bounded(r, h, a, p)
      BY <3>4 DEF Bounded
    <3>6. QED BY <1>0, <2>1, <3>4, <3>5, BoundedIsFrame
  <2>2. CASE c.call = "postregister"
    <3> DEFINE e == c.detected + (IF ok THEN 1 ELSE 0)
    <3>1. c \in [call : {"postregister"}, driver : Drivers, next : 1 .. p + 1,
                 detected : 0 .. p]
      BY <1>2, <1>4, <2>2 DEF Bounded
    <3>2. r = [c EXCEPT !.detected = e]
      BY <2>2 DEF AfterInit, r
    <3>3. c.detected + 1 < c.next /\ c.detected \in Nat /\ c.next \in 1 .. p + 1
      BY <1>0, <1>1, <1>3, <2>2, <3>1
    <3>4. e \in 0 .. p
      BY <1>0, <3>3
    <3> HIDE DEF e
    <3>5. /\ r \in [call : {"postregister"}, driver : Drivers, next : 1 .. p + 1,
                    detected : 0 .. p]
          /\ r.call = c.call /\ r.driver = c.driver /\ r.next = c.next /\ r.detected = e
      BY <3>1, <3>2, <3>4
    <3>6. Bounded(r, h, a, p)
      BY <3>5 DEF Bounded
    <3>7. c.next \in Nat
      BY <1>0, <3>3
    <3>8. QED BY <1>0, <2>2, <3>3, <3>5, <3>6, <3>7, BoundedIsFrame DEF e
  <2>3. QED BY <1>1, <1>3, <2>1, <2>2
<1>6. /\ calls' \in Seq(Frames) /\ Len(calls') = m /\ calls'[m] = r
      /\ \A i \in 1 .. m - 1 : calls'[i] = calls[i]
  <2> DEFINE s == SubSeq(calls, 1, m - 1)
  <2>1. calls' = Append(s, r)
    BY <1>2 DEF ReturnFromInit, n, r, c
  <2>2. s \in Seq(Frames) /\ Len(s) = m - 1 /\ \A i \in 1 .. m - 1 : s[i] = calls[i]
    BY <1>0, <1>2, Prefix DEF n
  <2> HIDE DEF s
  <2>3. m \in Nat
    BY <1>2
  <2>4. QED BY <1>5, <2>1, <2>2, <2>3, AppendProperties
<1>7. DOMAIN calls' = 1 .. m /\ calls' # <<>> /\ Top' = r /\ DOMAIN calls = 1 .. m + 1
      /\ Top = calls[m + 1]
  <2>1. DOMAIN calls' = 1 .. m
    BY <1>6, LenProperties
  <2>2. Len(<<>>) = 0 /\ m # 0
    BY <1>2, EmptySeq
  <2>3. m + 1 = n
    BY <1>1 DEF m
  <2>4. QED BY <1>1, <1>6, <2>1, <2>2, <2>3 DEF Top
<1>8. \A i \in 1 .. m : (i = m \/ i \in 1 .. m - 1) /\ i \in 1 .. n
  BY <1>1, <1>2 DEF m
<1>9. \A i \in 1 .. m :
        /\ calls'[i].call = calls[i].call
        /\ calls[i].call = "register" => /\ calls'[i].device = calls[i].device
                                         /\ calls[i].device \in 1 .. h
        /\ Bounded(calls'[i], h, a, p)
  <2> SUFFICES ASSUME NEW i \in 1 .. m
               PROVE  /\ calls'[i].call = calls[i].call
                      /\ calls[i].call = "register" => /\ calls'[i].device = calls[i].device
                                                       /\ calls[i].device \in 1 .. h
                      /\ Bounded(calls'[i], h, a, p)
    OBVIOUS
  <2>1. CASE i = m
    BY <1>2, <1>5, <1>6, <2>1
  <2>2. CASE i \in 1 .. m - 1
    <3>1. calls'[i] = calls[i] /\ Bounded(calls[i], h, a, p)
      BY <1>4, <1>6, <1>8, <2>2
    <3>2. QED BY <3>1 DEF Bounded
  <2>3. QED BY <1>8, <2>1, <2>2
<1>10. 1 \in 1 .. m /\ m = n - 1 /\ (n = 2 => m = 1) /\ (n = 4 => m = 3)
       /\ (m = 1 => n = 2) /\ (m = 3 => n = 4)
  BY <1>1, <1>2 DEF m
<1>11. /\ Installing' <=> Installing
       /\ Registering' <=> Registering
       /\ ~ Trying'
  BY <1>0, <1>1, <1>3, <1>5, <1>7, <1>9, <1>10 DEF Installing, Registering, Trying, In
<1>12. Installing => /\ calls'[1].driver = calls[1].driver
                     /\ m = 1 => /\ calls[1].driver = Top.driver
                                 /\ calls[1].detected \in Nat
                                 /\ calls'[1].detected =
                                      calls[1].detected + (IF ok THEN 1 ELSE 0)
                                 /\ calls'[1].detected < calls'[1].next
                     /\ m = 3 => calls[1].driver = Controller /\ calls'[1] = calls[1]
  <2>1. CASE m = 1
    <3> SUFFICES ASSUME Installing
                 PROVE  /\ calls'[1].driver = calls[1].driver
                        /\ calls[1].driver = Top.driver
                        /\ calls[1].detected \in Nat
                        /\ calls'[1].detected =
                             calls[1].detected + (IF ok THEN 1 ELSE 0)
                        /\ calls'[1].detected < calls'[1].next
      BY <2>1
    <3>1. c = calls[1] /\ calls'[1] = r /\ c.call = "postregister"
      BY <1>2, <1>6, <2>1 DEF Installing
    <3>2. c.detected + 1 < c.next /\ c.driver = Top.driver
      BY <1>3, <1>10, <2>1
    <3>3. /\ r.driver = c.driver /\ r.next = c.next
          /\ c.detected \in Nat /\ c.next \in Nat
          /\ r.detected = c.detected + (IF ok THEN 1 ELSE 0)
      BY <1>5, <3>1
    <3>4. r.detected < r.next
      BY <3>2, <3>3
    <3>5. QED BY <3>1, <3>2, <3>3, <3>4
  <2>2. CASE m = 3
    <3>1. calls'[1] = calls[1]
      BY <1>6, <2>2
    <3>2. QED BY <1>3, <1>10, <2>2, <3>1
  <2>3. QED BY <1>2, <2>1, <2>2
<1>13. m = 3 => Installing /\ Top.driver = Disk
  BY <1>1, <1>3, <1>10
<1>14. Nested'
  <2>1. CASE m = 1
    <3>1. Installing' \/ Registering'
      BY <1>3, <1>10, <1>11, <2>1
    <3>2. Len(calls') = 1
      BY <1>6, <2>1
    <3>3. Installing => calls'[1].detected + 0 < calls'[1].next
      BY <1>12, <2>1
    <3>4. QED BY <1>11, <3>1, <3>2, <3>3 DEF Nested
  <2>2. CASE m = 3
    <3>1. /\ Len(calls') = 3 /\ calls'[1] = calls[1] /\ calls'[2] = calls[2]
          /\ calls'[3].call = "register" /\ calls'[3].device = calls[3].device
      BY <1>2, <1>3, <1>5, <1>6, <1>10, <2>2
    <3>2. /\ Len(calls) = 4 /\ Installing /\ ~ Registering' /\ Installing'
      BY <1>3, <1>10, <1>11, <2>2 DEF n, Installing, Registering
    <3>3. heap'[calls'[3].device].kind = heap[calls[3].device].kind
      BY <1>2, <1>3, <1>5, <1>10, <2>2, <3>1 DEF h
    <3>4. QED BY <1>0, <3>1, <3>2, <3>3 DEF Nested
  <2>3. QED BY <1>2, <2>1, <2>2
<1>15. QED
  BY <1>2, <1>6, <1>7, <1>9, <1>11, <1>12, <1>13, <1>14 DEF m, n, h, a, p

(* init succeeds: its instance is there to stay.                           *)
LEMMA InitSucceedsKeeps == ASSUME IInv, InitSucceeds PROVE IInv'
<1> DEFINE m == Len(calls) - 1
           h == Len(heap)
           k == Len(Screens)
<1>0. TypeOK /\ Typed /\ Nested /\ Scripted /\ Identified /\ Paired /\ Kept /\ calls # <<>>
  BY DEF IInv, Typed, InitSucceeds, In
<1>1. /\ In("init") /\ ReturnFromInit(TRUE)
      /\ active_disk_driver' = IF Top.driver = Disk THEN Top.device ELSE active_disk_driver
      /\ UNCHANGED <<heap, devices, current_id, available_drivers, element, instances, resident,
                     script, step, state>>
  BY DEF InitSucceeds, registry
<1>2. /\ m \in {1, 3} /\ calls' \in Seq(Frames) /\ calls' # <<>>
      /\ Len(calls') = m /\ DOMAIN calls' = 1 .. m /\ DOMAIN calls = 1 .. m + 1
      /\ m = 3 => Installing /\ Top.driver = Disk
      /\ Installing' <=> Installing
      /\ Registering' <=> Registering
      /\ ~ Trying' /\ Nested'
      /\ \A i \in 1 .. m :
           /\ calls'[i].call = calls[i].call
           /\ calls[i].call = "register" => calls'[i].device = calls[i].device
           /\ Bounded(calls'[i], h, Len(available_drivers), Len(devices))
      /\ Installing => /\ calls'[1].driver = calls[1].driver
                       /\ m = 1 => /\ calls[1].driver = Top.driver
                                   /\ calls[1].detected \in Nat
                                   /\ calls'[1].detected = calls[1].detected + 1
                       /\ m = 3 => calls[1].driver = Controller
  BY <1>0, <1>1, ReturnShape
<1>3. /\ h \in Nat /\ DOMAIN heap = 1 .. h
      /\ k \in Nat /\ DOMAIN Screens = 1 .. k
  BY <1>0, Elements DEF Screens, Subsystems
<1> HIDE DEF m, h
<1>4. Typed'
  <2>1. active_disk_driver' \in 0 .. h
    <3>1. Bounded(Top, h, Len(available_drivers), Len(devices)) /\ active_disk_driver \in 0 .. h
      BY <1>0, Stack, TypeParts DEF h
    <3>2. Top.device \in 1 .. h
      BY <1>1, <3>1 DEF Bounded, In
    <3>3. QED BY <1>1, <1>3, <3>1, <3>2
  <2>2. TypeOK'
    BY <1>0, <1>1, <1>2, <2>1, TypeParts, TypeNext DEF h
  <2>3. QED BY <1>2, <2>2 DEF Typed
<1>5. Scripted'
  <2>1. 1 \in 1 .. m
    BY <1>2
  <2>2. calls[1].call = "postregister" => Installing
    BY <1>0 DEF Installing
  <2>3. QED BY <1>0, <1>1, <1>2, <2>1, <2>2, ScriptedStays
<1>6. Identified'
  <2>1. \A i \in DOMAIN calls' : calls'[i].call = "register" =>
          i \in DOMAIN calls /\ calls[i].call = "register" /\ calls'[i].device = calls[i].device
    BY <1>2
  <2>2. \A i \in DOMAIN calls' : calls'[i].call = "register" =>
          heap'[calls'[i].device].id \notin Ids
    BY <1>0, <1>1, <2>1 DEF Identified
  <2>3. QED BY <1>0, <1>1, <1>3, <2>2, IdentifiedStays DEF h
<1>7. Paired'
  <2>1. h <= h /\ \A d \in h + 1 .. h : FALSE
    BY <1>3
  <2>2. QED BY <1>0, <1>1, <1>2, <1>3, <2>1, PairedStays DEF h
<1>8. SettledFiles' = {Screens[i].driver : i \in 1 .. k}
  <2>1. Screens' = Screens
    BY <1>1 DEF Screens
  <2>2. Sure' = k
    BY <1>2, <1>3, <2>1 DEF Sure
  <2> HIDE DEF k
  <2>3. SettledFiles' = {Screens'[i].driver : i \in 1 .. Sure'}
    BY DEF SettledFiles
  <2>4. QED BY <2>1, <2>2, <2>3
<1>9. SettledFiles \subseteq SettledFiles'
  <2> HIDE DEF k
  <2>1. Sure \in {k, k - 1}
    BY <1>3 DEF Sure, k
  <2>2. 1 .. Sure \subseteq 1 .. k
    BY <1>3, <2>1
  <2>3. \A y \in SettledFiles : \E i \in 1 .. k : y = Screens[i].driver
    BY <2>2 DEF SettledFiles
  <2>4. QED BY <1>8, <2>3
<1>10. ASSUME Top.driver \in Files
       PROVE  Top.driver \in SettledFiles'
  <2>1. Screens # <<>> /\ Screens[k].driver = Top.driver
    BY <1>0, <1>1, <1>10 DEF Paired, Trying
  <2>2. k # 0
    <3>1. Screens \in Seq(InstanceSet(h))
      BY <1>0, TypeParts DEF Screens, Subsystems, h
    <3>2. QED BY <2>1, <3>1, EmptySeq
  <2> HIDE DEF k
  <2>3. k \in 1 .. k
    BY <1>3, <2>2
  <2>4. QED BY <1>8, <2>1, <2>3
<1>11. Kept'
  <2>1. Installing' /\ calls'[1].driver \in Files =>
          /\ calls'[1].driver \in resident
          /\ calls'[1].detected > 0 <=> calls'[1].driver \in SettledFiles'
    <3> SUFFICES ASSUME Installing, calls[1].driver \in Files
                 PROVE  /\ calls'[1].driver \in resident
                        /\ calls'[1].detected > 0
                        /\ calls'[1].driver \in SettledFiles'
      BY <1>2
    <3>1. m = 1
      BY <1>2, DevicesAssumption
    <3>2. /\ calls'[1].driver = Top.driver /\ calls[1].driver = Top.driver
          /\ calls'[1].detected > 0
      BY <1>2, <3>1
    <3>3. QED BY <1>0, <1>10, <3>2 DEF Kept
  <2>2. \A f \in resident : f \in SettledFiles' \/ (Installing' /\ calls'[1].driver = f)
    BY <1>0, <1>2, <1>9 DEF Kept
  <2>3. QED BY <1>0, <1>1, <2>1, <2>2 DEF Kept
<1>12. QED BY <1>2, <1>4, <1>5, <1>6, <1>7, <1>11 DEF IInv

(* The last of a subsystem's instances goes.                               *)
LEMMA LastInstanceGoes ==
  ASSUME TypeOK, NEW t \in Subsystems, instances[t] # <<>>,
         instances' = [instances EXCEPT ![t] = DropInstance(@)]
  PROVE  LET n == Len(instances[t])
         IN /\ instances' \in [Subsystems -> Seq(InstanceSet(Len(heap)))]
            /\ n \in Nat \ {0} /\ Len(instances'[t]) = n - 1
            /\ DOMAIN instances[t] = 1 .. n /\ DOMAIN instances'[t] = 1 .. n - 1
            /\ \A i \in 1 .. n - 1 : instances'[t][i] = instances[t][i]
            /\ \A s \in Subsystems : s # t => instances'[s] = instances[s]
<1> DEFINE S == InstanceSet(Len(heap))
           n == Len(instances[t])
           y == DropInstance(instances[t])
<1>1. instances \in [Subsystems -> Seq(S)] /\ instances[t] \in Seq(S)
  BY TypeParts
<1>2. /\ n \in Nat /\ DOMAIN instances[t] = 1 .. n
      /\ \A i \in 1 .. n : instances[t][i] \in S
  BY Elements
<1> HIDE DEF S
<1>3. n # 0
  BY <1>1, EmptySeq
<1>4. /\ y \in Seq(S) /\ Len(y) = n - 1
      /\ \A i \in 1 .. n - 1 : y[i] = instances[t][i]
  <2> DEFINE s == instances[t]
             k == n - 1
  <2>1. k \in 0 .. n /\ k \in Nat /\ k <= n /\ \A i \in 1 .. k : i \in 1 .. n
    BY <1>2, <1>3
  <2>2. s \in Seq(S) /\ n = Len(s) /\ y = SubSeq(s, 1, k)
    BY <1>1 DEF DropInstance
  <2>3. \A i \in 1 .. k : s[i] \in S
    BY <1>2, <2>1
  <2> HIDE DEF s, k, n, y
  <2>4. QED BY <2>1, <2>2, <2>3, SubSeqProperties DEF s, k
<1>5. DOMAIN y = 1 .. n - 1
  BY <1>4, LenProperties
<1>6. instances' = [instances EXCEPT ![t] = y]
  OBVIOUS
<1> HIDE DEF y, n
<1>7. /\ instances'[t] = y /\ \A s \in Subsystems : s # t => instances'[s] = instances[s]
      /\ instances' \in [Subsystems -> Seq(S)]
  BY <1>1, <1>4, <1>6
<1>8. QED BY <1>2, <1>3, <1>4, <1>5, <1>7 DEF S, n

(* init fails: the instance goes, and the device is nobody's again.        *)
LEMMA InitFailsKeeps == ASSUME IInv, InitFails PROVE IInv'
<1> DEFINE d == Top.device
           h == Len(heap)
           k == Len(Screens)
<1>0. TypeOK /\ Typed /\ Nested /\ Scripted /\ Identified /\ Paired /\ Kept /\ calls # <<>>
  BY DEF IInv, Typed, InitFails, In
<1>1. /\ In("init") /\ Top.driver \in Files /\ ReturnFromInit(FALSE)
      /\ heap' = [heap EXCEPT ![d].owned = FALSE]
      /\ instances' = [instances EXCEPT ![KindOf(Top.driver).type] = DropInstance(@)]
      /\ UNCHANGED <<devices, current_id, available_drivers, element, active_disk_driver,
                     resident, script, step, state>>
  BY DEF InitFails
<1>2. Bounded(Top, h, Len(available_drivers), Len(devices))
  BY <1>0, Stack
<1>3. d \in 1 .. h /\ Top.driver \in Drivers
  <2> HIDE DEF h
  <2>1. QED BY <1>1, <1>2 DEF Bounded, In
<1>4. /\ heap' \in Seq(DeviceSet(h)) /\ Len(heap') = h
      /\ DOMAIN heap' = 1 .. h
      /\ \A e \in 1 .. h : /\ heap'[e].kind = heap[e].kind
                           /\ heap'[e].id = heap[e].id
                           /\ e # d => (heap'[e].owned <=> heap[e].owned)
      /\ ~ heap'[d].owned
  BY <1>0, <1>1, <1>3, OwnedHeap
<1>5. Trying /\ Screens # <<>> /\ Screens[k].driver = Top.driver /\ Screens[k].device = d
  BY <1>0, <1>1 DEF Paired, Trying
<1>6. KindOf(Top.driver).type = "ttype" /\ "ttype" \in Subsystems
  BY <1>1, <1>3, KindOfShape DEF Subsystems
<1>7. /\ instances' \in [Subsystems -> Seq(InstanceSet(h))]
      /\ k \in Nat \ {0} /\ Len(Screens') = k - 1
      /\ DOMAIN Screens = 1 .. k /\ DOMAIN Screens' = 1 .. k - 1
      /\ \A i \in 1 .. k - 1 : Screens'[i] = Screens[i]
      /\ \A s \in Subsystems : s # "ttype" => instances'[s] = instances[s]
  BY <1>0, <1>1, <1>5, <1>6, LastInstanceGoes DEF Screens
<1>8. /\ Len(calls') = 1 /\ calls' \in Seq(Frames) /\ calls' # <<>> /\ DOMAIN calls' = {1}
      /\ DOMAIN calls = 1 .. 2
      /\ Installing' <=> Installing
      /\ Registering' <=> Registering
      /\ ~ Trying' /\ Nested'
      /\ calls'[1].call = calls[1].call
      /\ calls[1].call = "register" => /\ calls'[1].device = calls[1].device
                                       /\ calls[1].device \in 1 .. h
      /\ Bounded(calls'[1], h, Len(available_drivers), Len(devices))
      /\ Installing => /\ calls'[1].driver = calls[1].driver
                       /\ calls[1].detected \in Nat
                       /\ calls'[1].detected = calls[1].detected
  <2> DEFINE m == Len(calls) - 1
  <2>1. /\ m \in {1, 3} /\ calls' \in Seq(Frames) /\ calls' # <<>>
        /\ Len(calls') = m /\ DOMAIN calls' = 1 .. m /\ DOMAIN calls = 1 .. m + 1
        /\ m = 3 => Top.driver = Disk
        /\ Installing' <=> Installing
        /\ Registering' <=> Registering
        /\ ~ Trying' /\ Nested'
        /\ \A i \in 1 .. m :
             /\ calls'[i].call = calls[i].call
             /\ calls[i].call = "register" => /\ calls'[i].device = calls[i].device
                                              /\ calls[i].device \in 1 .. h
             /\ Bounded(calls'[i], h, Len(available_drivers), Len(devices))
        /\ Installing => /\ calls'[1].driver = calls[1].driver
                         /\ m = 1 => /\ calls[1].detected \in Nat
                                     /\ calls'[1].detected = calls[1].detected + 0
    BY <1>0, <1>1, <1>4, ReturnShape
  <2> HIDE DEF m, h
  <2>2. m = 1 /\ 1 .. m = {1} /\ 1 .. m + 1 = 1 .. 2
    BY <1>1, <2>1, DevicesAssumption
  <2>3. QED BY <2>1, <2>2
<1>9. h \in Nat /\ DOMAIN heap = 1 .. h
  BY <1>0, Elements
<1>10. /\ \A i \in 1 .. k - 1 : i \in 1 .. k /\ i # k
       /\ \A i \in 1 .. k : i \in 1 .. k - 1 \/ i = k
       /\ k \in 1 .. k
  <2> HIDE DEF k
  <2>1. QED BY <1>7
<1> HIDE DEF h, d, k
<1>11. \A s \in Subsystems : \A i \in DOMAIN instances'[s] :
         i \in DOMAIN instances[s] /\ instances'[s][i] = instances[s][i]
  BY <1>7, <1>10 DEF Screens
<1>12. Typed'
  <2>1. TypeOK'
    BY <1>0, <1>1, <1>4, <1>7, <1>8, TypeParts, TypeNext DEF h
  <2>2. QED BY <1>8, <2>1 DEF Typed
<1>13. Scripted'
  <2>1. Past' = Past
    BY <1>1 DEF Past
  <2>2. (\A s \in Subsystems : \A i \in DOMAIN instances[s] : Installed(instances[s][i].driver))'
    BY <1>0, <1>11, <2>1 DEF Scripted, Installed
  <2>3. (\A i \in DOMAIN available_drivers : Installed(available_drivers[i].driver))'
    BY <1>0, <1>1, <2>1 DEF Scripted, Installed
  <2>4. Registering' => script'[step' - 1] = [call |-> "register_device",
                                              kind |-> heap'[calls'[1].device].kind]
    BY <1>0, <1>1, <1>4, <1>8 DEF Scripted, Registering
  <2>5. Installing' =>
          /\ script'[step' - 1] = [call |-> "install_driver", driver |-> calls'[1].driver]
          /\ \A i \in DOMAIN available_drivers' :
               available_drivers'[i].driver # calls'[1].driver
    BY <1>0, <1>1, <1>8 DEF Scripted, Installing
  <2>6. step' > 1
    BY <1>0, <1>1 DEF Scripted
  <2>7. QED BY <1>8, <2>2, <2>3, <2>4, <2>5, <2>6 DEF Scripted
<1>14. Identified'
  <2>1. \A i \in DOMAIN calls' : calls'[i].call = "register" =>
          heap'[calls'[i].device].id \notin Ids
    BY <1>0, <1>4, <1>8 DEF Identified
  <2>2. QED BY <1>0, <1>1, <1>4, <1>9, <2>1, IdentifiedStays DEF h
<1>15. \A s \in Subsystems : \A i \in DOMAIN instances'[s] : instances'[s][i].device # d
  <2> SUFFICES ASSUME NEW s \in Subsystems, NEW i \in DOMAIN instances'[s],
                      instances'[s][i].device = d
               PROVE  FALSE
    OBVIOUS
  <2>1. instances[s][i].device = instances["ttype"][k].device
        /\ i \in DOMAIN instances[s] /\ k \in DOMAIN instances["ttype"]
    BY <1>5, <1>7, <1>10, <1>11 DEF Screens
  <2>2. s = "ttype" /\ i = k
    BY <1>0, <1>6, <2>1 DEF Paired
  <2>3. QED BY <1>7, <1>10, <2>2 DEF Screens
<1>16. Paired'
  <2>1. \A s \in Subsystems : \A i \in DOMAIN instances'[s] :
          /\ heap'[instances'[s][i].device].owned
          /\ instances'[s][i].driver \in Files => s = "ttype"
    <3>1. \A s \in Subsystems : \A i \in DOMAIN instances[s] :
            instances[s][i].device \in 1 .. h
      BY <1>0, Elements DEF InstanceSet, h
    <3>2. QED BY <1>0, <1>4, <1>11, <1>15, <3>1 DEF Paired
  <2>2. \A e \in 1 .. h : heap'[e].owned =>
          \E s \in Subsystems : \E i \in DOMAIN instances'[s] : instances'[s][i].device = e
    <3> SUFFICES ASSUME NEW e \in 1 .. h, heap'[e].owned
                 PROVE  \E s \in Subsystems : \E i \in DOMAIN instances'[s] :
                          instances'[s][i].device = e
      OBVIOUS
    <3>1. e # d /\ heap[e].owned /\ e \in DOMAIN heap
      BY <1>4, <1>9
    <3>2. PICK s \in Subsystems : \E i \in DOMAIN instances[s] : instances[s][i].device = e
      BY <1>0, <3>1 DEF Paired
    <3>3. PICK i \in DOMAIN instances[s] : instances[s][i].device = e
      BY <3>2
    <3>4. i \in DOMAIN instances'[s] /\ instances'[s][i] = instances[s][i]
      BY <1>5, <1>7, <1>10, <3>1, <3>3 DEF Screens
    <3>5. QED BY <3>3, <3>4
  <2>3. \A s, u \in Subsystems : \A i \in DOMAIN instances'[s], j \in DOMAIN instances'[u] :
          instances'[s][i].device = instances'[u][j].device => s = u /\ i = j
    BY <1>0, <1>11 DEF Paired
  <2>4. QED BY <1>4, <1>8, <2>1, <2>2, <2>3 DEF Paired
<1>17. SettledFiles' = SettledFiles
  <2>1. Sure = k - 1 /\ Sure' = k - 1
    BY <1>5, <1>7, <1>8 DEF Sure, k
  <2>2. SettledFiles' = {Screens'[i].driver : i \in 1 .. k - 1}
    BY <2>1 DEF SettledFiles
  <2>3. SettledFiles = {Screens[i].driver : i \in 1 .. k - 1}
    BY <2>1 DEF SettledFiles
  <2>4. QED BY <1>7, <2>2, <2>3
<1>18. Kept'
  <2>1. \A s \in Subsystems : \A i \in DOMAIN instances'[s] :
          instances'[s][i].driver \in Files => instances'[s][i].driver \in resident
    BY <1>0, <1>11 DEF Kept
  <2>2. Installing' /\ calls'[1].driver \in Files =>
          /\ calls'[1].driver \in resident
          /\ calls'[1].detected > 0 <=> calls'[1].driver \in SettledFiles
    BY <1>0, <1>8 DEF Kept
  <2>3. \A f \in resident : f \in SettledFiles \/ (Installing' /\ calls'[1].driver = f)
    BY <1>0, <1>8 DEF Kept
  <2>4. QED BY <1>0, <1>1, <1>17, <2>1, <2>2, <2>3 DEF Kept
<1>19. QED BY <1>8, <1>12, <1>13, <1>14, <1>16, <1>18 DEF IInv

-----------------------------------------------------------------------------
(* install_driver, and the kernel between its calls.                       *)

(* With no call at work, the files in use are those that drive a screen.   *)
LEMMA SettledWhenSure ==
  ASSUME Typed, Paired, ~ Trying
  PROVE  /\ SettledFiles = {Screens[i].driver : i \in DOMAIN Screens}
         /\ \A s \in Subsystems : \A i \in DOMAIN instances[s] :
              instances[s][i].driver \in Files => instances[s][i].driver \in SettledFiles
<1> DEFINE k == Len(Screens)
<1>1. k \in Nat /\ DOMAIN Screens = 1 .. k
  BY Elements DEF Typed, Screens, Subsystems
<1>2. Sure = k
  BY <1>1 DEF Sure
<1>3. SettledFiles = {Screens[i].driver : i \in DOMAIN Screens}
  <2> HIDE DEF k
  <2>1. QED BY <1>1, <1>2 DEF SettledFiles
<1>4. QED BY <1>3 DEF Paired, Screens

(* The call at work is the script's last.                                  *)
LEMMA LastCall ==
  ASSUME TypeOK, step > 1
  PROVE  script[step - 1] \in Past
<1>1. step \in 1 .. Len(script) + 1 /\ script \in Scripts
  BY TypeParts
<1>2. step \in Nat
  BY <1>1
<1>3. step - 1 \in 1 .. step - 1
  BY <1>2
<1>4. QED BY <1>3 DEF Past

(* install_driver ends: a file that drives nothing goes.                   *)
LEMMA EndInstallKeeps == ASSUME IInv, EndInstall PROVE IInv'
<1> DEFINE a == Len(available_drivers)
           x == [driver |-> Top.driver, loaded |-> Top.detected # 0]
           h == Len(heap)
<1>0. TypeOK /\ Typed /\ Nested /\ Scripted /\ Identified /\ Paired /\ Kept /\ calls # <<>>
  BY DEF IInv, Typed, EndInstall, In
<1>1. /\ In("postregister") /\ available_drivers' = Append(available_drivers, x)
      /\ resident' = IF Top.detected # 0 THEN resident ELSE resident \ {Top.driver}
      /\ calls' = Callers
      /\ UNCHANGED <<heap, devices, current_id, instances, active_disk_driver,
                     script, step, state>>
      /\ element' \in {element, "index"}
  BY DEF EndInstall, StaysResident, registry, Made
<1>2. /\ Len(calls) = 1 /\ Installing /\ Top = calls[1]
      /\ calls' \in Seq(Frames) /\ Len(calls') = 0
  <2>1. Len(calls) = 1 /\ Installing /\ Top = calls[1]
    BY <1>0, <1>1, TopShape
  <2>2. calls' \in Seq(Frames) /\ Len(calls') = Len(calls) - 1
    BY <1>0, <1>1, Stack
  <2>3. QED BY <2>1, <2>2
<1>3. calls' = <<>> /\ DOMAIN calls' = {}
  <2>1. calls' = <<>>
    BY <1>2, EmptySeq
  <2>2. QED BY <2>1, EmptySeq
<1>4. a \in Nat /\ DOMAIN available_drivers = 1 .. a /\ h \in Nat /\ DOMAIN heap = 1 .. h
  BY <1>0, Elements
<1>5. Top.driver \in Drivers /\ Top.detected \in Nat
  <2>1. Bounded(Top, h, a, Len(devices)) /\ Len(devices) \in Nat
    BY <1>0, Stack, Elements
  <2> HIDE DEF h, a
  <2>2. QED BY <1>1, <2>1 DEF Bounded, In
<1>6. x \in Indexes /\ x.driver = Top.driver /\ (x.loaded <=> Top.detected # 0)
  BY <1>5 DEF Indexes
<1> HIDE DEF x, a, h
<1>7. /\ available_drivers' \in Seq(Indexes) /\ DOMAIN available_drivers' = 1 .. a + 1
      /\ available_drivers'[a + 1] = x
      /\ \A i \in 1 .. a : available_drivers'[i] = available_drivers[i]
  <2>1. available_drivers \in Seq(Indexes)
    BY <1>0, TypeParts
  <2>2. /\ available_drivers' \in Seq(Indexes) /\ Len(available_drivers') = a + 1
        /\ available_drivers'[a + 1] = x
        /\ \A i \in 1 .. a : available_drivers'[i] = available_drivers[i]
    BY <1>1, <1>6, <2>1, AppendProperties DEF a
  <2>3. QED BY <2>2, LenProperties
<1>8. \A i \in DOMAIN available_drivers' :
        \/ i \in DOMAIN available_drivers /\ available_drivers'[i] = available_drivers[i]
        \/ available_drivers'[i] = x
  <2>1. \A i \in 1 .. a + 1 : i \in 1 .. a \/ i = a + 1
    BY <1>4
  <2>2. QED BY <1>4, <1>7, <2>1
<1>9. Typed'
  <2>1. resident' \subseteq Files
    BY <1>0, <1>1, TypeParts
  <2>2. TypeOK'
    BY <1>0, <1>1, <1>3, <1>7, <2>1, TypeParts, TypeNext DEF ElementKinds
  <2>3. QED BY <1>2, <2>2 DEF Typed
<1>10. ~ Installing' /\ ~ Registering' /\ ~ Trying /\ ~ Trying'
  BY <1>1, <1>3 DEF Installing, Registering, Trying, In
<1>11. Nested'
  BY <1>2, <1>10 DEF Nested
<1>12. Scripted'
  <2>1. Past' = Past
    BY <1>1 DEF Past
  <2>2. step > 1 /\ Installed(Top.driver)
    BY <1>0, <1>2, LastCall DEF Scripted, Installed
  <2>3. (\A i \in DOMAIN available_drivers : Installed(available_drivers[i].driver))'
    BY <1>0, <1>6, <1>8, <2>1, <2>2 DEF Scripted, Installed
  <2>4. (\A s \in Subsystems : \A i \in DOMAIN instances[s] : Installed(instances[s][i].driver))'
    BY <1>0, <1>1, <2>1 DEF Scripted, Installed
  <2>5. QED BY <1>3, <1>10, <2>3, <2>4 DEF Scripted
<1>13. Identified'
  <2>1. \A i \in DOMAIN calls' : calls'[i].call = "register" =>
          heap'[calls'[i].device].id \notin Ids
    BY <1>3
  <2>2. QED BY <1>0, <1>1, <1>4, <2>1, IdentifiedStays DEF h
<1>14. Paired'
  <2>1. h <= h /\ \A e \in h + 1 .. h : FALSE
    BY <1>4
  <2>2. QED BY <1>0, <1>1, <1>4, <1>10, <2>1, PairedStays DEF h
<1>15. SettledFiles' = SettledFiles
  BY <1>1, <1>10 DEF SettledFiles, Sure, Screens
<1>16. Top.driver \in Files => /\ Top.driver \in resident
                               /\ Top.detected # 0 <=> Top.driver \in SettledFiles
  <2>1. Top.driver \in Files => /\ Top.driver \in resident
                                /\ Top.detected > 0 <=> Top.driver \in SettledFiles
    BY <1>0, <1>2 DEF Kept
  <2>2. Top.detected > 0 <=> Top.detected # 0
    BY <1>5
  <2>3. QED BY <2>1, <2>2
<1>17. \A f \in resident : f \in Files
  BY <1>0, TypeParts
<1>18. Kept'
  <2>1. \A s \in Subsystems : \A i \in DOMAIN instances[s] :
          instances[s][i].driver \in Files => instances[s][i].driver \in resident'
    BY <1>0, <1>1, <1>10, <1>16, SettledWhenSure DEF Kept
  <2>2. \A i \in DOMAIN available_drivers' :
          available_drivers'[i].loaded /\ available_drivers'[i].driver \in Files =>
            available_drivers'[i].driver \in resident'
    <3> SUFFICES ASSUME NEW i \in DOMAIN available_drivers', available_drivers'[i].loaded,
                        available_drivers'[i].driver \in Files
                 PROVE  available_drivers'[i].driver \in resident'
      OBVIOUS
    <3>1. CASE i \in DOMAIN available_drivers
               /\ available_drivers'[i] = available_drivers[i]
      <4>1. available_drivers[i].driver # Top.driver
        BY <1>0, <1>2, <3>1 DEF Scripted
      <4>2. QED BY <1>0, <1>1, <3>1, <4>1 DEF Kept
    <3>2. CASE available_drivers'[i] = x
      BY <1>1, <1>6, <1>16, <3>2
    <3>3. QED BY <1>8, <3>1, <3>2
  <2>3. \A f \in resident' : f \in SettledFiles
    <3>1. \A f \in resident : f \in SettledFiles \/ f = Top.driver
      BY <1>0, <1>2 DEF Kept
    <3>2. QED BY <1>1, <1>16, <1>17, <3>1
  <2>4. QED BY <1>1, <1>10, <1>15, <2>1, <2>2, <2>3 DEF Kept
<1>19. QED BY <1>9, <1>11, <1>12, <1>13, <1>14, <1>18 DEF IInv

(* install_driver begins; the pages of a file are mapped.                  *)
LEMMA InstallDriverKeeps == ASSUME IInv, install_driver PROVE IInv'
<1> DEFINE driver == script[step].driver
           f == [call |-> "postregister", driver |-> driver, next |-> 1, detected |-> 0]
           h == Len(heap)
<1>0. TypeOK /\ Typed /\ Nested /\ Scripted /\ Identified /\ Paired /\ Kept
  BY DEF IInv, Typed
<1>1. /\ calls = <<>> /\ step \in DOMAIN script /\ script[step].call = "install_driver"
      /\ step' = step + 1 /\ calls' = <<f>> /\ resident' = resident \cup ({driver} \cap Files)
      /\ UNCHANGED <<heap, devices, current_id, available_drivers, instances,
                     active_disk_driver, script, state>>
      /\ element' \in {element, "pointer"}
  BY DEF install_driver, Calling, Idle, registry, Made
<1>2. /\ Len(script) \in Nat /\ DOMAIN script = 1 .. Len(script) /\ driver \in Drivers
      /\ script[step] = [call |-> "install_driver", driver |-> driver]
  BY <1>0, <1>1, ScriptShape
<1>3. step \in Nat /\ step' > 1 /\ step' - 1 = step /\ step' \in 1 .. Len(script) + 1
  BY <1>1, <1>2
<1>4. h \in Nat /\ Len(available_drivers) \in Nat /\ Len(devices) \in Nat
      /\ DOMAIN heap = 1 .. h
  BY <1>0, Elements
<1> HIDE DEF h, driver
<1>5. /\ Bounded(f, h, Len(available_drivers), Len(devices)) /\ f \in Frames
      /\ f.call = "postregister" /\ f.driver = driver /\ f.detected = 0 /\ f.next = 1
  BY <1>2, <1>4 DEF Bounded, Frames
<1> HIDE DEF f
<1>6. calls' \in Seq(Frames) /\ Len(calls') = 1 /\ calls'[1] = f /\ DOMAIN calls' = {1}
      /\ calls' # <<>>
  BY <1>1, <1>5
<1>7. Typed'
  <2>1. \A i \in DOMAIN calls' :
          Bounded(calls'[i], h, Len(available_drivers), Len(devices))
    BY <1>5, <1>6
  <2>2. resident' \subseteq Files
    BY <1>0, <1>1, TypeParts
  <2>3. TypeOK'
    BY <1>0, <1>1, <1>3, <2>1, <2>2, TypeParts, TypeNext DEF h, ElementKinds
  <2>4. QED BY <1>6, <2>3 DEF Typed
<1>8. Installing' /\ ~ Registering' /\ ~ Installing /\ ~ Trying /\ ~ Trying'
  <2>1. Top' = f
    BY <1>6 DEF Top
  <2>2. QED BY <1>1, <1>5, <1>6, <2>1 DEF Installing, Registering, Trying, In
<1>9. Nested'
  BY <1>5, <1>6, <1>8 DEF Nested
\* The driver is new: nothing before this call is an install_driver of it.
<1>10. ~ Installed(driver)
  <2> SUFFICES ASSUME Installed(driver) PROVE FALSE
    OBVIOUS
  <2>1. PICK j \in 1 .. step - 1 : script[j] = script[step]
    BY <1>2 DEF Installed, Past
  <2>2. j \in DOMAIN script /\ j # step
    BY <1>1, <1>2, <1>3
  <2>3. script \in Scripts
    BY <1>0, TypeParts
  <2>4. QED BY <1>1, <2>1, <2>2, <2>3, DevicesAssumption
<1>11. /\ \A i \in DOMAIN available_drivers : available_drivers[i].driver # driver
       /\ \A s \in Subsystems : \A i \in DOMAIN instances[s] : instances[s][i].driver # driver
  BY <1>0, <1>10 DEF Scripted
<1>12. Scripted'
  <2>1. Past \subseteq Past'
    BY <1>1, <1>3 DEF Past
  <2>2. (\A i \in DOMAIN available_drivers : Installed(available_drivers[i].driver))'
    BY <1>0, <1>1, <2>1 DEF Scripted, Installed
  <2>3. (\A s \in Subsystems : \A i \in DOMAIN instances[s] : Installed(instances[s][i].driver))'
    BY <1>0, <1>1, <2>1 DEF Scripted, Installed
  <2>4. script'[step' - 1] = [call |-> "install_driver", driver |-> calls'[1].driver]
        /\ \A i \in DOMAIN available_drivers' : available_drivers'[i].driver # calls'[1].driver
    BY <1>1, <1>2, <1>3, <1>5, <1>6, <1>11
  <2>5. QED BY <1>3, <1>8, <2>2, <2>3, <2>4 DEF Scripted
<1>13. Identified'
  <2>1. \A i \in DOMAIN calls' : calls'[i].call = "register" =>
          heap'[calls'[i].device].id \notin Ids
    BY <1>5, <1>6
  <2>2. QED BY <1>0, <1>1, <1>4, <2>1, IdentifiedStays DEF h
<1>14. Paired'
  <2>1. h <= h /\ \A e \in h + 1 .. h : FALSE
    BY <1>4
  <2>2. QED BY <1>0, <1>1, <1>4, <1>8, <2>1, PairedStays DEF h
<1>15. SettledFiles' = SettledFiles /\ driver \notin SettledFiles
  <2>1. SettledFiles' = SettledFiles
    BY <1>1, <1>8 DEF SettledFiles, Sure, Screens
  <2>2. SettledFiles = {Screens[i].driver : i \in DOMAIN Screens}
    BY <1>0, <1>8, SettledWhenSure
  <2>3. QED BY <1>11, <2>1, <2>2 DEF Screens, Subsystems
<1>16. Kept'
  <2>1. calls'[1].driver \in Files =>
          /\ calls'[1].driver \in resident'
          /\ calls'[1].detected > 0 <=> calls'[1].driver \in SettledFiles
    BY <1>1, <1>5, <1>6, <1>15
  <2>2. \A y \in resident' : y \in SettledFiles \/ calls'[1].driver = y
    BY <1>0, <1>1, <1>5, <1>6, <1>8 DEF Kept
  <2>3. QED BY <1>0, <1>1, <1>8, <1>15, <2>1, <2>2 DEF Kept
<1>17. QED BY <1>7, <1>9, <1>12, <1>13, <1>14, <1>16 DEF IInv

(* Nothing happens to the devices, and the script goes on.                 *)
LEMMA IdleStepKeeps ==
  ASSUME IInv, RejectFile \/ mount
  PROVE  IInv'
<1> DEFINE h == Len(heap)
<1>0. TypeOK /\ Typed /\ Nested /\ Scripted /\ Identified /\ Paired /\ Kept
  BY DEF IInv, Typed
<1>1. /\ calls = <<>> /\ step \in DOMAIN script /\ step' = step + 1 /\ state = "up"
      /\ state' \in {"up", "stopped", "panicked"} /\ element' \in {element, "pointer"}
      /\ UNCHANGED <<heap, devices, current_id, available_drivers, instances,
                     active_disk_driver, resident, calls, script>>
  BY DEF RejectFile, mount, Calling, Idle, registry, driver_vars, Made
<1>2. Len(script) \in Nat /\ DOMAIN script = 1 .. Len(script)
  BY <1>0, <1>1, ScriptShape
<1>3. step \in Nat /\ step' \in 1 .. Len(script) + 1
  BY <1>1, <1>2
<1>4. h \in Nat /\ DOMAIN heap = 1 .. h
  BY <1>0, Elements
<1>5. Typed'
  BY <1>0, <1>1, <1>3, TypeParts, TypeNext DEF Typed, ElementKinds, States
<1>6. ~ Installing' /\ ~ Registering' /\ ~ Installing /\ ~ Trying /\ ~ Trying'
  BY <1>1 DEF Installing, Registering, Trying, In
<1>7. Nested'
  BY <1>0, <1>1 DEF Nested, Installing, Registering
<1>8. Scripted'
  <2>1. Past \subseteq Past'
    BY <1>1, <1>3 DEF Past
  <2>2. (\A i \in DOMAIN available_drivers : Installed(available_drivers[i].driver))'
    BY <1>0, <1>1, <2>1 DEF Scripted, Installed
  <2>3. (\A s \in Subsystems : \A i \in DOMAIN instances[s] : Installed(instances[s][i].driver))'
    BY <1>0, <1>1, <2>1 DEF Scripted, Installed
  <2>4. QED BY <1>1, <1>6, <2>2, <2>3 DEF Scripted
<1> HIDE DEF h
<1>9. Identified'
  <2>1. \A i \in DOMAIN calls' : calls'[i].call = "register" =>
          heap'[calls'[i].device].id \notin Ids
    BY <1>0, <1>1 DEF Identified
  <2>2. QED BY <1>0, <1>1, <1>4, <2>1, IdentifiedStays DEF h
<1>10. Paired'
  <2>1. h <= h /\ \A e \in h + 1 .. h : FALSE
    BY <1>4
  <2>2. QED BY <1>0, <1>1, <1>4, <1>6, <2>1, PairedStays DEF h
<1>11. Kept'
  BY <1>0, <1>1, <1>6, KeptStays
<1>12. QED BY <1>5, <1>7, <1>8, <1>9, <1>10, <1>11 DEF IInv

-----------------------------------------------------------------------------
(* The invariant of the specification.                                     *)

(* Nothing is there when the kernel starts.                                *)
LEMMA InitIInv == ASSUME Init PROVE IInv
<1>1. /\ heap = <<>> /\ devices = <<>> /\ available_drivers = <<>> /\ calls = <<>>
      /\ \A s \in Subsystems : instances[s] = <<>>
      /\ instances = [s \in Subsystems |-> <<>>]
      /\ active_disk_driver = 0 /\ current_id = 1 /\ resident = {}
      /\ script \in Scripts /\ step = 1 /\ state = "up" /\ element = "none"
  BY DEF Init, null
<1>2. /\ Len(<<>>) = 0 /\ DOMAIN <<>> = {} /\ \A S : <<>> \in Seq(S)
  BY EmptySeq
<1>3. 1 \in 1 .. Len(script) + 1
  <2>1. PICK C : script \in Seq(C)
    BY <1>1, DevicesAssumption
  <2>2. Len(script) \in Nat
    BY <2>1, LenProperties
  <2>3. QED BY <2>2
<1>4. Typed
  <2>1. instances \in [Subsystems -> Seq(InstanceSet(Len(heap)))]
    BY <1>1, <1>2
  <2>2. QED BY <1>1, <1>2, <1>3, <2>1, TypeParts DEF Typed, ElementKinds, States
<1>5. ~ Installing /\ ~ Registering /\ ~ Trying
  BY <1>1 DEF Installing, Registering, Trying, In
<1>6. Nested
  <2>1. Len(calls) = 0
    BY <1>1, <1>2
  <2>2. QED BY <1>5, <2>1 DEF Nested
<1>7. Scripted
  BY <1>1, <1>2, <1>5 DEF Scripted
<1>8. Identified
  BY <1>1, <1>2 DEF Identified, UniqueIds
<1>9. Paired
  BY <1>1, <1>2, <1>5 DEF Paired
<1>10. Kept
  <2>1. \A f \in resident : FALSE
    BY <1>1
  <2>2. \A s \in Subsystems : \A i \in DOMAIN instances[s] : FALSE
    BY <1>1, <1>2
  <2>3. \A i \in DOMAIN available_drivers : FALSE
    BY <1>1, <1>2
  <2>4. QED BY <1>5, <2>1, <2>2, <2>3 DEF Kept
<1>11. QED BY <1>4, <1>6, <1>7, <1>8, <1>9, <1>10 DEF IInv

(* Every step keeps it.                                                    *)
LEMMA NextIInv == ASSUME IInv, [Next]_vars PROVE IInv'
<1>1. CASE Next
  <2>1. CASE register_device   BY <2>1, RegisterDeviceKeeps
  <2>2. CASE install_driver    BY <2>2, InstallDriverKeeps
  <2>3. CASE RejectFile        BY <2>3, IdleStepKeeps
  <2>4. CASE mount             BY <2>4, IdleStepKeeps
  <2>5. CASE OfferDevice       BY <2>5, OfferDeviceKeeps
  <2>6. CASE EndRegister       BY <2>6, EndRegisterKeeps
  <2>7. CASE RegisterDisk      BY <2>7, RegisterDiskKeeps
  <2>8. CASE InitSucceeds      BY <2>8, InitSucceedsKeeps
  <2>9. CASE InitFails         BY <2>9, InitFailsKeeps
  <2>10. CASE VisitDevice      BY <2>10, VisitDeviceKeeps
  <2>11. CASE EndInstall       BY <2>11, EndInstallKeeps
  <2>12. CASE OfferTruncated   BY <2>12, OfferTruncatedKeeps
  <2>13. QED BY <1>1, <2>1, <2>2, <2>3, <2>4, <2>5, <2>6, <2>7, <2>8, <2>9, <2>10, <2>11,
               <2>12
         DEF Next
<1>2. CASE UNCHANGED vars
  <2>1. state' = state /\ UNCHANGED <<registry, driver_vars, calls, script, step>>
    BY <1>2 DEF vars
  <2>2. state \in States
    BY TypeParts DEF IInv, Typed
  <2>3. QED BY <2>1, <2>2, StillKeeps
<1>3. QED BY <1>1, <1>2

(* The inductive invariant of the device tree.                             *)
LEMMA DevicesInvariant == Spec => []IInv
<1>1. QED BY InitIInv, NextIInv, PTL DEF Spec

-----------------------------------------------------------------------------
(* What it says.                                                           *)

(* An owned device is driven by one instance, another by none.             *)
LEMMA OneDriver == IInv => OneDriverPerDevice
<1> SUFFICES ASSUME IInv, NEW d \in DOMAIN heap
             PROVE  Cardinality(InstancesOf(d)) = IF heap[d].owned THEN 1 ELSE 0
  BY DEF OneDriverPerDevice
<1>1. Paired
  BY DEF IInv
<1>2. \A u \in Slots : u[1] \in Subsystems /\ u[2] \in DOMAIN instances[u[1]]
                       /\ u = <<u[1], u[2]>>
  BY DEF Slots
<1>3. \A s \in Subsystems : \A i \in DOMAIN instances[s] : <<s, i>> \in Slots
  <2> SUFFICES ASSUME NEW s \in Subsystems, NEW i \in DOMAIN instances[s]
               PROVE  <<s, i>> \in Slots
    OBVIOUS
  <2>1. <<s, i>> \in {s} \X DOMAIN instances[s]
    OBVIOUS
  <2>2. QED BY <2>1 DEF Slots
<1>4. CASE heap[d].owned
  <2>0. PICK s \in Subsystems : \E i \in DOMAIN instances[s] : instances[s][i].device = d
    BY <1>1, <1>4 DEF Paired
  <2>1. PICK i \in DOMAIN instances[s] : instances[s][i].device = d
    BY <2>0
  <2>2. <<s, i>> \in InstancesOf(d)
    BY <1>3, <2>1 DEF InstancesOf
  <2>3. \A u \in InstancesOf(d) : u = <<s, i>>
    BY <1>1, <1>2, <2>1 DEF InstancesOf, Paired
  <2>4. InstancesOf(d) = {<<s, i>>}
    BY <2>2, <2>3
  <2>5. QED BY <1>4, <2>4, FS_Singleton
<1>5. CASE ~ heap[d].owned
  <2>1. InstancesOf(d) = {}
    BY <1>1, <1>2, <1>5 DEF InstancesOf, Paired
  <2>2. QED BY <1>5, <2>1, FS_EmptySet
<1>6. QED BY <1>4, <1>5

(* A file is resident while an instance or a loaded index points into it,  *)
(* and between two calls only then.                                        *)
LEMMA UsedIsResident == IInv => ResidentWhileUsed
<1> SUFFICES ASSUME IInv PROVE ResidentWhileUsed
  OBVIOUS
<1>0. Typed /\ Paired /\ Kept
  BY DEF IInv
<1>1. ASSUME NEW f \in Pointing \cap Files
      PROVE  f \in resident
  <2>1. CASE f \in Driving
    <3>1. PICK u \in Slots : f = instances[u[1]][u[2]].driver
      BY <2>1 DEF Driving
    <3>2. u[1] \in Subsystems /\ u[2] \in DOMAIN instances[u[1]]
      BY DEF Slots
    <3>3. QED BY <1>0, <1>1, <3>1, <3>2 DEF Kept
  <2>2. CASE f \in LoadedDrivers
    BY <1>0, <1>1, <2>2 DEF LoadedDrivers, Kept
  <2>3. QED BY <1>1, <2>1, <2>2 DEF Pointing
<1>2. ASSUME calls = <<>>, NEW f \in resident
      PROVE  f \in Driving
  <2>1. ~ Installing /\ ~ Trying
    BY <1>2 DEF Installing, Trying, In
  <2>2. f \in {Screens[i].driver : i \in DOMAIN Screens}
    BY <1>0, <1>2, <2>1, SettledWhenSure DEF Kept
  <2>3. PICK i \in DOMAIN Screens : f = Screens[i].driver
    BY <2>2
  <2>4. <<"ttype", i>> \in {"ttype"} \X DOMAIN instances["ttype"]
    BY DEF Screens
  <2>5. <<"ttype", i>> \in Slots
    BY <2>4 DEF Slots, Subsystems
  <2>6. f = instances[<<"ttype", i>>[1]][<<"ttype", i>>[2]].driver
    BY <2>3 DEF Screens
  <2>7. QED BY <2>5, <2>6 DEF Driving
<1>3. QED BY <1>1, <1>2 DEF ResidentWhileUsed

(* Every variable keeps its type, the frames of the call stack included:   *)
(* a device, a driver or an instance is one that is there, and             *)
(* postregister_driver never counts more devices than it has looked at.    *)
THEOREM DevicesTypeCorrect == Spec => []TypeOK
<1>1. IInv => TypeOK
  BY DEF IInv, Typed
<1>2. QED BY <1>1, DevicesInvariant, PTL

(* Ids are unique and a device is owned by the one instance that drives    *)
(* it, after every step of every call, however they nest.                  *)
THEOREM RegistryIsConsistent == Spec => []RegistryConsistent
<1>1. IInv => RegistryConsistent
  BY OneDriver DEF RegistryConsistent, IInv, Typed, Identified
<1>2. QED BY <1>1, DevicesInvariant, PTL

(* No instance, and no index of a loaded driver that the array holds       *)
(* whole, points into pages that were freed, and no file's pages stay that *)
(* no instance points into.                                                *)
THEOREM FilesResident == Spec => []ResidentWhileUsed
<1>1. QED BY UsedIsResident, DevicesInvariant, PTL
=============================================================================
