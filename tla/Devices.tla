------------------------------ MODULE Devices ------------------------------
(***************************************************************************)
(* The device tree, the drivers and who drives what: register_device,      *)
(* install_driver, the three subsystems that create driver instances, and  *)
(* the part of attempt_install_driver that decides whether the pages of a  *)
(* driver file stay.                                                       *)
(*                                                                         *)
(* The calls nest: register_device offers the device to the loaded         *)
(* drivers, whose init may register devices in turn.  The call stack is a  *)
(* variable, and a step is what happens between two calls.                 *)
(***************************************************************************)
EXTENDS Integers, Sequences, FiniteSets

CONSTANTS
  Scripts,   \* what the kernel calls, in order: main's calls, or others' (bound)
  Files,     \* driver files, for text screens
  Garbage,   \* values an uninitialised id may have
  MaxDisks   \* drives a controller may find (4)

Controller == "pci_ide_controller"
Disk == "pci_ide_disk"
Drivers == {Controller, Disk} \cup Files

Kinds == [controller |-> [type |-> "controller", conn |-> "pci"],
          disk       |-> [type |-> "disk", conn |-> "other"],
          display    |-> [type |-> "ttype", conn |-> "io"]]
KindOf(driver) == CASE driver = Controller -> Kinds.controller
                    [] driver = Disk -> Kinds.disk
                    [] OTHER -> Kinds.display

ASSUME DevicesAssumption ==
  /\ Files \cap {Controller, Disk} = {}
  /\ Garbage \subseteq Nat /\ Garbage # {}
  /\ MaxDisks \in Nat
  /\ Scripts \subseteq Seq([call : {"register_device"}, kind : {"controller", "display"}]
                           \cup [call : {"install_driver"}, driver : Drivers]
                           \cup [call : {"mount"}])
  \* No file is installed twice.
  /\ \A s \in Scripts : \A i, j \in DOMAIN s :
       s[i].call = "install_driver" /\ s[i] = s[j] => i = j
  \* The controllers are discovered before their driver is installed: a device
  \* has its id, but joins the list only after its driver's init.
  /\ \A s \in Scripts : \A i, j \in DOMAIN s :
       /\ s[i].call = "install_driver" /\ s[i].driver = Controller
       /\ s[j].call = "register_device" /\ s[j].kind = "controller"
       => j < i

VARIABLES
  heap,        \* every Device on the kernel's heap, in the order of its kmalloc
  devices,     \* the devices of the system: indices of heap
  available_drivers,   \* the driver indexes: which driver, and is it loaded
  element,     \* what the array of indexes was made for: "none" yet, an "index"
               \* or a "pointer", of which 4 bytes are kept
  instances,   \* per subsystem, the driver instances: which driver, which device
  active_disk_driver,  \* the device of the disk driver that serves reads
  current_id,  \* the next id of get_unique_device_id
  resident,    \* the driver files whose pages are mapped
  calls,       \* the call stack, innermost call last
  script,      \* the calls the kernel makes, in order, ...
  step,        \* ... and which is next
  state        \* "up", "stopped", "panicked", or "wild": it called through a word
               \* that is no driver's address

registry == <<heap, devices, current_id>>
driver_vars == <<available_drivers, element, instances, active_disk_driver, resident>>
vars == <<registry, driver_vars, calls, script, step, state>>

null == 0
Subsystems == {"ttype", "controller", "disk"}

Init == /\ heap = <<>> /\ devices = <<>>
        /\ available_drivers = <<>> /\ element = "none"
        /\ instances = [s \in Subsystems |-> <<>>]
        /\ active_disk_driver = null
        /\ current_id = 1 /\ resident = {}
        /\ calls = <<>> /\ script \in Scripts /\ step = 1 /\ state = "up"

Top == calls[Len(calls)]
Callers == SubSeq(calls, 1, Len(calls) - 1)
In(call) == calls # <<>> /\ Top.call = call
Continue(frame) == calls' = Append(Callers, frame)

-----------------------------------------------------------------------------
Ids == {heap[d].id : d \in {devices[i] : i \in DOMAIN devices}}

(* The id a device asks for, or the first of get_unique_device_id that no  *)
(* registered device has.                                                  *)
FreshId == CHOOSE n \in current_id .. current_id + Len(devices) :
             n \notin Ids /\ \A m \in current_id .. n - 1 : m \in Ids
UniqueId(asked) == IF asked \in Ids THEN FreshId ELSE asked

(* Id 0 is no id: the device that has it is never found.                   *)
get_device_by_id(id) ==
  IF id # 0 /\ id \in Ids
  THEN devices[CHOOSE i \in DOMAIN devices :
                 heap[devices[i]].id = id /\ \A j \in 1 .. i - 1 : heap[devices[j]].id # id]
  ELSE null

(* register_device up to the search for a driver: the device is copied,    *)
(* given an id and linked after its parent's last child.                   *)
BeginRegister(kind, id, parent_id, callers) ==
  LET parent == get_device_by_id(parent_id)
      new == Len(heap) + 1
      linked == IF parent = null THEN heap
                ELSE [heap EXCEPT ![parent].children = Append(@, new)]
  IN /\ heap' = Append(linked, [kind |-> kind, id |-> UniqueId(id), parent |-> parent,
                                children |-> <<>>, owned |-> FALSE])
     /\ current_id' = IF id \in Ids THEN FreshId + 1 ELSE current_id
     /\ calls' = Append(callers, [call |-> "register", device |-> new, next |-> 1])
     /\ UNCHANGED devices

Matches(driver, d) == KindOf(driver) = Kinds[heap[d].kind]

(* disk_check: a disk of a PCI controller.  The other drivers check the    *)
(* connection (and the platform id that the kernel chose them by).         *)
Checks(driver, d) ==
  driver = Disk => heap[d].parent # null /\ heap[heap[d].parent].kind = "controller"

(* register_teletype_driver, register_astatine_generic_driver and          *)
(* register_disk_driver up to init: the instance is there, the device is   *)
(* owned.  (register_teletype_driver tests again what its callers tested.) *)
BeginInit(driver, d, callers) ==
  /\ heap' = [heap EXCEPT ![d].owned = TRUE]
  /\ instances' = [instances EXCEPT ![KindOf(driver).type] =
                     Append(@, [driver |-> driver, device |-> d])]
  /\ calls' = Append(callers, [call |-> "init", driver |-> driver, device |-> d, found |-> 0])
  /\ UNCHANGED <<devices, current_id, available_drivers, element, active_disk_driver, resident>>

-----------------------------------------------------------------------------
(* The array of indexes is made by the first install_driver; but before    *)
(* it by attempt_install_driver, which makes it for pointers.              *)
Made(for) == IF element = "none" THEN for ELSE element

(* A driver is offered the device being registered: it must be compatible, *)
(* loaded, and accept.                                                     *)
Offers(i, d) == LET index == available_drivers[i]
                IN Matches(index.driver, d) /\ index.loaded /\ ~heap[d].owned
                     /\ Checks(index.driver, d)

Offering == In("register") /\ Top.next \in DOMAIN available_drivers
OfferDevice == /\ Offering /\ element = "index"
               /\ IF Offers(Top.next, Top.device)
                  THEN BeginInit(available_drivers[Top.next].driver, Top.device,
                                 Append(Callers, [Top EXCEPT !.next = @ + 1]))
                  ELSE /\ Continue([Top EXCEPT !.next = @ + 1])
                       /\ UNCHANGED <<registry, driver_vars>>
               /\ UNCHANGED <<script, step, state>>

(* Of a truncated index only `loaded` is its own: the types and the        *)
(* address are words of the next elements, or of memory behind the array.  *)
(* The driver is passed over, or whatever is at that address is called.    *)
Skip == calls' = Append(Callers, [Top EXCEPT !.next = @ + 1]) /\ UNCHANGED state
CallGarbage == /\ available_drivers[Top.next].loaded /\ ~heap[Top.device].owned
               /\ state' = "wild" /\ UNCHANGED calls
OfferTruncated == /\ Offering /\ element = "pointer" /\ state = "up"
                  /\ Skip \/ CallGarbage
                  /\ UNCHANGED <<registry, driver_vars, script, step>>

(* No driver is left or one has taken the device, which joins the list.    *)
EndRegister == /\ In("register")
               /\ Top.next \notin DOMAIN available_drivers
               /\ devices' = Append(devices, Top.device)
               /\ calls' = Callers
               /\ UNCHANGED <<heap, current_id, driver_vars, script, step, state>>

(* controller_init, ide_initialize: each drive that answers is a disk of   *)
(* the controller.  Its id is zero: the structure was cleared.             *)
MoreDrives(found) == found < MaxDisks
RegisterDisk == /\ In("init") /\ Top.driver = Controller
                /\ MoreDrives(Top.found)
                /\ BeginRegister("disk", 0, heap[Top.device].id,
                                 Append(Callers, [Top EXCEPT !.found = @ + 1]))
                /\ UNCHANGED <<driver_vars, script, step, state>>

(* init is done: the built-in drivers never fail.  The caller counts the   *)
(* device, or stops offering it.                                           *)
AfterInitRetry(frame, ok) ==   \* mutant: a device whose init failed is offered again
  IF ok THEN [frame EXCEPT !.next = Len(available_drivers) + 1]
  ELSE [frame EXCEPT !.next = @ - 1]
AfterInit(frame, ok) ==
  IF frame.call = "register"
  THEN IF ok THEN [frame EXCEPT !.next = Len(available_drivers) + 1] ELSE frame
  ELSE [frame EXCEPT !.detected = @ + (IF ok THEN 1 ELSE 0)]
Caller == calls[Len(calls) - 1]
ReturnFromInit(ok) == calls' = Append(SubSeq(calls, 1, Len(calls) - 2), AfterInit(Caller, ok))

InitSucceeds == /\ In("init")
                /\ ReturnFromInit(TRUE)
                /\ active_disk_driver' = IF Top.driver = Disk THEN Top.device
                                         ELSE active_disk_driver
                /\ UNCHANGED <<registry, available_drivers, element, instances, resident, script, step, state>>

(* A failed init takes the instance back and gives the device up.          *)
KeepInstance(s) == s   \* mutant: the instance is left in the subsystem's array
DropInstance(s) == SubSeq(s, 1, Len(s) - 1)
InitFails == /\ In("init") /\ Top.driver \in Files
             /\ heap' = [heap EXCEPT ![Top.device].owned = FALSE]
             /\ instances' = [instances EXCEPT ![KindOf(Top.driver).type] = DropInstance(@)]
             /\ ReturnFromInit(FALSE)
             /\ UNCHANGED <<devices, current_id, available_drivers, element, active_disk_driver,
                            resident, script, step, state>>

-----------------------------------------------------------------------------
(* postregister_driver looks at every device, the ones registered while it *)
(* looks included.                                                         *)
Takes(driver, d) == Matches(driver, d) /\ ~heap[d].owned /\ Checks(driver, d)

VisitDevice == /\ In("postregister")
               /\ Top.next \in DOMAIN devices
               /\ LET frame == [Top EXCEPT !.next = @ + 1]
                  IN IF Takes(Top.driver, devices[Top.next])
                     THEN BeginInit(Top.driver, devices[Top.next], Append(Callers, frame))
                     ELSE Continue(frame) /\ UNCHANGED <<registry, driver_vars>>
               /\ UNCHANGED <<script, step, state>>

(* install_driver records the driver; the pages of a file that drives      *)
(* nothing are freed.                                                      *)
FreesUsed(driver, detected) == detected > 1   \* mutant: one device is not enough
StaysResident(driver, detected) == detected # 0
EndInstall ==
  /\ In("postregister")
  /\ Top.next \notin DOMAIN devices
  /\ available_drivers' = Append(available_drivers, [driver |-> Top.driver,
                                                     loaded |-> Top.detected # 0])
  /\ element' = Made("index")
  /\ resident' = IF StaysResident(Top.driver, Top.detected) THEN resident
                 ELSE resident \ {Top.driver}
  /\ calls' = Callers
  /\ UNCHANGED <<registry, instances, active_disk_driver, script, step, state>>

-----------------------------------------------------------------------------
(* What main calls, one call at a time.                                    *)
Idle == calls = <<>> /\ state = "up" /\ step \in DOMAIN script
Calling(call) == Idle /\ script[step].call = call /\ step' = step + 1 /\ UNCHANGED script

(* discover_isa_devices and discover_pci_devices leave the id of the       *)
(* structure they register as it was on the stack.                         *)
register_device == /\ Calling("register_device")
                   /\ \E id \in Garbage : BeginRegister(script[step].kind, id, 0, calls)
                   /\ UNCHANGED <<driver_vars, state>>

(* install_driver of a driver of the kernel's, or attempt_install_driver   *)
(* of a file, whose segments are mapped first.                             *)
install_driver ==
  /\ Calling("install_driver")
  /\ LET driver == script[step].driver
     IN /\ calls' = <<[call |-> "postregister", driver |-> driver, next |-> 1, detected |-> 0]>>
        /\ resident' = resident \cup ({driver} \cap Files)
        /\ element' = IF driver \in Files THEN Made("pointer") ELSE element
  /\ UNCHANGED <<registry, available_drivers, instances, active_disk_driver, state>>

(* attempt_install_driver frees what it mapped of a file it cannot load.   *)
(* (One whose header cannot be read is DriverLoader's.)                    *)
RejectFile == /\ Calling("install_driver") /\ script[step].driver \in Files
              /\ element' = Made("pointer")
              /\ UNCHANGED <<registry, available_drivers, instances, active_disk_driver,
                             resident, calls, state>>

(* mount reads through the active disk driver, and read_stub panics when   *)
(* there is none.  Without the partition, main returns.                    *)
mount == /\ Calling("mount")
         /\ IF active_disk_driver = null THEN state' = "panicked" ELSE state' \in {"up", "stopped"}
         /\ UNCHANGED <<registry, driver_vars, calls>>

Next == \/ register_device \/ install_driver \/ RejectFile \/ mount
        \/ OfferDevice \/ OfferTruncated \/ EndRegister \/ RegisterDisk \/ InitSucceeds \/ InitFails
        \/ VisitDevice \/ EndInstall

Spec == Init /\ [][Next]_vars

(* One thread runs the boot, and no call waits for another: it goes on.    *)
(* (That a drive answers when ide_initialize polls it is taken for granted.) *)
FairSpec == Spec /\ WF_vars(Next)

-----------------------------------------------------------------------------
TypeOK ==
  /\ heap \in Seq([kind : DOMAIN Kinds, id : Nat, parent : 0 .. Len(heap),
                   children : Seq(1 .. Len(heap)), owned : BOOLEAN])
  /\ devices \in Seq(1 .. Len(heap)) /\ current_id \in Nat \ {0}
  /\ available_drivers \in Seq([driver : Drivers, loaded : BOOLEAN])
  /\ instances \in [Subsystems -> Seq([driver : Drivers, device : 1 .. Len(heap)])]
  /\ active_disk_driver \in 0 .. Len(heap)
  /\ resident \subseteq Files
  /\ script \in Scripts /\ step \in 1 .. Len(script) + 1
  /\ element \in {"none", "index", "pointer"}
  /\ state \in {"up", "stopped", "panicked", "wild"}
  /\ \A i \in DOMAIN calls :
       \/ calls[i] \in [call : {"register"}, device : 1 .. Len(heap),
                        next : 1 .. Len(available_drivers) + 1]
       \/ calls[i] \in [call : {"init"}, driver : Drivers, device : 1 .. Len(heap),
                        found : 0 .. MaxDisks]
       \/ calls[i] \in [call : {"postregister"}, driver : Drivers,
                        next : 1 .. Len(devices) + 1, detected : 0 .. Len(devices)]

(* Whatever ids the stack held, no two devices of the system share one, so *)
(* a parent looked up by id is the right one.                              *)
UniqueIds == \A i, j \in DOMAIN devices :
               heap[devices[i]].id = heap[devices[j]].id => i = j

(* A device has a driver instance exactly while it is owned, and never two *)
(* of them: through nested registrations, drivers that fail their init and *)
(* drivers that could all take it.                                         *)
Slots == UNION {{s} \X DOMAIN instances[s] : s \in Subsystems}
InstancesOf(d) == {u \in Slots : instances[u[1]][u[2]].device = d}
OneDriverPerDevice ==
  \A d \in DOMAIN heap : Cardinality(InstancesOf(d)) = IF heap[d].owned THEN 1 ELSE 0

(* The registry's two sides agree after every step of every call: ids are  *)
(* unique and a device is owned by the one instance that drives it.        *)
RegistryConsistent == TypeOK /\ UniqueIds /\ OneDriverPerDevice

(* The pages of a driver file stay mapped while an instance points into    *)
(* them, or the index of a loaded driver does that register_device can     *)
(* read, and when the kernel goes on, no longer than an instance does.     *)
(* (Of a truncated index nothing is said but that of OfferTruncated.)      *)
Driving == {instances[u[1]][u[2]].driver : u \in Slots}
LoadedDrivers == {available_drivers[i].driver :
                    i \in {j \in DOMAIN available_drivers : available_drivers[j].loaded}}
Pointing == Driving \cup (IF element = "index" THEN LoadedDrivers ELSE {})
ResidentWhileUsed == /\ Pointing \cap Files \subseteq resident
                     /\ calls = <<>> => resident \subseteq Driving

(* Every call of the boot ends, however the devices, the drivers and their *)
(* failures nest, unless it leaves the kernel through a truncated index.   *)
CallsEnd == <>[](state = "wild" \/ (calls = <<>> /\ ~ENABLED Next))
=============================================================================
