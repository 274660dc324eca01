----------------------------- MODULE MCDevices -----------------------------
(* The calls that main makes, and other orders of the same calls: a driver *)
(* file before and after its device, two displays, two files, a file with  *)
(* nothing to drive, a file installed before any driver of the kernel's.   *)
EXTENDS Devices
CONSTANTS vgabiostext, vgabmtext

Register(kind) == [call |-> "register_device", kind |-> kind]
Install(driver) == [call |-> "install_driver", driver |-> driver]
Mount == [call |-> "mount"]

MCMain == <<Register("display"), Register("controller"), Install(Controller), Install(Disk),
            Mount, Install(vgabiostext)>>
MCScripts == {MCMain,
              <<Install(Disk), Register("display"), Install(vgabiostext),
                Register("display"), Install(vgabmtext), Register("display")>>,
              <<Register("controller"), Register("controller"), Install(Controller),
                Register("display"), Install(Disk), Mount>>,
              <<Install(Controller), Register("display"), Register("display"),
                Install(vgabiostext), Install(vgabmtext), Register("display")>>,
              <<Register("controller"), Install(vgabmtext), Register("display"),
                Install(vgabiostext), Register("display"), Install(Controller)>>}
MCGarbage == 0 .. 2
=============================================================================
