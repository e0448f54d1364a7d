---------------------------- MODULE ModuleLoading ----------------------------
(***************************************************************************)
(* Loading and unloading of the four kernel modules: init_adc_module and   *)
(* cleanup_adc_module (ADC/src/adc.c), gpio_init and gpio_exit (GPIO/src/  *)
(* file.c), pwm_init and pwm_exit (PWM/src/file.c), sysfs_init and         *)
(* sysfs_exit (PeekAndPoke/.../KernelModule-1.c). Every registration may   *)
(* fail. Between two of them processes open device files and interrupts    *)
(* come; what reads and writes do is in AdcDriver, GpioDriver and          *)
(* PwmDriver, which begin where a load ends.                               *)
(***************************************************************************)
EXTENDS KernelRegistry

CONSTANT InUse  \* bound: the sets of modules that are loaded on one system

ASSUME InUseAssumption == InUse # {} /\ InUse \subseteq SUBSET Modules

VARIABLES
  used,        \* the modules loaded on this system
  pc,          \* the next step of each module's init or exit function
  total,       \* total_allocated_devices
  semaphore,   \* channel_conversion's count, or -1 before sema_init
  converting,  \* a conversion runs, or its interrupt has not been handled
  crashed,     \* up() followed the pointers of a semaphore without init
  failed,      \* history: <<m, step>> if that step of m failed since boot
  stale        \* history: the driver's load began with converting

driver  == <<total, semaphore, converting, crashed, stale>>
vars == <<registry, used, pc, driver, failed>>

Loading == {"alloc", "class", "device", "cdev", "irq TS", "irq GPI_01", "sema",
            "kobject", "group"}
Unloading == {"destroy", "cdev_del", "class_destroy", "unregister",
              "free TS", "free GPI_01", "put"}

TypeOK ==
  /\ RegistryTypeOK
  /\ used \in InUse
  /\ pc \in [Modules -> {"absent", "loaded"} \cup Loading \cup Unloading]
  /\ total \in 0..NumDevices
  /\ semaphore \in -1..2
  /\ converting \in BOOLEAN /\ crashed \in BOOLEAN /\ stale \in BOOLEAN
  /\ failed \subseteq Modules \X Loading

(* After boot.                                                             *)
Init ==
  /\ RegistryInit
  /\ used \in InUse
  /\ pc = [m \in Modules |-> "absent"]
  /\ total = 0
  /\ semaphore = -1
  /\ converting = FALSE /\ crashed = FALSE /\ stale = FALSE
  /\ failed = {}

Goes(m, from, to) == pc[m] = from /\ pc' = [pc EXCEPT ![m] = to]

Fails(m, step, to) == Goes(m, step, to) /\ failed' = failed \cup {<<m, step>>}

Succeeds(m, step, to) == Goes(m, step, to) /\ UNCHANGED failed

-----------------------------------------------------------------------------
(* Steps several drivers have.                                             *)

(* The memory of the module is new; a class of an earlier load stays.      *)
Insmod(m) ==
  /\ m \in used
  /\ Goes(m, "absent", IF m = "hw" THEN "kobject" ELSE "alloc")
  /\ IF m = "gpio" THEN total' = 0 ELSE UNCHANGED total
  /\ IF m = "adc" THEN semaphore' = -1 /\ stale' = converting
                  ELSE UNCHANGED <<semaphore, stale>>
  /\ UNCHANGED <<registry, used, converting, crashed, failed>>

FirstExitStep ==
  [adc |-> "cdev_del", gpio |-> "destroy", pwm |-> "cdev_del", hw |-> "put"]

(* The kernel refuses to unload a module while a file of it is open.       *)
Rmmod(m) ==
  /\ m \in Drivers => files[m] = 0
  /\ Goes(m, "loaded", FirstExitStep[m])
  /\ UNCHANGED <<registry, used, driver, failed>>

(* Without device numbers the ADC and the PWM driver give up; the GPIO     *)
(* driver goes on and looks at the result later.                           *)
AllocRegion(m) ==
  /\ LET next == IF m = "gpio" THEN "class" ELSE "cdev"
         fail == IF m = "gpio" THEN "class" ELSE "absent"
     IN \/ Alloc(m) /\ Succeeds(m, "alloc", next)
        \/ UNCHANGED regions /\ Fails(m, "alloc", fail)
  /\ UNCHANGED <<cdevs, files, handlers, class, devices, kobject, used, driver>>

(* If it fails, the GPIO and the PWM driver run their exit function; the   *)
(* ADC driver returns at once.                                             *)
CdevAdd(m) ==
  /\ LET next == IF m = "adc" THEN "irq TS" ELSE "loaded"
         fail == IF m = "adc" THEN "absent" ELSE FirstExitStep[m]
     IN \/ cdevs' = cdevs \cup {m} /\ Succeeds(m, "cdev", next)
        \/ UNCHANGED cdevs /\ Fails(m, "cdev", fail)
  /\ UNCHANGED <<regions, files, handlers, class, devices, kobject, used, driver>>

CdevDel(m) ==
  /\ cdevs' = cdevs \ {m}
  /\ Succeeds(m, "cdev_del", IF m = "gpio" THEN "class_destroy" ELSE "unregister")
  /\ UNCHANGED <<regions, files, handlers, class, devices, kobject, used, driver>>

(* Mutant: cleanup_adc_module does not call adc_exit.                      *)
UnregisterLast(m) ==
  /\ Unregister(m)
  /\ Succeeds(m, "unregister", "absent")
  /\ UNCHANGED <<cdevs, files, handlers, class, devices, kobject, used, driver>>

UnregisterRegion(m) ==
  /\ Unregister(m)
  /\ Succeeds(m, "unregister", IF m = "adc" THEN "free TS" ELSE "absent")
  /\ UNCHANGED <<cdevs, files, handlers, class, devices, kobject, used, driver>>

OpenOrClose(m) ==
  /\ \/ pc[m] \notin Unloading /\ OpenFile(m)
     \/ CloseFile(m)
  /\ UNCHANGED <<regions, cdevs, handlers, class, devices, kobject, used, pc,
                 driver, failed>>

-----------------------------------------------------------------------------
(* The ADC driver: adc_init and adc_exit. That an interrupt could not be   *)
(* requested is only logged.                                               *)
RequestIrq(irq, from, to) ==
  /\ \/ handlers' = handlers \cup {irq} /\ Succeeds("adc", from, to)
     \/ UNCHANGED handlers /\ Fails("adc", from, to)
  /\ UNCHANGED <<regions, cdevs, files, class, devices, kobject, used, driver>>

SemaInit ==
  /\ Succeeds("adc", "sema", "loaded")
  /\ semaphore' = 1
  /\ UNCHANGED <<registry, used, total, converting, crashed, stale>>

(* With dev_id NULL, as it was requested.                                  *)
FreeIrq(irq, from, to) ==
  /\ handlers' = handlers \ {irq}
  /\ Succeeds("adc", from, to)
  /\ UNCHANGED <<regions, cdevs, files, class, devices, kobject, used, driver>>

AdcStep ==
  \/ RequestIrq("TS", "irq TS", "irq GPI_01") \/ RequestIrq("GPI_01", "irq GPI_01", "sema")
  \/ SemaInit
  \/ FreeIrq("TS", "free TS", "free GPI_01") \/ FreeIrq("GPI_01", "free GPI_01", "absent")

(* Mutant: the semaphore is not asked, as in adc-testing.c.                *)
TryAlways == semaphore' = semaphore

(* down_trylock: a semaphore without init looks like one that is taken.    *)
TryDown == semaphore > 0 /\ semaphore' = semaphore - 1

(* The button, if it starts a conversion.                                  *)
GpInterrupt ==
  /\ "GPI_01" \in handlers
  /\ TryDown
  /\ converting' = TRUE
  /\ UNCHANGED <<registry, used, pc, total, crashed, stale, failed>>

(* Mutant: ADC_VALUE is not read, and the interrupt comes again.           *)
ValueNotRead == UNCHANGED converting

ValueRead == converting' = FALSE

(* The end of a conversion nobody waits for: up(&channel_conversion).      *)
AdcInterrupt ==
  /\ "TS" \in handlers /\ converting
  /\ ValueRead
  /\ IF semaphore = -1
     THEN crashed' = TRUE /\ UNCHANGED semaphore
     ELSE semaphore' = semaphore + 1 /\ UNCHANGED crashed
  /\ UNCHANGED <<registry, used, pc, total, stale, failed>>

(* Without a handler the interrupt stays pending, or is lost.              *)
ConversionLost ==
  /\ converting /\ "TS" \notin handlers
  /\ converting' = FALSE
  /\ UNCHANGED <<registry, used, pc, total, semaphore, crashed, stale, failed>>

-----------------------------------------------------------------------------
(* The GPIO driver. A class of the same name cannot be created twice.      *)
ClassCreate ==
  /\ \/ /\ class = "none" /\ class' = "loaded"
        /\ Succeeds("gpio", "class", "device")
     \/ UNCHANGED class /\ Fails("gpio", "class", "destroy")
  /\ UNCHANGED <<regions, cdevs, files, handlers, devices, kobject, used, driver>>

(* One device; a device that failed is counted, too.                       *)
DeviceCreate ==
  /\ total < NumDevices
  /\ total' = total + 1
  /\ \/ devices' = devices \cup {total} /\ Succeeds("gpio", "device", "device")
     \/ UNCHANGED devices /\ Fails("gpio", "device", "destroy")
  /\ UNCHANGED <<regions, cdevs, files, handlers, class, kobject, used,
                 semaphore, converting, crashed, stale>>

(* Mutant: the result of alloc_chrdev_region is not looked at.             *)
StatusIgnored ==
  /\ Succeeds("gpio", "device", "cdev")
  /\ UNCHANGED class

(* After all devices the result of alloc_chrdev_region counts: without     *)
(* device numbers the module goes, and leaves class and devices behind.    *)
Status ==
  IF regions["gpio"] > 0
  THEN Succeeds("gpio", "device", "cdev") /\ UNCHANGED class
  ELSE Succeeds("gpio", "device", "absent") /\ class' = "left"

DevicesCreated ==
  /\ total = NumDevices
  /\ Status
  /\ UNCHANGED <<regions, cdevs, files, handlers, devices, kobject, used, driver>>

(* gpio_exit: device_destroy for each device that was counted.             *)
DevicesDestroy ==
  /\ devices' = devices \ 0..(total - 1)
  /\ Succeeds("gpio", "destroy", "cdev_del")
  /\ UNCHANGED <<regions, cdevs, files, handlers, class, kobject, used, driver>>

(* class_destroy ignores the error that class_create returned.             *)
ClassDestroy ==
  /\ class' = IF class = "loaded" THEN "none" ELSE class
  /\ Succeeds("gpio", "class_destroy", "unregister")
  /\ UNCHANGED <<regions, cdevs, files, handlers, devices, kobject, used, driver>>

GpioStep ==
  ClassCreate \/ DeviceCreate \/ DevicesCreated \/ DevicesDestroy \/ ClassDestroy

-----------------------------------------------------------------------------
(* The peek and poke module: a directory in sysfs and a file in it.        *)
KobjectCreate ==
  /\ \/ kobject' = {"dir"} /\ Succeeds("hw", "kobject", "group")
     \/ UNCHANGED kobject /\ Fails("hw", "kobject", "absent")
  /\ UNCHANGED <<regions, cdevs, files, handlers, class, devices, used, driver>>

(* Mutant: the directory stays when its file cannot be created.            *)
GroupLeft == Fails("hw", "group", "absent")

GroupFails == Fails("hw", "group", "put")

CreateGroup ==
  /\ \/ kobject' = kobject \cup {"file"} /\ Succeeds("hw", "group", "loaded")
     \/ UNCHANGED kobject /\ GroupFails
  /\ UNCHANGED <<regions, cdevs, files, handlers, class, devices, used, driver>>

KobjectPut ==
  /\ kobject' = {}
  /\ Succeeds("hw", "put", "absent")
  /\ UNCHANGED <<regions, cdevs, files, handlers, class, devices, used, driver>>

HwStep == KobjectCreate \/ CreateGroup \/ KobjectPut

-----------------------------------------------------------------------------
DriverStep(m) ==
  AllocRegion(m) \/ CdevAdd(m) \/ CdevDel(m) \/ UnregisterRegion(m) \/ OpenOrClose(m)

Running ==
  \/ \E m \in Modules : Insmod(m) \/ Rmmod(m)
  \/ \E m \in Drivers : DriverStep(m)
  \/ AdcStep \/ GpInterrupt \/ AdcInterrupt \/ ConversionLost
  \/ GpioStep \/ HwStep

(* A crash in an interrupt stops the kernel for good.                      *)
Halted == crashed /\ UNCHANGED vars

Next ==
  \/ ~crashed /\ Running
  \/ Halted

Spec == Init /\ [][Next]_vars

-----------------------------------------------------------------------------
(* Nothing the kernel may call is left of a module that is not there: no   *)
(* character device, open file or interrupt handler, whatever failed or    *)
(* came between when it was loaded and unloaded (adc.c:254-294, GPIO/src/  *)
(* file.c:194-280, PWM/src/file.c:152-189).                                *)
NoDanglingCode ==
  \A m \in Drivers : pc[m] = "absent" =>
    /\ m \notin cdevs /\ files[m] = 0
    /\ m = "adc" => handlers = {}

(* Nothing else is left either, but after two failures: the ADC driver     *)
(* keeps its device numbers if cdev_add failed (adc.c:272-276), the GPIO   *)
(* driver its class and devices if alloc_chrdev_region failed, which it    *)
(* notices too late (file.c:218, 261-265).                                 *)
AbsentHoldsNothing ==
  /\ pc["adc"] = "absent" /\ regions["adc"] > 0 => <<"adc", "cdev">> \in failed
  /\ pc["gpio"] = "absent" =>
       /\ regions["gpio"] = 0
       /\ class # "none" \/ devices # {} => <<"gpio", "alloc">> \in failed
  /\ pc["pwm"] = "absent" => regions["pwm"] = 0
  /\ pc["hw"] = "absent" => kobject = {}

(* A module whose init function succeeded has all it registers, but for    *)
(* the ADC driver's interrupts; a class that an earlier load left behind   *)
(* keeps the GPIO driver from loading (file.c:221-226, 261-277).           *)
LoadedIsComplete ==
  /\ \A m \in Drivers : pc[m] = "loaded" => m \in cdevs /\ regions[m] > 0
  /\ pc["gpio"] = "loaded" => class = "loaded" /\ devices = 0..(NumDevices - 1)
  /\ pc["adc"] = "loaded" => semaphore >= 0
  /\ pc["hw"] = "loaded" => kobject = {"dir", "file"}

(* The device files and the button are live before sema_init runs          *)
(* (adc.c:271, 113, 283). An end of conversion finds the semaphore without *)
(* init only if the conversion is from before the load: a press comes to   *)
(* nothing until then.                                                     *)
CrashOnlyIfStale == crashed => stale

(* And then the semaphore is free exactly when no conversion runs, so that *)
(* no press before sema_init has used it up or doubled it.                 *)
SemaphoreCounts ==
  pc["adc"] = "loaded" /\ "TS" \in handlers /\ ~stale
    => semaphore = IF converting THEN 0 ELSE 1
=============================================================================
