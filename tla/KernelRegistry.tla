--------------------------- MODULE KernelRegistry ----------------------------
(***************************************************************************)
(* What the kernel keeps about the four kernel modules: device numbers,    *)
(* character devices, open files, interrupt handlers, a class with its     *)
(* devices, a directory in sysfs. It gives them out, or refuses, on        *)
(* request; it takes nothing back by itself when a module is unloaded.     *)
(***************************************************************************)
EXTENDS Integers, FiniteSets

CONSTANTS
  NumMajors,   \* bound: device number regions there are for these modules
  NumDevices,  \* devices of the GPIO class
  MaxFiles     \* bound: open files per module

ASSUME RegistryAssumption ==
  NumMajors \in Nat /\ NumDevices \in Nat \ {0} /\ MaxFiles \in Nat

Modules == {"adc", "gpio", "pwm", "hw"}
Drivers == {"adc", "gpio", "pwm"}         \* the ones with device files
Irqs    == {"TS", "GPI_01"}               \* end of conversion, button EINT0

VARIABLES
  regions,   \* the device number regions registered for each driver
  cdevs,     \* the drivers with a live character device
  files,     \* the open files of each driver
  handlers,  \* the interrupts the ADC driver handles
  class,     \* the GPIO class: of the "loaded" module, "left" behind, or "none"
  devices,   \* the devices of that class
  kobject    \* the peek and poke module's directory, and the file in it

registry == <<regions, cdevs, files, handlers, class, devices, kobject>>

RegistryTypeOK ==
  /\ regions \in [Drivers -> 0..NumMajors]
  /\ cdevs \subseteq Drivers
  /\ files \in [Drivers -> 0..MaxFiles]
  /\ handlers \subseteq Irqs
  /\ class \in {"loaded", "left", "none"}
  /\ devices \subseteq 0..(NumDevices - 1)
  /\ kobject \subseteq {"dir", "file"}

RegistryInit ==
  /\ regions = [m \in Drivers |-> 0]
  /\ cdevs = {}
  /\ files = [m \in Drivers |-> 0]
  /\ handlers = {}
  /\ class = "none" /\ devices = {}
  /\ kobject = {}

-----------------------------------------------------------------------------
(* alloc_chrdev_region succeeds: a major number was free.                  *)
Alloc(m) ==
  /\ regions["adc"] + regions["gpio"] + regions["pwm"] < NumMajors
  /\ regions' = [regions EXCEPT ![m] = @ + 1]

(* Of a region that was never registered nothing is unregistered.          *)
Unregister(m) ==
  regions' = [regions EXCEPT ![m] = IF @ > 0 THEN @ - 1 ELSE 0]

(* chrdev_open takes a reference to the driver's module for each open      *)
(* file, unless the module is being unloaded; it does not ask whether the  *)
(* module's init function has returned.                                    *)
OpenFile(m) ==
  /\ m \in cdevs
  /\ files[m] < MaxFiles
  /\ files' = [files EXCEPT ![m] = @ + 1]

CloseFile(m) ==
  /\ files[m] > 0
  /\ files' = [files EXCEPT ![m] = @ - 1]
=============================================================================
