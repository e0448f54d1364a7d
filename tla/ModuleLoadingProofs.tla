------------------------- MODULE ModuleLoadingProofs -------------------------
(***************************************************************************)
(* Proofs that loading and unloading keep their promises, for any number   *)
(* of device number regions, devices, open files and whatever modules are  *)
(* used together. The inductive invariant says for each module which       *)
(* registrations it holds at which step of its init and exit function.     *)
(***************************************************************************)
EXTENDS ModuleLoading, TLAPS

(* A file is open only while its driver has a character device and is not  *)
(* being unloaded.                                                         *)
FilesInv ==
  \A m \in Drivers : files[m] > 0 => m \in cdevs /\ pc[m] \notin Unloading

AdcHolding == {"cdev", "irq TS", "irq GPI_01", "sema", "loaded", "cdev_del",
               "unregister"}
AdcInit == {"alloc", "cdev", "irq TS", "irq GPI_01", "sema"}
AdcExit == {"cdev_del", "unregister", "free TS", "free GPI_01"}

AdcRegistered ==
  /\ pc["adc"] \in {"absent", "loaded"} \cup AdcInit \cup AdcExit
  /\ "adc" \in cdevs => pc["adc"] \in {"irq TS", "irq GPI_01", "sema", "loaded", "cdev_del"}
  /\ pc["adc"] = "loaded" => "adc" \in cdevs
  /\ pc["adc"] \in {"irq TS", "irq GPI_01", "sema"} => "adc" \in cdevs
  /\ pc["adc"] \in AdcHolding => regions["adc"] > 0
  /\ <<"adc", "cdev">> \notin failed =>
       regions["adc"] = IF pc["adc"] \in AdcHolding THEN 1 ELSE 0
  /\ pc["adc"] \in {"absent", "alloc", "cdev", "irq TS"} => handlers = {}
  /\ pc["adc"] = "irq GPI_01" => handlers \subseteq {"TS"}
  /\ pc["adc"] = "free GPI_01" => handlers \subseteq {"GPI_01"}

SemaphoreRange ==
  /\ pc["adc"] \in AdcInit => semaphore = -1
  /\ pc["adc"] \in AdcExit \cup {"loaded"} => semaphore >= 0
  /\ semaphore >= -1 /\ semaphore <= 2
  /\ converting => semaphore <= 1

(* Until sema_init no conversion of this load can run.                     *)
NoneBeforeInit == pc["adc"] \in AdcInit /\ ~stale => ~converting

AdcSemaphore ==
  SemaphoreRange /\ NoneBeforeInit /\ CrashOnlyIfStale /\ SemaphoreCounts

GpioInv ==
  /\ pc["gpio"] \in {"absent", "alloc", "class", "device", "cdev", "loaded",
                     "destroy", "cdev_del", "class_destroy", "unregister"}
  /\ "gpio" \in cdevs => pc["gpio"] \in {"loaded", "destroy", "cdev_del"}
  /\ pc["gpio"] = "loaded" => "gpio" \in cdevs
  /\ regions["gpio"] <= 1
  /\ pc["gpio"] \in {"absent", "alloc"} => regions["gpio"] = 0
  /\ pc["gpio"] \in {"cdev", "loaded"} => regions["gpio"] > 0 /\ total = NumDevices
  /\ pc["gpio"] \in {"class", "device"} /\ regions["gpio"] = 0 => <<"gpio", "alloc">> \in failed
  /\ pc["gpio"] \in {"device", "cdev", "loaded"} =>
       class = "loaded" /\ devices = 0..(total - 1)
  /\ pc["gpio"] \in {"absent", "alloc", "class", "unregister"} => class # "loaded"
  /\ class = "loaded" /\ pc["gpio"] = "destroy" => devices \subseteq 0..(total - 1)
  /\ class = "loaded" /\ pc["gpio"] \in {"cdev_del", "class_destroy"} => devices = {}
  /\ class = "none" => devices = {}
  /\ class = "left" => <<"gpio", "alloc">> \in failed
  /\ pc["gpio"] \in {"alloc", "class"} => total = 0

PwmInv ==
  /\ pc["pwm"] \in {"absent", "alloc", "cdev", "loaded", "cdev_del", "unregister"}
  /\ "pwm" \in cdevs => pc["pwm"] \in {"loaded", "cdev_del"}
  /\ pc["pwm"] = "loaded" => "pwm" \in cdevs
  /\ regions["pwm"] = IF pc["pwm"] \in {"absent", "alloc"} THEN 0 ELSE 1

HwInv ==
  /\ pc["hw"] \in {"absent", "kobject", "group", "loaded", "put"}
  /\ pc["hw"] \in {"absent", "kobject"} => kobject = {}
  /\ pc["hw"] = "group" => kobject = {"dir"}
  /\ pc["hw"] = "loaded" => kobject = {"dir", "file"}

Labels == {"absent", "loaded"} \cup Loading \cup Unloading

(* What the parts below need of TypeOK.                                    *)
Typed ==
  /\ pc \in [Modules -> Labels]
  /\ regions \in [Drivers -> Nat] /\ files \in [Drivers -> Nat]
  /\ handlers \subseteq {"TS", "GPI_01"}
  /\ total \in Nat /\ semaphore \in Int
  /\ converting \in BOOLEAN /\ crashed \in BOOLEAN /\ stale \in BOOLEAN

PcTypeOK == pc \in [Modules -> Labels] /\ failed \subseteq Modules \X Loading

RestTypeOK ==
  /\ RegistryTypeOK
  /\ used \in InUse /\ total \in 0..NumDevices /\ semaphore \in Int
  /\ converting \in BOOLEAN /\ crashed \in BOOLEAN /\ stale \in BOOLEAN

IInv == TypeOK /\ FilesInv /\ AdcRegistered /\ AdcSemaphore /\ GpioInv /\ PwmInv /\ HwInv

LEMMA AdcRegisteredStep ==
  ASSUME Typed, AdcRegistered, [Next]_vars
  PROVE  AdcRegistered'
<1> DEFINE Same == /\ UNCHANGED <<pc["adc"], regions["adc"], handlers>>
                   /\ ("adc" \in cdevs') <=> ("adc" \in cdevs)
                   /\ (<<"adc", "cdev">> \in failed') <=> (<<"adc", "cdev">> \in failed)
<1>a. ASSUME Same PROVE AdcRegistered'
  BY <1>a DEF AdcRegistered, AdcHolding, AdcInit, AdcExit
<1>1. ASSUME NEW m \in Modules, Insmod(m) PROVE AdcRegistered'
  <2>1. CASE m = "adc"
    BY <1>1, <2>1 DEF Insmod, Goes, Typed, Modules, Drivers, registry,
      driver, AdcRegistered, AdcHolding, AdcInit, AdcExit
  <2>2. CASE m # "adc"
    <3>1. Same
      BY <1>1, <2>2 DEF Insmod, Goes, Typed, Modules, Drivers, registry,
        driver
    <3>2. QED  BY <3>1, <1>a
  <2>3. QED  BY <2>1, <2>2
<1>2. ASSUME NEW m \in Modules, Rmmod(m) PROVE AdcRegistered'
  <2>1. CASE m = "adc"
    BY <1>2, <2>1 DEF Rmmod, Goes, FirstExitStep, Typed, Modules, Drivers,
      registry, driver, AdcRegistered, AdcHolding, AdcInit, AdcExit
  <2>2. CASE m # "adc"
    <3>1. Same
      BY <1>2, <2>2 DEF Rmmod, Goes, Typed, Modules, Drivers, registry,
        driver
    <3>2. QED  BY <3>1, <1>a
  <2>3. QED  BY <2>1, <2>2
<1>3. ASSUME NEW m \in Drivers, AllocRegion(m) PROVE AdcRegistered'
  <2>1. CASE m = "adc"
    <3>1. pc["adc"] = "alloc" /\ UNCHANGED <<cdevs, handlers>>
      BY <1>3, <2>1 DEF AllocRegion, Succeeds, Fails, Goes
    <3>2. <<"adc", "cdev">> \in failed' <=> <<"adc", "cdev">> \in failed
      BY <1>3, <2>1 DEF AllocRegion, Succeeds, Fails, Goes
    <3>3. CASE Alloc("adc") /\ pc' = [pc EXCEPT !["adc"] = "cdev"]
      <4>1. regions'["adc"] = regions["adc"] + 1 /\ pc'["adc"] = "cdev"
        BY <3>3 DEF Alloc, Typed, Modules, Drivers
      <4>2. regions["adc"] \in Nat
        BY DEF Typed, Drivers
      <4>3. QED  BY <3>1, <3>2, <4>1, <4>2 DEF AdcRegistered, AdcHolding, AdcInit, AdcExit
    <3>4. CASE UNCHANGED regions /\ pc' = [pc EXCEPT !["adc"] = "absent"]
      <4>1. pc'["adc"] = "absent"
        BY <3>4 DEF Typed, Modules
      <4>2. QED  BY <3>1, <3>2, <3>4, <4>1 DEF AdcRegistered, AdcHolding, AdcInit, AdcExit
    <3>5. QED
      BY <1>3, <2>1, <3>3, <3>4 DEF AllocRegion, Succeeds, Fails, Goes
  <2>2. CASE m # "adc"
    <3>1. Same
      BY <1>3, <2>2 DEF AllocRegion, Alloc, Succeeds, Fails, Goes, Typed,
        Modules, Drivers, registry, driver
    <3>2. QED  BY <3>1, <1>a
  <2>3. QED  BY <2>1, <2>2
<1>4. ASSUME NEW m \in Drivers, CdevAdd(m) PROVE AdcRegistered'
  <2>1. CASE m = "adc"
    BY <1>4, <2>1 DEF CdevAdd, Succeeds, Fails, Goes, FirstExitStep, Typed,
      Modules, Drivers, registry, driver, AdcRegistered, AdcHolding,
      AdcInit, AdcExit
  <2>2. CASE m # "adc"
    <3>1. Same
      BY <1>4, <2>2 DEF CdevAdd, Succeeds, Fails, Goes, Typed, Modules,
        Drivers, registry, driver
    <3>2. QED  BY <3>1, <1>a
  <2>3. QED  BY <2>1, <2>2
<1>5. ASSUME NEW m \in Drivers, CdevDel(m) PROVE AdcRegistered'
  <2>1. CASE m = "adc"
    BY <1>5, <2>1 DEF CdevDel, Succeeds, Goes, Typed, Modules, Drivers,
      registry, driver, AdcRegistered, AdcHolding, AdcInit, AdcExit
  <2>2. CASE m # "adc"
    <3>1. Same
      BY <1>5, <2>2 DEF CdevDel, Succeeds, Goes, Typed, Modules, Drivers,
        registry, driver
    <3>2. QED  BY <3>1, <1>a
  <2>3. QED  BY <2>1, <2>2
<1>6. ASSUME NEW m \in Drivers, UnregisterRegion(m) PROVE AdcRegistered'
  <2>1. CASE m = "adc"
    <3>1. /\ pc["adc"] = "unregister" /\ pc'["adc"] = "free TS"
          /\ UNCHANGED <<cdevs, handlers, failed>>
      BY <1>6, <2>1 DEF UnregisterRegion, Succeeds, Goes, Typed, Modules
    <3>2. regions["adc"] > 0 /\ regions["adc"] \in Nat
      BY <3>1 DEF Typed, Drivers, AdcRegistered, AdcHolding
    <3>3. regions'["adc"] = regions["adc"] - 1
      BY <1>6, <2>1, <3>2 DEF UnregisterRegion, Unregister, Typed, Drivers
    <3>4. "adc" \notin cdevs
      BY <3>1 DEF AdcRegistered
    <3>5. <<"adc", "cdev">> \notin failed => regions'["adc"] = 0
      <4>1. <<"adc", "cdev">> \notin failed => regions["adc"] = 1
        BY <3>1 DEF AdcRegistered, AdcHolding
      <4>2. QED  BY <4>1, <3>2, <3>3
    <3>6. QED  BY <3>1, <3>4, <3>5 DEF AdcRegistered, AdcHolding, AdcInit, AdcExit
  <2>2. CASE m # "adc"
    <3>1. Same
      BY <1>6, <2>2 DEF UnregisterRegion, Unregister, Succeeds, Goes, Typed,
        Modules, Drivers, registry, driver
    <3>2. QED  BY <3>1, <1>a
  <2>3. QED  BY <2>1, <2>2
<1>7. ASSUME NEW m \in Drivers, OpenOrClose(m) PROVE AdcRegistered'
  <2>1. CASE m = "adc"
    BY <1>7, <2>1 DEF OpenOrClose, OpenFile, CloseFile, Typed, Modules,
      Drivers, registry, driver, AdcRegistered, AdcHolding, AdcInit, AdcExit
  <2>2. CASE m # "adc"
    <3>1. Same
      BY <1>7, <2>2 DEF OpenOrClose, OpenFile, CloseFile, Typed, Modules,
        Drivers, registry, driver
    <3>2. QED  BY <3>1, <1>a
  <2>3. QED  BY <2>1, <2>2
<1>8. CASE RequestIrq("TS", "irq TS", "irq GPI_01")
  BY <1>8 DEF RequestIrq, Succeeds, Fails, Goes, Typed, Modules, Drivers,
    registry, driver, AdcRegistered, AdcHolding, AdcInit, AdcExit
<1>9. CASE RequestIrq("GPI_01", "irq GPI_01", "sema")
  BY <1>9 DEF RequestIrq, Succeeds, Fails, Goes, Typed, Modules, Drivers,
    registry, driver, AdcRegistered, AdcHolding, AdcInit, AdcExit
<1>10. CASE SemaInit
  BY <1>10 DEF SemaInit, Succeeds, Goes, Typed, Modules, Drivers, registry,
    driver, AdcRegistered, AdcHolding, AdcInit, AdcExit
<1>11. CASE FreeIrq("TS", "free TS", "free GPI_01")
  BY <1>11 DEF FreeIrq, Succeeds, Goes, Typed, Modules, Drivers, registry,
    driver, AdcRegistered, AdcHolding, AdcInit, AdcExit
<1>12. CASE FreeIrq("GPI_01", "free GPI_01", "absent")
  <2>1. handlers' = {} /\ pc["adc"] = "free GPI_01" /\ pc'["adc"] = "absent"
    BY <1>12 DEF FreeIrq, Succeeds, Goes, Typed, Modules, Drivers, registry,
      driver, AdcRegistered
  <2>2. UNCHANGED <<cdevs, regions, failed>>
    BY <1>12 DEF FreeIrq, Succeeds, Goes, Typed, Modules, Drivers, registry,
      driver
  <2>3. QED
    BY <2>1, <2>2 DEF AdcRegistered, AdcHolding, AdcInit, AdcExit
<1>13. CASE GpInterrupt
  BY <1>13 DEF GpInterrupt, TryDown, Typed, Modules, Drivers, registry,
    driver, AdcRegistered, AdcHolding, AdcInit, AdcExit
<1>14. CASE AdcInterrupt
  BY <1>14 DEF AdcInterrupt, ValueRead, Typed, Modules, Drivers, registry,
    driver, AdcRegistered, AdcHolding, AdcInit, AdcExit
<1>15. CASE ConversionLost
  BY <1>15 DEF ConversionLost, Typed, Modules, Drivers, registry, driver,
    AdcRegistered, AdcHolding, AdcInit, AdcExit
<1>16. CASE GpioStep
  <2>1. Same
    BY <1>16 DEF GpioStep, ClassCreate, Succeeds, Fails, Goes, DeviceCreate,
      DevicesCreated, Status, DevicesDestroy, ClassDestroy, Typed, Modules,
      Drivers, registry, driver
  <2>2. QED  BY <2>1, <1>a
<1>17. CASE HwStep
  <2>1. Same
    BY <1>17 DEF HwStep, KobjectCreate, Succeeds, Fails, Goes, CreateGroup,
      GroupFails, KobjectPut, Typed, Modules, Drivers, registry, driver
  <2>2. QED  BY <2>1, <1>a
<1>18. CASE UNCHANGED vars
  BY <1>18, <1>a DEF vars, registry, driver
<1>19. QED
  BY <1>1, <1>2, <1>3, <1>4, <1>5, <1>6, <1>7, <1>8, <1>9, <1>10, <1>11,
    <1>12, <1>13, <1>14, <1>15, <1>16, <1>17, <1>18 DEF Next, Running,
    DriverStep, AdcStep, GpioStep, HwStep, Halted

LEMMA AdcSemaphoreStep ==
  ASSUME Typed, AdcRegistered, AdcSemaphore, [Next]_vars
  PROVE  AdcSemaphore'
<1> DEFINE Same == /\ UNCHANGED <<pc["adc"], handlers, semaphore, converting, crashed, stale>>
<1>a. ASSUME Same PROVE AdcSemaphore'
  BY <1>a DEF AdcSemaphore, AdcRegistered, AdcInit, AdcExit, SemaphoreRange,
    NoneBeforeInit, CrashOnlyIfStale, SemaphoreCounts
<1>1. ASSUME NEW m \in Modules, ~crashed, Insmod(m) PROVE AdcSemaphore'
  <2>1. CASE m = "adc"
    <3>1. (stale' <=> converting) /\ (converting' <=> converting) /\ ~crashed'
      BY <1>1, <2>1 DEF Insmod
    <3>2. semaphore' = -1 /\ pc'["adc"] = "alloc"
      BY <1>1, <2>1 DEF Insmod, Goes, Typed, Modules
    <3>3. SemaphoreRange'
      BY <3>1, <3>2 DEF SemaphoreRange, AdcInit, AdcExit
    <3>4. NoneBeforeInit'
      BY <3>1, <3>2 DEF NoneBeforeInit, AdcInit
    <3>5. CrashOnlyIfStale'
      BY <3>1, <3>2 DEF CrashOnlyIfStale
    <3>6. SemaphoreCounts'
      BY <3>1, <3>2 DEF SemaphoreCounts
    <3>7. QED  BY <3>3, <3>4, <3>5, <3>6 DEF AdcSemaphore
  <2>2. CASE m # "adc"
    <3>1. Same
      BY <1>1, <2>2 DEF Insmod, Goes, Typed, Modules, Drivers, registry,
        driver
    <3>2. QED  BY <3>1, <1>a
  <2>3. QED  BY <2>1, <2>2
<1>2. ASSUME NEW m \in Modules, ~crashed, Rmmod(m) PROVE AdcSemaphore'
  <2>1. CASE m = "adc"
    BY <1>2, <2>1 DEF Rmmod, Goes, FirstExitStep, Typed, Modules, Drivers,
      registry, driver, AdcSemaphore, AdcRegistered, AdcInit, AdcExit,
      SemaphoreRange, NoneBeforeInit, CrashOnlyIfStale, SemaphoreCounts
  <2>2. CASE m # "adc"
    <3>1. Same
      BY <1>2, <2>2 DEF Rmmod, Goes, Typed, Modules, Drivers, registry,
        driver
    <3>2. QED  BY <3>1, <1>a
  <2>3. QED  BY <2>1, <2>2
<1>3. ASSUME NEW m \in Drivers, ~crashed, AllocRegion(m) PROVE AdcSemaphore'
  <2>1. CASE m = "adc"
    BY <1>3, <2>1 DEF AllocRegion, Alloc, Succeeds, Fails, Goes, Typed,
      Modules, Drivers, registry, driver, AdcSemaphore, AdcRegistered,
      AdcInit, AdcExit, SemaphoreRange, NoneBeforeInit, CrashOnlyIfStale,
      SemaphoreCounts
  <2>2. CASE m # "adc"
    <3>1. Same
      BY <1>3, <2>2 DEF AllocRegion, Alloc, Succeeds, Fails, Goes, Typed,
        Modules, Drivers, registry, driver
    <3>2. QED  BY <3>1, <1>a
  <2>3. QED  BY <2>1, <2>2
<1>4. ASSUME NEW m \in Drivers, ~crashed, CdevAdd(m) PROVE AdcSemaphore'
  <2>1. CASE m = "adc"
    BY <1>4, <2>1 DEF CdevAdd, Succeeds, Fails, Goes, FirstExitStep, Typed,
      Modules, Drivers, registry, driver, AdcSemaphore, AdcRegistered,
      AdcInit, AdcExit, SemaphoreRange, NoneBeforeInit, CrashOnlyIfStale,
      SemaphoreCounts
  <2>2. CASE m # "adc"
    <3>1. Same
      BY <1>4, <2>2 DEF CdevAdd, Succeeds, Fails, Goes, Typed, Modules,
        Drivers, registry, driver
    <3>2. QED  BY <3>1, <1>a
  <2>3. QED  BY <2>1, <2>2
<1>5. ASSUME NEW m \in Drivers, ~crashed, CdevDel(m) PROVE AdcSemaphore'
  <2>1. CASE m = "adc"
    BY <1>5, <2>1 DEF CdevDel, Succeeds, Goes, Typed, Modules, Drivers,
      registry, driver, AdcSemaphore, AdcRegistered, AdcInit, AdcExit,
      SemaphoreRange, NoneBeforeInit, CrashOnlyIfStale, SemaphoreCounts
  <2>2. CASE m # "adc"
    <3>1. Same
      BY <1>5, <2>2 DEF CdevDel, Succeeds, Goes, Typed, Modules, Drivers,
        registry, driver
    <3>2. QED  BY <3>1, <1>a
  <2>3. QED  BY <2>1, <2>2
<1>6. ASSUME NEW m \in Drivers, ~crashed, UnregisterRegion(m) PROVE AdcSemaphore'
  <2>1. CASE m = "adc"
    BY <1>6, <2>1 DEF UnregisterRegion, Unregister, Succeeds, Goes, Typed,
      Modules, Drivers, registry, driver, AdcSemaphore, AdcRegistered,
      AdcInit, AdcExit, SemaphoreRange, NoneBeforeInit, CrashOnlyIfStale,
      SemaphoreCounts
  <2>2. CASE m # "adc"
    <3>1. Same
      BY <1>6, <2>2 DEF UnregisterRegion, Unregister, Succeeds, Goes, Typed,
        Modules, Drivers, registry, driver
    <3>2. QED  BY <3>1, <1>a
  <2>3. QED  BY <2>1, <2>2
<1>7. ASSUME NEW m \in Drivers, ~crashed, OpenOrClose(m) PROVE AdcSemaphore'
  <2>1. CASE m = "adc"
    BY <1>7, <2>1 DEF OpenOrClose, OpenFile, CloseFile, Typed, Modules,
      Drivers, registry, driver, AdcSemaphore, AdcRegistered, AdcInit,
      AdcExit, SemaphoreRange, NoneBeforeInit, CrashOnlyIfStale,
      SemaphoreCounts
  <2>2. CASE m # "adc"
    <3>1. Same
      BY <1>7, <2>2 DEF OpenOrClose, OpenFile, CloseFile, Typed, Modules,
        Drivers, registry, driver
    <3>2. QED  BY <3>1, <1>a
  <2>3. QED  BY <2>1, <2>2
<1>8. CASE ~crashed /\ RequestIrq("TS", "irq TS", "irq GPI_01")
  BY <1>8 DEF RequestIrq, Succeeds, Fails, Goes, Typed, Modules, Drivers,
    registry, driver, AdcSemaphore, AdcRegistered, AdcInit, AdcExit,
    SemaphoreRange, NoneBeforeInit, CrashOnlyIfStale, SemaphoreCounts
<1>9. CASE ~crashed /\ RequestIrq("GPI_01", "irq GPI_01", "sema")
  BY <1>9 DEF RequestIrq, Succeeds, Fails, Goes, Typed, Modules, Drivers,
    registry, driver, AdcSemaphore, AdcRegistered, AdcInit, AdcExit,
    SemaphoreRange, NoneBeforeInit, CrashOnlyIfStale, SemaphoreCounts
<1>10. CASE ~crashed /\ SemaInit
  BY <1>10 DEF SemaInit, Succeeds, Goes, Typed, Modules, Drivers, registry,
    driver, AdcSemaphore, AdcRegistered, AdcInit, AdcExit, SemaphoreRange,
    NoneBeforeInit, CrashOnlyIfStale, SemaphoreCounts
<1>11. CASE ~crashed /\ FreeIrq("TS", "free TS", "free GPI_01")
  BY <1>11 DEF FreeIrq, Succeeds, Goes, Typed, Modules, Drivers, registry,
    driver, AdcSemaphore, AdcRegistered, AdcInit, AdcExit, SemaphoreRange,
    NoneBeforeInit, CrashOnlyIfStale, SemaphoreCounts
<1>12. CASE ~crashed /\ FreeIrq("GPI_01", "free GPI_01", "absent")
  BY <1>12 DEF FreeIrq, Succeeds, Goes, Typed, Modules, Drivers, registry,
    driver, AdcSemaphore, AdcRegistered, AdcInit, AdcExit, SemaphoreRange,
    NoneBeforeInit, CrashOnlyIfStale, SemaphoreCounts
<1>13. CASE ~crashed /\ GpInterrupt
  <2>1. /\ semaphore > 0 /\ semaphore' = semaphore - 1 /\ UNCHANGED <<pc, handlers>>
        /\ semaphore \in Int
    BY <1>13 DEF GpInterrupt, TryDown, registry, Typed
  <2>2. converting' /\ (stale' <=> stale) /\ ~crashed'
    BY <1>13 DEF GpInterrupt
  <2>3. pc["adc"] \notin AdcInit /\ semaphore <= 2
    BY <2>1 DEF AdcSemaphore, SemaphoreRange
  <2>4. SemaphoreRange'
    BY <2>1, <2>2, <2>3 DEF SemaphoreRange
  <2>5. NoneBeforeInit'
    BY <2>1, <2>2, <2>3 DEF NoneBeforeInit
  <2>6. CrashOnlyIfStale'
    BY <2>1, <2>2, <2>3 DEF CrashOnlyIfStale
  <2>7. SemaphoreCounts'
    BY <2>1, <2>2, <2>3 DEF SemaphoreCounts, AdcSemaphore
  <2>8. QED  BY <2>4, <2>5, <2>6, <2>7 DEF AdcSemaphore
<1>14. CASE ~crashed /\ AdcInterrupt
  <2>1. "TS" \in handlers /\ UNCHANGED <<pc, handlers>> /\ semaphore \in Int
    BY <1>14 DEF AdcInterrupt, registry, Typed
  <2>2. ~converting' /\ converting /\ (stale' <=> stale)
    BY <1>14 DEF AdcInterrupt, ValueRead
  <2>3. CASE semaphore = -1
    <3>1. pc["adc"] \in AdcInit
      <4>1. pc["adc"] # "absent"
        BY <2>1 DEF AdcRegistered
      <4>2. pc["adc"] \notin AdcExit \cup {"loaded"}
        BY <2>3 DEF AdcSemaphore, SemaphoreRange
      <4>3. QED  BY <4>1, <4>2 DEF AdcRegistered
    <3>2. stale
      BY <2>2, <3>1 DEF AdcSemaphore, NoneBeforeInit
    <3>3. semaphore' = -1 /\ pc["adc"] \notin AdcExit \cup {"loaded"}
      BY <1>14, <2>3 DEF AdcInterrupt, AdcSemaphore, SemaphoreRange
    <3>4. SemaphoreRange'
      BY <2>1, <2>2, <3>1, <3>2, <3>3 DEF SemaphoreRange
    <3>5. NoneBeforeInit'
      BY <2>1, <2>2, <3>1, <3>2, <3>3 DEF NoneBeforeInit
    <3>6. CrashOnlyIfStale'
      BY <2>1, <2>2, <3>1, <3>2, <3>3 DEF CrashOnlyIfStale
    <3>7. SemaphoreCounts'
      BY <2>1, <2>2, <3>1, <3>2, <3>3 DEF SemaphoreCounts
    <3>8. QED  BY <3>4, <3>5, <3>6, <3>7 DEF AdcSemaphore
  <2>4. CASE semaphore # -1
    <3>1. semaphore' = semaphore + 1 /\ ~crashed'
      BY <1>14, <2>4 DEF AdcInterrupt
    <3>2. semaphore >= -1 /\ semaphore <= 1 /\ pc["adc"] \notin AdcInit
      BY <2>2, <2>4 DEF AdcSemaphore, SemaphoreRange
    <3>3. pc["adc"] \in AdcExit \cup {"loaded"} => semaphore >= 0
      BY DEF AdcSemaphore, SemaphoreRange
    <3>4. SemaphoreRange'
      BY <2>1, <2>2, <3>1, <3>2, <3>3 DEF SemaphoreRange
    <3>5. NoneBeforeInit'
      BY <2>1, <2>2, <3>1, <3>2, <3>3 DEF NoneBeforeInit
    <3>6. CrashOnlyIfStale'
      BY <2>1, <2>2, <3>1, <3>2, <3>3 DEF CrashOnlyIfStale
    <3>7. SemaphoreCounts'
      BY <2>1, <2>2, <3>1, <3>2, <3>3 DEF SemaphoreCounts, AdcSemaphore
    <3>8. QED  BY <3>4, <3>5, <3>6, <3>7 DEF AdcSemaphore
  <2>5. QED  BY <2>3, <2>4
<1>15. CASE ~crashed /\ ConversionLost
  <2>1. /\ UNCHANGED <<semaphore, pc, handlers>> /\ "TS" \notin handlers
        /\ semaphore \in Int
    BY <1>15 DEF ConversionLost, registry, Typed
  <2>2. ~converting' /\ (stale' <=> stale) /\ ~crashed'
    BY <1>15 DEF ConversionLost
  <2>3. SemaphoreRange'
    BY <2>1, <2>2 DEF SemaphoreRange, AdcSemaphore
  <2>4. NoneBeforeInit'
    BY <2>1, <2>2 DEF NoneBeforeInit
  <2>5. CrashOnlyIfStale'
    BY <2>1, <2>2 DEF CrashOnlyIfStale
  <2>6. SemaphoreCounts'
    BY <2>1, <2>2 DEF SemaphoreCounts
  <2>7. QED  BY <2>3, <2>4, <2>5, <2>6 DEF AdcSemaphore
<1>16. CASE ~crashed /\ (GpioStep)
  <2>1. Same
    BY <1>16 DEF GpioStep, ClassCreate, Succeeds, Fails, Goes, DeviceCreate,
      DevicesCreated, Status, DevicesDestroy, ClassDestroy, Typed, Modules,
      Drivers, registry, driver
  <2>2. QED  BY <2>1, <1>a
<1>17. CASE ~crashed /\ (HwStep)
  <2>1. Same
    BY <1>17 DEF HwStep, KobjectCreate, Succeeds, Fails, Goes, CreateGroup,
      GroupFails, KobjectPut, Typed, Modules, Drivers, registry, driver
  <2>2. QED  BY <2>1, <1>a
<1>18. CASE UNCHANGED vars
  BY <1>18, <1>a DEF vars, registry, driver
<1>19. QED
  BY <1>1, <1>2, <1>3, <1>4, <1>5, <1>6, <1>7, <1>8, <1>9, <1>10, <1>11,
    <1>12, <1>13, <1>14, <1>15, <1>16, <1>17, <1>18 DEF Next, Running,
    DriverStep, AdcStep, GpioStep, HwStep, Halted

LEMMA GpioInvStep ==
  ASSUME Typed, GpioInv, [Next]_vars
  PROVE  GpioInv'
<1> DEFINE Same == /\ UNCHANGED <<pc["gpio"], regions["gpio"], total, class, devices>>
                   /\ ("gpio" \in cdevs') <=> ("gpio" \in cdevs)
                   /\ (<<"gpio", "alloc">> \in failed') <=> (<<"gpio", "alloc">> \in failed)
<1>a. ASSUME Same PROVE GpioInv'
  BY <1>a DEF GpioInv
<1>1. ASSUME NEW m \in Modules, Insmod(m) PROVE GpioInv'
  <2>1. CASE m = "gpio"
    BY <1>1, <2>1 DEF Insmod, Goes, Typed, Modules, Drivers, registry,
      driver, GpioInv
  <2>2. CASE m # "gpio"
    <3>1. Same
      BY <1>1, <2>2 DEF Insmod, Goes, Typed, Modules, Drivers, registry,
        driver
    <3>2. QED  BY <3>1, <1>a
  <2>3. QED  BY <2>1, <2>2
<1>2. ASSUME NEW m \in Modules, Rmmod(m) PROVE GpioInv'
  <2>1. CASE m = "gpio"
    BY <1>2, <2>1 DEF Rmmod, Goes, FirstExitStep, Typed, Modules, Drivers,
      registry, driver, GpioInv
  <2>2. CASE m # "gpio"
    <3>1. Same
      BY <1>2, <2>2 DEF Rmmod, Goes, Typed, Modules, Drivers, registry,
        driver
    <3>2. QED  BY <3>1, <1>a
  <2>3. QED  BY <2>1, <2>2
<1>3. ASSUME NEW m \in Drivers, AllocRegion(m) PROVE GpioInv'
  <2>1. CASE m = "gpio"
    BY <1>3, <2>1 DEF AllocRegion, Alloc, Succeeds, Fails, Goes, Typed,
      Modules, Drivers, registry, driver, GpioInv
  <2>2. CASE m # "gpio"
    <3>1. Same
      BY <1>3, <2>2 DEF AllocRegion, Alloc, Succeeds, Fails, Goes, Typed,
        Modules, Drivers, registry, driver
    <3>2. QED  BY <3>1, <1>a
  <2>3. QED  BY <2>1, <2>2
<1>4. ASSUME NEW m \in Drivers, CdevAdd(m) PROVE GpioInv'
  <2>1. CASE m = "gpio"
    BY <1>4, <2>1 DEF CdevAdd, Succeeds, Fails, Goes, FirstExitStep, Typed,
      Modules, Drivers, registry, driver, GpioInv
  <2>2. CASE m # "gpio"
    <3>1. Same
      BY <1>4, <2>2 DEF CdevAdd, Succeeds, Fails, Goes, Typed, Modules,
        Drivers, registry, driver
    <3>2. QED  BY <3>1, <1>a
  <2>3. QED  BY <2>1, <2>2
<1>5. ASSUME NEW m \in Drivers, CdevDel(m) PROVE GpioInv'
  <2>1. CASE m = "gpio"
    BY <1>5, <2>1 DEF CdevDel, Succeeds, Goes, Typed, Modules, Drivers,
      registry, driver, GpioInv
  <2>2. CASE m # "gpio"
    <3>1. Same
      BY <1>5, <2>2 DEF CdevDel, Succeeds, Goes, Typed, Modules, Drivers,
        registry, driver
    <3>2. QED  BY <3>1, <1>a
  <2>3. QED  BY <2>1, <2>2
<1>6. ASSUME NEW m \in Drivers, UnregisterRegion(m) PROVE GpioInv'
  <2>1. CASE m = "gpio"
    BY <1>6, <2>1 DEF UnregisterRegion, Unregister, Succeeds, Goes, Typed,
      Modules, Drivers, registry, driver, GpioInv
  <2>2. CASE m # "gpio"
    <3>1. Same
      BY <1>6, <2>2 DEF UnregisterRegion, Unregister, Succeeds, Goes, Typed,
        Modules, Drivers, registry, driver
    <3>2. QED  BY <3>1, <1>a
  <2>3. QED  BY <2>1, <2>2
<1>7. ASSUME NEW m \in Drivers, OpenOrClose(m) PROVE GpioInv'
  <2>1. CASE m = "gpio"
    BY <1>7, <2>1 DEF OpenOrClose, OpenFile, CloseFile, Typed, Modules,
      Drivers, registry, driver, GpioInv
  <2>2. CASE m # "gpio"
    <3>1. Same
      BY <1>7, <2>2 DEF OpenOrClose, OpenFile, CloseFile, Typed, Modules,
        Drivers, registry, driver
    <3>2. QED  BY <3>1, <1>a
  <2>3. QED  BY <2>1, <2>2
<1>8. CASE AdcStep \/ GpInterrupt \/ AdcInterrupt \/ ConversionLost
  <2>1. Same
    BY <1>8 DEF AdcStep, RequestIrq, Succeeds, Fails, Goes, SemaInit,
      FreeIrq, GpInterrupt, TryDown, AdcInterrupt, ValueRead,
      ConversionLost, Typed, Modules, Drivers, registry, driver
  <2>2. QED  BY <2>1, <1>a
<1>9. CASE ClassCreate
  <2>1. /\ pc["gpio"] = "class" /\ UNCHANGED <<cdevs, regions, total, devices>>
        /\ <<"gpio", "alloc">> \in failed => <<"gpio", "alloc">> \in failed'
    BY <1>9 DEF ClassCreate, Succeeds, Fails, Goes, Typed, Modules, Drivers,
      registry, driver
  <2>2. CASE class = "none" /\ class' = "loaded" /\ pc' = [pc EXCEPT !["gpio"] = "device"]
    <3>1. total = 0 /\ devices = {}
      BY <2>1, <2>2 DEF GpioInv
    <3>2. devices = 0..(total - 1)
      BY <3>1
    <3>3. QED  BY <2>1, <2>2, <3>2 DEF Typed, Modules, GpioInv
  <2>3. CASE UNCHANGED class /\ pc' = [pc EXCEPT !["gpio"] = "destroy"]
    BY <2>1, <2>3 DEF Typed, Modules, GpioInv
  <2>4. QED
    BY <1>9, <2>2, <2>3 DEF ClassCreate, Succeeds, Fails, Goes
<1>10. CASE DeviceCreate
  <2>1. 0..(total' - 1) = 0..(total - 1) \cup {total}
    BY <1>10 DEF DeviceCreate, Typed
  <2>2. \/ pc'["gpio"] = "device" /\ devices' = devices \cup {total}
        \/ pc'["gpio"] = "destroy" /\ devices' = devices
    BY <1>10 DEF DeviceCreate, Succeeds, Fails, Goes, Typed, Modules,
      Drivers, registry, driver
  <2>3. /\ pc["gpio"] = "device" /\ UNCHANGED <<cdevs, regions, class>>
        /\ <<"gpio", "alloc">> \in failed => <<"gpio", "alloc">> \in failed'
    BY <1>10 DEF DeviceCreate, Succeeds, Fails, Goes, Typed, Modules,
      Drivers, registry, driver
  <2>4. QED
    BY <2>1, <2>2, <2>3 DEF Typed, GpioInv
<1>11. CASE DevicesCreated
  BY <1>11 DEF DevicesCreated, Status, Succeeds, Goes, Typed, Modules,
    Drivers, registry, driver, GpioInv
<1>12. CASE DevicesDestroy
  BY <1>12 DEF DevicesDestroy, Succeeds, Goes, Typed, Modules, Drivers,
    registry, driver, GpioInv
<1>13. CASE ClassDestroy
  BY <1>13 DEF ClassDestroy, Succeeds, Goes, Typed, Modules, Drivers,
    registry, driver, GpioInv
<1>14. CASE HwStep
  <2>1. Same
    BY <1>14 DEF HwStep, KobjectCreate, Succeeds, Fails, Goes, CreateGroup,
      GroupFails, KobjectPut, Typed, Modules, Drivers, registry, driver
  <2>2. QED  BY <2>1, <1>a
<1>15. CASE UNCHANGED vars
  BY <1>15, <1>a DEF vars, registry, driver
<1>16. QED
  BY <1>1, <1>2, <1>3, <1>4, <1>5, <1>6, <1>7, <1>8, <1>9, <1>10, <1>11,
    <1>12, <1>13, <1>14, <1>15 DEF Next, Running, DriverStep, AdcStep,
    GpioStep, HwStep, Halted

LEMMA PwmInvStep ==
  ASSUME Typed, PwmInv, [Next]_vars
  PROVE  PwmInv'
<1> DEFINE Same == /\ UNCHANGED <<pc["pwm"], regions["pwm"]>>
                   /\ ("pwm" \in cdevs') <=> ("pwm" \in cdevs)
<1>a. ASSUME Same PROVE PwmInv'
  BY <1>a DEF PwmInv
<1>1. ASSUME NEW m \in Modules, Insmod(m) PROVE PwmInv'
  <2>1. CASE m = "pwm"
    BY <1>1, <2>1 DEF Insmod, Goes, Typed, Modules, Drivers, registry,
      driver, PwmInv
  <2>2. CASE m # "pwm"
    <3>1. Same
      BY <1>1, <2>2 DEF Insmod, Goes, Typed, Modules, Drivers, registry,
        driver
    <3>2. QED  BY <3>1, <1>a
  <2>3. QED  BY <2>1, <2>2
<1>2. ASSUME NEW m \in Modules, Rmmod(m) PROVE PwmInv'
  <2>1. CASE m = "pwm"
    BY <1>2, <2>1 DEF Rmmod, Goes, FirstExitStep, Typed, Modules, Drivers,
      registry, driver, PwmInv
  <2>2. CASE m # "pwm"
    <3>1. Same
      BY <1>2, <2>2 DEF Rmmod, Goes, Typed, Modules, Drivers, registry,
        driver
    <3>2. QED  BY <3>1, <1>a
  <2>3. QED  BY <2>1, <2>2
<1>3. ASSUME NEW m \in Drivers, AllocRegion(m) PROVE PwmInv'
  <2>1. CASE m = "pwm"
    BY <1>3, <2>1 DEF AllocRegion, Alloc, Succeeds, Fails, Goes, Typed,
      Modules, Drivers, registry, driver, PwmInv
  <2>2. CASE m # "pwm"
    <3>1. Same
      BY <1>3, <2>2 DEF AllocRegion, Alloc, Succeeds, Fails, Goes, Typed,
        Modules, Drivers, registry, driver
    <3>2. QED  BY <3>1, <1>a
  <2>3. QED  BY <2>1, <2>2
<1>4. ASSUME NEW m \in Drivers, CdevAdd(m) PROVE PwmInv'
  <2>1. CASE m = "pwm"
    BY <1>4, <2>1 DEF CdevAdd, Succeeds, Fails, Goes, FirstExitStep, Typed,
      Modules, Drivers, registry, driver, PwmInv
  <2>2. CASE m # "pwm"
    <3>1. Same
      BY <1>4, <2>2 DEF CdevAdd, Succeeds, Fails, Goes, Typed, Modules,
        Drivers, registry, driver
    <3>2. QED  BY <3>1, <1>a
  <2>3. QED  BY <2>1, <2>2
<1>5. ASSUME NEW m \in Drivers, CdevDel(m) PROVE PwmInv'
  <2>1. CASE m = "pwm"
    BY <1>5, <2>1 DEF CdevDel, Succeeds, Goes, Typed, Modules, Drivers,
      registry, driver, PwmInv
  <2>2. CASE m # "pwm"
    <3>1. Same
      BY <1>5, <2>2 DEF CdevDel, Succeeds, Goes, Typed, Modules, Drivers,
        registry, driver
    <3>2. QED  BY <3>1, <1>a
  <2>3. QED  BY <2>1, <2>2
<1>6. ASSUME NEW m \in Drivers, UnregisterRegion(m) PROVE PwmInv'
  <2>1. CASE m = "pwm"
    BY <1>6, <2>1 DEF UnregisterRegion, Unregister, Succeeds, Goes, Typed,
      Modules, Drivers, registry, driver, PwmInv
  <2>2. CASE m # "pwm"
    <3>1. Same
      BY <1>6, <2>2 DEF UnregisterRegion, Unregister, Succeeds, Goes, Typed,
        Modules, Drivers, registry, driver
    <3>2. QED  BY <3>1, <1>a
  <2>3. QED  BY <2>1, <2>2
<1>7. ASSUME NEW m \in Drivers, OpenOrClose(m) PROVE PwmInv'
  <2>1. CASE m = "pwm"
    BY <1>7, <2>1 DEF OpenOrClose, OpenFile, CloseFile, Typed, Modules,
      Drivers, registry, driver, PwmInv
  <2>2. CASE m # "pwm"
    <3>1. Same
      BY <1>7, <2>2 DEF OpenOrClose, OpenFile, CloseFile, Typed, Modules,
        Drivers, registry, driver
    <3>2. QED  BY <3>1, <1>a
  <2>3. QED  BY <2>1, <2>2
<1>8. CASE AdcStep \/ GpInterrupt \/ AdcInterrupt \/ ConversionLost
  <2>1. Same
    BY <1>8 DEF AdcStep, RequestIrq, Succeeds, Fails, Goes, SemaInit,
      FreeIrq, GpInterrupt, TryDown, AdcInterrupt, ValueRead,
      ConversionLost, Typed, Modules, Drivers, registry, driver
  <2>2. QED  BY <2>1, <1>a
<1>9. CASE GpioStep
  <2>1. Same
    BY <1>9 DEF GpioStep, ClassCreate, Succeeds, Fails, Goes, DeviceCreate,
      DevicesCreated, Status, DevicesDestroy, ClassDestroy, Typed, Modules,
      Drivers, registry, driver
  <2>2. QED  BY <2>1, <1>a
<1>10. CASE HwStep
  <2>1. Same
    BY <1>10 DEF HwStep, KobjectCreate, Succeeds, Fails, Goes, CreateGroup,
      GroupFails, KobjectPut, Typed, Modules, Drivers, registry, driver
  <2>2. QED  BY <2>1, <1>a
<1>11. CASE UNCHANGED vars
  BY <1>11, <1>a DEF vars, registry, driver
<1>12. QED
  BY <1>1, <1>2, <1>3, <1>4, <1>5, <1>6, <1>7, <1>8, <1>9, <1>10, <1>11 DEF
    Next, Running, DriverStep, AdcStep, GpioStep, HwStep, Halted

LEMMA HwInvStep ==
  ASSUME Typed, HwInv, [Next]_vars
  PROVE  HwInv'
<1> DEFINE Same == /\ UNCHANGED <<pc["hw"], kobject>>
<1>a. ASSUME Same PROVE HwInv'
  BY <1>a DEF HwInv
<1>1. ASSUME NEW m \in Modules, Insmod(m) PROVE HwInv'
  <2>1. CASE m = "hw"
    BY <1>1, <2>1 DEF Insmod, Goes, Typed, Modules, Drivers, registry,
      driver, HwInv
  <2>2. CASE m # "hw"
    <3>1. Same
      BY <1>1, <2>2 DEF Insmod, Goes, Typed, Modules, Drivers, registry,
        driver
    <3>2. QED  BY <3>1, <1>a
  <2>3. QED  BY <2>1, <2>2
<1>2. ASSUME NEW m \in Modules, Rmmod(m) PROVE HwInv'
  <2>1. CASE m = "hw"
    BY <1>2, <2>1 DEF Rmmod, Goes, FirstExitStep, Typed, Modules, Drivers,
      registry, driver, HwInv
  <2>2. CASE m # "hw"
    <3>1. Same
      BY <1>2, <2>2 DEF Rmmod, Goes, Typed, Modules, Drivers, registry,
        driver
    <3>2. QED  BY <3>1, <1>a
  <2>3. QED  BY <2>1, <2>2
<1>3. ASSUME NEW m \in Drivers, AllocRegion(m) PROVE HwInv'
  <2>1. Same
    BY <1>3 DEF AllocRegion, Alloc, Succeeds, Fails, Goes, Typed, Modules,
      Drivers, registry, driver
  <2>2. QED  BY <2>1, <1>a
<1>4. ASSUME NEW m \in Drivers, CdevAdd(m) PROVE HwInv'
  <2>1. Same
    BY <1>4 DEF CdevAdd, Succeeds, Fails, Goes, Typed, Modules, Drivers,
      registry, driver
  <2>2. QED  BY <2>1, <1>a
<1>5. ASSUME NEW m \in Drivers, CdevDel(m) PROVE HwInv'
  <2>1. Same
    BY <1>5 DEF CdevDel, Succeeds, Goes, Typed, Modules, Drivers, registry,
      driver
  <2>2. QED  BY <2>1, <1>a
<1>6. ASSUME NEW m \in Drivers, UnregisterRegion(m) PROVE HwInv'
  <2>1. Same
    BY <1>6 DEF UnregisterRegion, Unregister, Succeeds, Goes, Typed,
      Modules, Drivers, registry, driver
  <2>2. QED  BY <2>1, <1>a
<1>7. ASSUME NEW m \in Drivers, OpenOrClose(m) PROVE HwInv'
  <2>1. Same
    BY <1>7 DEF OpenOrClose, OpenFile, CloseFile, Typed, Modules, Drivers,
      registry, driver
  <2>2. QED  BY <2>1, <1>a
<1>8. CASE AdcStep \/ GpInterrupt \/ AdcInterrupt \/ ConversionLost
  <2>1. Same
    BY <1>8 DEF AdcStep, RequestIrq, Succeeds, Fails, Goes, SemaInit,
      FreeIrq, GpInterrupt, TryDown, AdcInterrupt, ValueRead,
      ConversionLost, Typed, Modules, Drivers, registry, driver
  <2>2. QED  BY <2>1, <1>a
<1>9. CASE GpioStep
  <2>1. Same
    BY <1>9 DEF GpioStep, ClassCreate, Succeeds, Fails, Goes, DeviceCreate,
      DevicesCreated, Status, DevicesDestroy, ClassDestroy, Typed, Modules,
      Drivers, registry, driver
  <2>2. QED  BY <2>1, <1>a
<1>10. CASE KobjectCreate
  BY <1>10 DEF KobjectCreate, Succeeds, Fails, Goes, Typed, Modules,
    Drivers, registry, driver, HwInv
<1>11. CASE CreateGroup
  BY <1>11 DEF CreateGroup, GroupFails, Succeeds, Fails, Goes, Typed,
    Modules, Drivers, registry, driver, HwInv
<1>12. CASE KobjectPut
  BY <1>12 DEF KobjectPut, Succeeds, Goes, Typed, Modules, Drivers,
    registry, driver, HwInv
<1>13. CASE UNCHANGED vars
  BY <1>13, <1>a DEF vars, registry, driver
<1>14. QED
  BY <1>1, <1>2, <1>3, <1>4, <1>5, <1>6, <1>7, <1>8, <1>9, <1>10, <1>11,
    <1>12, <1>13 DEF Next, Running, DriverStep, AdcStep, GpioStep, HwStep,
    Halted

LEMMA LabelsContain ==
  /\ {"absent", "loaded", "alloc", "class", "device", "cdev", "irq TS", "irq GPI_01",
      "sema", "kobject", "group", "destroy", "cdev_del", "class_destroy",
      "unregister", "free TS", "free GPI_01", "put"} \subseteq Labels
  /\ \A m \in Modules : FirstExitStep[m] \in Labels
BY DEF Labels, Loading, Unloading, Modules, FirstExitStep

LEMMA GoesTyped ==
  ASSUME PcTypeOK, NEW m \in Modules, NEW from, NEW to \in Labels, Goes(m, from, to)
  PROVE  pc' \in [Modules -> Labels]
BY DEF PcTypeOK, Goes

LEMMA SucceedsTyped ==
  ASSUME PcTypeOK, NEW m \in Modules, NEW from, NEW to \in Labels,
         Succeeds(m, from, to)
  PROVE  PcTypeOK'
BY GoesTyped DEF PcTypeOK, Succeeds

LEMMA FailsTyped ==
  ASSUME PcTypeOK, NEW m \in Modules, NEW step \in Loading, NEW to \in Labels,
         Fails(m, step, to)
  PROVE  PcTypeOK'
<1>1. pc' \in [Modules -> Labels]
  BY GoesTyped DEF Fails
<1>2. <<m, step>> \in Modules \X Loading
  OBVIOUS
<1>3. QED  BY <1>1, <1>2 DEF PcTypeOK, Fails

LEMMA PcTypeOKStep ==
  ASSUME PcTypeOK, [Next]_vars
  PROVE  PcTypeOK'
<1> USE LabelsContain
<1>a. {"alloc", "class", "device", "cdev", "irq TS", "irq GPI_01", "kobject", "group"} \subseteq Loading
  BY DEF Loading
<1>b. {"adc", "gpio", "hw"} \subseteq Modules /\ Drivers \subseteq Modules
  BY DEF Modules, Drivers
<1>1. ASSUME NEW m \in Modules, Insmod(m) PROVE PcTypeOK'
  BY <1>1, GoesTyped DEF Insmod, PcTypeOK
<1>2. ASSUME NEW m \in Modules, Rmmod(m) PROVE PcTypeOK'
  BY <1>2, GoesTyped DEF Rmmod, PcTypeOK
<1>3. ASSUME NEW m \in Drivers, AllocRegion(m) PROVE PcTypeOK'
  BY <1>3, <1>a, <1>b, SucceedsTyped, FailsTyped DEF AllocRegion
<1>4. ASSUME NEW m \in Drivers, CdevAdd(m) PROVE PcTypeOK'
  BY <1>4, <1>a, <1>b, SucceedsTyped, FailsTyped DEF CdevAdd
<1>5. ASSUME NEW m \in Drivers, CdevDel(m) PROVE PcTypeOK'
  BY <1>5, <1>a, <1>b, SucceedsTyped DEF CdevDel
<1>6. ASSUME NEW m \in Drivers, UnregisterRegion(m) PROVE PcTypeOK'
  BY <1>6, <1>a, <1>b, SucceedsTyped DEF UnregisterRegion
<1>7. ASSUME NEW m \in Drivers, OpenOrClose(m) PROVE PcTypeOK'
  BY <1>7 DEF OpenOrClose, PcTypeOK
<1>8. CASE RequestIrq("TS", "irq TS", "irq GPI_01")
  BY <1>8, <1>a, <1>b, SucceedsTyped, FailsTyped DEF RequestIrq
<1>9. CASE RequestIrq("GPI_01", "irq GPI_01", "sema")
  BY <1>9, <1>a, <1>b, SucceedsTyped, FailsTyped DEF RequestIrq
<1>10. CASE SemaInit
  BY <1>10, <1>a, <1>b, SucceedsTyped DEF SemaInit
<1>11. CASE FreeIrq("TS", "free TS", "free GPI_01")
  BY <1>11, <1>a, <1>b, SucceedsTyped DEF FreeIrq
<1>12. CASE FreeIrq("GPI_01", "free GPI_01", "absent")
  BY <1>12, <1>a, <1>b, SucceedsTyped DEF FreeIrq
<1>13. CASE GpInterrupt
  BY <1>13 DEF GpInterrupt, PcTypeOK
<1>14. CASE AdcInterrupt
  BY <1>14 DEF AdcInterrupt, PcTypeOK
<1>15. CASE ConversionLost
  BY <1>15 DEF ConversionLost, PcTypeOK
<1>16. CASE ClassCreate
  BY <1>16, <1>a, <1>b, SucceedsTyped, FailsTyped DEF ClassCreate
<1>17. CASE DeviceCreate
  BY <1>17, <1>a, <1>b, SucceedsTyped, FailsTyped DEF DeviceCreate
<1>18. CASE DevicesCreated
  BY <1>18, <1>a, <1>b, SucceedsTyped DEF DevicesCreated, Status
<1>19. CASE DevicesDestroy
  BY <1>19, <1>a, <1>b, SucceedsTyped DEF DevicesDestroy
<1>20. CASE ClassDestroy
  BY <1>20, <1>a, <1>b, SucceedsTyped DEF ClassDestroy
<1>21. CASE KobjectCreate
  BY <1>21, <1>a, <1>b, SucceedsTyped, FailsTyped DEF KobjectCreate
<1>22. CASE CreateGroup
  BY <1>22, <1>a, <1>b, SucceedsTyped, FailsTyped DEF CreateGroup,
    GroupFails
<1>23. CASE KobjectPut
  BY <1>23, <1>a, <1>b, SucceedsTyped DEF KobjectPut
<1>24. CASE UNCHANGED vars
  BY <1>24 DEF PcTypeOK, vars
<1>25. QED
  BY <1>1, <1>2, <1>3, <1>4, <1>5, <1>6, <1>7, <1>8, <1>9, <1>10, <1>11,
    <1>12, <1>13, <1>14, <1>15, <1>16, <1>17, <1>18, <1>19, <1>20, <1>21,
    <1>22, <1>23, <1>24 DEF Next, Running, DriverStep, AdcStep, GpioStep,
    HwStep, Halted

LEMMA RestTypeOKStep ==
  ASSUME RestTypeOK, [Next]_vars
  PROVE  RestTypeOK'
<1> USE RegistryAssumption
<1>1. ASSUME NEW m \in Modules, Insmod(m) PROVE RestTypeOK'
  BY <1>1 DEF Goes, Insmod, RestTypeOK, RegistryTypeOK, Modules, Drivers,
    Irqs, registry, driver
<1>2. ASSUME NEW m \in Modules, Rmmod(m) PROVE RestTypeOK'
  BY <1>2 DEF Goes, FirstExitStep, Rmmod, RestTypeOK, RegistryTypeOK,
    Modules, Drivers, Irqs, registry, driver
<1>3. ASSUME NEW m \in Drivers, AllocRegion(m) PROVE RestTypeOK'
  BY <1>3 DEF Alloc, Succeeds, Fails, Goes, AllocRegion, RestTypeOK,
    RegistryTypeOK, Modules, Drivers, Irqs, registry, driver
<1>4. ASSUME NEW m \in Drivers, CdevAdd(m) PROVE RestTypeOK'
  BY <1>4 DEF Succeeds, Fails, Goes, FirstExitStep, CdevAdd, RestTypeOK,
    RegistryTypeOK, Modules, Drivers, Irqs, registry, driver
<1>5. ASSUME NEW m \in Drivers, CdevDel(m) PROVE RestTypeOK'
  BY <1>5 DEF Succeeds, Goes, CdevDel, RestTypeOK, RegistryTypeOK, Modules,
    Drivers, Irqs, registry, driver
<1>6. ASSUME NEW m \in Drivers, UnregisterRegion(m) PROVE RestTypeOK'
  <2>1. regions' \in [Drivers -> 0..NumMajors]
    <3>1. regions[m] \in 0..NumMajors /\ regions \in [Drivers -> 0..NumMajors]
      BY <1>6 DEF RestTypeOK, RegistryTypeOK
    <3>2. (IF regions[m] > 0 THEN regions[m] - 1 ELSE 0) \in 0..NumMajors
      BY <3>1
    <3>3. QED  BY <1>6, <3>1, <3>2 DEF UnregisterRegion, Unregister
  <2>2. QED  BY <1>6, <2>1 DEF UnregisterRegion, RestTypeOK, RegistryTypeOK, Modules, Drivers, Irqs, registry, driver
<1>7. ASSUME NEW m \in Drivers, OpenOrClose(m) PROVE RestTypeOK'
  BY <1>7 DEF OpenFile, CloseFile, OpenOrClose, RestTypeOK, RegistryTypeOK,
    Modules, Drivers, Irqs, registry, driver
<1>8. CASE RequestIrq("TS", "irq TS", "irq GPI_01")
  BY <1>8 DEF RequestIrq, Succeeds, Fails, Goes, RestTypeOK, RegistryTypeOK,
    Modules, Drivers, Irqs, registry, driver
<1>9. CASE RequestIrq("GPI_01", "irq GPI_01", "sema")
  BY <1>9 DEF RequestIrq, Succeeds, Fails, Goes, RestTypeOK, RegistryTypeOK,
    Modules, Drivers, Irqs, registry, driver
<1>10. CASE SemaInit
  BY <1>10 DEF SemaInit, Succeeds, Goes, RestTypeOK, RegistryTypeOK,
    Modules, Drivers, Irqs, registry, driver
<1>11. CASE FreeIrq("TS", "free TS", "free GPI_01")
  BY <1>11 DEF FreeIrq, Succeeds, Goes, RestTypeOK, RegistryTypeOK, Modules,
    Drivers, Irqs, registry, driver
<1>12. CASE FreeIrq("GPI_01", "free GPI_01", "absent")
  BY <1>12 DEF FreeIrq, Succeeds, Goes, RestTypeOK, RegistryTypeOK, Modules,
    Drivers, Irqs, registry, driver
<1>13. CASE GpInterrupt
  BY <1>13 DEF GpInterrupt, TryDown, RestTypeOK, RegistryTypeOK, Modules,
    Drivers, Irqs, registry, driver
<1>14. CASE AdcInterrupt
  <2>1. converting' \in BOOLEAN /\ crashed' \in BOOLEAN /\ stale' \in BOOLEAN
    BY <1>14 DEF AdcInterrupt, ValueRead, RestTypeOK
  <2>2. semaphore' \in Int /\ UNCHANGED <<registry, used, total>>
    BY <1>14 DEF AdcInterrupt, RestTypeOK
  <2>3. QED  BY <2>1, <2>2 DEF RestTypeOK, RegistryTypeOK, Modules, Drivers, Irqs, registry, driver
<1>15. CASE ConversionLost
  BY <1>15 DEF ConversionLost, RestTypeOK, RegistryTypeOK, Modules, Drivers,
    Irqs, registry, driver
<1>16. CASE ClassCreate
  BY <1>16 DEF ClassCreate, Succeeds, Fails, Goes, RestTypeOK,
    RegistryTypeOK, Modules, Drivers, Irqs, registry, driver
<1>17. CASE DeviceCreate
  <2>1. total \in 0..(NumDevices - 1) /\ total' \in 0..NumDevices
    BY <1>17 DEF DeviceCreate, RestTypeOK
  <2>2. devices' \subseteq 0..(NumDevices - 1)
    BY <1>17, <2>1 DEF DeviceCreate, RestTypeOK, RegistryTypeOK
  <2>3. QED  BY <1>17, <2>1, <2>2 DEF DeviceCreate, RestTypeOK, RegistryTypeOK, Modules, Drivers, Irqs, registry, driver
<1>18. CASE DevicesCreated
  BY <1>18 DEF DevicesCreated, Status, Succeeds, Goes, RestTypeOK,
    RegistryTypeOK, Modules, Drivers, Irqs, registry, driver
<1>19. CASE DevicesDestroy
  BY <1>19 DEF DevicesDestroy, Succeeds, Goes, RestTypeOK, RegistryTypeOK,
    Modules, Drivers, Irqs, registry, driver
<1>20. CASE ClassDestroy
  BY <1>20 DEF ClassDestroy, Succeeds, Goes, RestTypeOK, RegistryTypeOK,
    Modules, Drivers, Irqs, registry, driver
<1>21. CASE KobjectCreate
  BY <1>21 DEF KobjectCreate, Succeeds, Fails, Goes, RestTypeOK,
    RegistryTypeOK, Modules, Drivers, Irqs, registry, driver
<1>22. CASE CreateGroup
  BY <1>22 DEF CreateGroup, GroupFails, Succeeds, Fails, Goes, RestTypeOK,
    RegistryTypeOK, Modules, Drivers, Irqs, registry, driver
<1>23. CASE KobjectPut
  BY <1>23 DEF KobjectPut, Succeeds, Goes, RestTypeOK, RegistryTypeOK,
    Modules, Drivers, Irqs, registry, driver
<1>24. CASE UNCHANGED vars
  BY <1>24 DEF RestTypeOK, RegistryTypeOK, Modules, Drivers, Irqs, vars,
    registry, driver
<1>25. QED
  BY <1>1, <1>2, <1>3, <1>4, <1>5, <1>6, <1>7, <1>8, <1>9, <1>10, <1>11,
    <1>12, <1>13, <1>14, <1>15, <1>16, <1>17, <1>18, <1>19, <1>20, <1>21,
    <1>22, <1>23, <1>24 DEF Next, Running, DriverStep, AdcStep, GpioStep,
    HwStep, Halted

LEMMA FilesInvStep ==
  ASSUME Typed, FilesInv, AdcRegistered, GpioInv, PwmInv, [Next]_vars
  PROVE  FilesInv'
<1> USE RegistryAssumption
<1>1. ASSUME NEW m \in Modules, Insmod(m) PROVE FilesInv'
  BY <1>1 DEF Goes, Insmod, FilesInv, Unloading, Typed, Modules, Drivers,
    registry, driver
<1>2. ASSUME NEW m \in Modules, Rmmod(m) PROVE FilesInv'
  BY <1>2 DEF Rmmod, Goes, FilesInv, Typed, Modules, Drivers, registry
<1>3. ASSUME NEW m \in Drivers, AllocRegion(m) PROVE FilesInv'
  BY <1>3 DEF Alloc, Succeeds, Fails, Goes, AllocRegion, FilesInv,
    Unloading, Typed, Modules, Drivers, registry, driver
<1>4. ASSUME NEW m \in Drivers, CdevAdd(m) PROVE FilesInv'
  <2>1. m \notin cdevs
    BY <1>4 DEF CdevAdd, Succeeds, Fails, Goes, AdcRegistered, GpioInv, PwmInv, Drivers
  <2>2. ~(files[m] > 0)
    BY <2>1 DEF FilesInv
  <2>3. QED  BY <1>4, <2>2 DEF CdevAdd, Succeeds, Fails, Goes, FilesInv, Typed, Modules, Drivers, registry
<1>5. ASSUME NEW m \in Drivers, CdevDel(m) PROVE FilesInv'
  BY <1>5 DEF Succeeds, Goes, CdevDel, FilesInv, Unloading, Typed, Modules,
    Drivers, registry, driver
<1>6. ASSUME NEW m \in Drivers, UnregisterRegion(m) PROVE FilesInv'
  BY <1>6 DEF Unregister, Succeeds, Goes, UnregisterRegion, FilesInv,
    Unloading, Typed, Modules, Drivers, registry, driver
<1>7. ASSUME NEW m \in Drivers, OpenOrClose(m) PROVE FilesInv'
  BY <1>7 DEF OpenFile, CloseFile, OpenOrClose, FilesInv, Unloading, Typed,
    Modules, Drivers, registry, driver
<1>8. CASE RequestIrq("TS", "irq TS", "irq GPI_01")
  BY <1>8 DEF RequestIrq, Succeeds, Fails, Goes, FilesInv, Unloading, Typed,
    Modules, Drivers, registry, driver
<1>9. CASE RequestIrq("GPI_01", "irq GPI_01", "sema")
  BY <1>9 DEF RequestIrq, Succeeds, Fails, Goes, FilesInv, Unloading, Typed,
    Modules, Drivers, registry, driver
<1>10. CASE SemaInit
  BY <1>10 DEF SemaInit, Succeeds, Goes, FilesInv, Unloading, Typed,
    Modules, Drivers, registry, driver
<1>11. CASE FreeIrq("TS", "free TS", "free GPI_01")
  BY <1>11 DEF FreeIrq, Succeeds, Goes, FilesInv, Unloading, Typed, Modules,
    Drivers, registry, driver
<1>12. CASE FreeIrq("GPI_01", "free GPI_01", "absent")
  BY <1>12 DEF FreeIrq, Succeeds, Goes, FilesInv, Unloading, Typed, Modules,
    Drivers, registry, driver
<1>13. CASE GpInterrupt
  BY <1>13 DEF GpInterrupt, TryDown, FilesInv, Unloading, Typed, Modules,
    Drivers, registry, driver
<1>14. CASE AdcInterrupt
  BY <1>14 DEF AdcInterrupt, ValueRead, FilesInv, Unloading, Typed, Modules,
    Drivers, registry, driver
<1>15. CASE ConversionLost
  BY <1>15 DEF ConversionLost, FilesInv, Unloading, Typed, Modules, Drivers,
    registry, driver
<1>16. CASE ClassCreate
  <2>1. "gpio" \notin cdevs
    BY <1>16 DEF ClassCreate, Succeeds, Fails, Goes, GpioInv
  <2>2. ~(files["gpio"] > 0)
    BY <2>1 DEF FilesInv, Drivers
  <2>3. QED  BY <1>16, <2>2 DEF ClassCreate, Succeeds, Fails, Goes, FilesInv, Typed, Modules, Drivers, registry
<1>17. CASE DeviceCreate
  <2>1. "gpio" \notin cdevs
    BY <1>17 DEF DeviceCreate, Succeeds, Fails, Goes, GpioInv
  <2>2. ~(files["gpio"] > 0)
    BY <2>1 DEF FilesInv, Drivers
  <2>3. QED  BY <1>17, <2>2 DEF DeviceCreate, Succeeds, Fails, Goes, FilesInv, Typed, Modules, Drivers, registry
<1>18. CASE DevicesCreated
  BY <1>18 DEF DevicesCreated, Status, Succeeds, Goes, FilesInv, Unloading,
    Typed, Modules, Drivers, registry, driver
<1>19. CASE DevicesDestroy
  BY <1>19 DEF DevicesDestroy, Succeeds, Goes, FilesInv, Unloading, Typed,
    Modules, Drivers, registry, driver
<1>20. CASE ClassDestroy
  BY <1>20 DEF ClassDestroy, Succeeds, Goes, FilesInv, Unloading, Typed,
    Modules, Drivers, registry, driver
<1>21. CASE KobjectCreate
  BY <1>21 DEF KobjectCreate, Succeeds, Fails, Goes, FilesInv, Unloading,
    Typed, Modules, Drivers, registry, driver
<1>22. CASE CreateGroup
  BY <1>22 DEF CreateGroup, GroupFails, Succeeds, Fails, Goes, FilesInv,
    Unloading, Typed, Modules, Drivers, registry, driver
<1>23. CASE KobjectPut
  BY <1>23 DEF KobjectPut, Succeeds, Goes, FilesInv, Unloading, Typed,
    Modules, Drivers, registry, driver
<1>24. CASE UNCHANGED vars
  BY <1>24 DEF FilesInv, Unloading, Typed, Modules, Drivers, vars, registry,
    driver
<1>25. QED
  BY <1>1, <1>2, <1>3, <1>4, <1>5, <1>6, <1>7, <1>8, <1>9, <1>10, <1>11,
    <1>12, <1>13, <1>14, <1>15, <1>16, <1>17, <1>18, <1>19, <1>20, <1>21,
    <1>22, <1>23, <1>24 DEF Next, Running, DriverStep, AdcStep, GpioStep,
    HwStep, Halted

-----------------------------------------------------------------------------
LEMMA Typing == TypeOK => Typed /\ PcTypeOK /\ RestTypeOK
<1> USE RegistryAssumption
<1>1. TypeOK => PcTypeOK /\ RestTypeOK
  BY DEF TypeOK, PcTypeOK, RestTypeOK, Labels
<1>2. TypeOK => regions \in [Drivers -> Nat] /\ files \in [Drivers -> Nat]
  BY DEF TypeOK, RegistryTypeOK
<1>3. TypeOK => handlers \subseteq {"TS", "GPI_01"} /\ total \in Nat /\ semaphore \in Int
  BY DEF TypeOK, RegistryTypeOK, Irqs
<1>4. TypeOK => converting \in BOOLEAN /\ crashed \in BOOLEAN /\ stale \in BOOLEAN
  BY DEF TypeOK
<1>5. QED  BY <1>1, <1>2, <1>3, <1>4 DEF Typed, PcTypeOK

LEMMA Retyping == PcTypeOK /\ RestTypeOK /\ SemaphoreRange => TypeOK
<1>1. semaphore \in Int /\ semaphore >= -1 /\ semaphore <= 2 => semaphore \in -1..2
  OBVIOUS
<1>2. QED  BY <1>1 DEF PcTypeOK, RestTypeOK, SemaphoreRange, TypeOK, Labels

LEMMA InitInv == Init => IInv
<1> SUFFICES ASSUME Init PROVE IInv
  OBVIOUS
<1> USE RegistryAssumption
<1>1. PcTypeOK
  BY LabelsContain DEF Init, PcTypeOK
<1>2. RestTypeOK
  <2>1. RegistryTypeOK
    BY DEF Init, RegistryInit, RegistryTypeOK
  <2>2. used \in InUse /\ total \in 0..NumDevices /\ semaphore \in Int
    BY DEF Init
  <2>3. converting \in BOOLEAN /\ crashed \in BOOLEAN /\ stale \in BOOLEAN
    BY DEF Init
  <2>4. QED  BY <2>1, <2>2, <2>3 DEF RestTypeOK
<1>3. SemaphoreRange /\ NoneBeforeInit /\ CrashOnlyIfStale /\ SemaphoreCounts
  BY DEF Init, SemaphoreRange, NoneBeforeInit, CrashOnlyIfStale, SemaphoreCounts,
         AdcInit, AdcExit, Modules
<1>4. FilesInv /\ AdcRegistered
  BY DEF Init, RegistryInit, FilesInv, AdcRegistered, AdcHolding, AdcInit, AdcExit,
         Drivers, Modules
<1>5. GpioInv
  BY DEF Init, RegistryInit, GpioInv, Drivers, Modules
<1>6. PwmInv /\ HwInv
  BY DEF Init, RegistryInit, PwmInv, HwInv, Drivers, Modules
<1>7. QED  BY <1>1, <1>2, <1>3, <1>4, <1>5, <1>6, Retyping DEF IInv, AdcSemaphore

LEMMA StepInv == IInv /\ [Next]_vars => IInv'
<1> SUFFICES ASSUME IInv, [Next]_vars PROVE IInv'
  OBVIOUS
<1>1. Typed /\ PcTypeOK /\ RestTypeOK
  BY Typing DEF IInv
<1>2. AdcRegistered' /\ AdcSemaphore'
  BY <1>1, AdcRegisteredStep, AdcSemaphoreStep DEF IInv
<1>3. GpioInv' /\ PwmInv' /\ HwInv'
  BY <1>1, GpioInvStep, PwmInvStep, HwInvStep DEF IInv
<1>4. FilesInv'
  BY <1>1, FilesInvStep DEF IInv
<1>5. PcTypeOK' /\ RestTypeOK'
  BY <1>1, PcTypeOKStep, RestTypeOKStep
<1>6. (PcTypeOK /\ RestTypeOK /\ SemaphoreRange => TypeOK)'
  BY Retyping, PTL
<1>7. QED  BY <1>2, <1>3, <1>4, <1>5, <1>6 DEF IInv, AdcSemaphore

LEMMA Invariance == Spec => []IInv
BY InitInv, StepInv, PTL DEF Spec

(* Type correctness, for every value of the constants.                     *)
THEOREM TypeCorrect == Spec => []TypeOK
<1>1. IInv => TypeOK
  BY DEF IInv
<1>2. QED  BY <1>1, Invariance, PTL

(* Whatever fails while a driver is loaded or unloaded, the kernel never   *)
(* keeps a character device, an open file or an interrupt handler of a     *)
(* driver that is gone.                                                    *)
THEOREM DanglingNever == Spec => []NoDanglingCode
<1>1. IInv => NoDanglingCode
  <2> SUFFICES ASSUME IInv PROVE NoDanglingCode
    OBVIOUS
  <2>1. ASSUME NEW m \in Drivers, pc[m] = "absent" PROVE m \notin cdevs
    BY <2>1 DEF IInv, AdcRegistered, GpioInv, PwmInv, Drivers
  <2>2. ASSUME NEW m \in Drivers, pc[m] = "absent" PROVE files[m] = 0
    BY <2>1, <2>2, Typing DEF IInv, FilesInv, Typed
  <2>3. pc["adc"] = "absent" => handlers = {}
    BY DEF IInv, AdcRegistered
  <2>4. QED  BY <2>1, <2>2, <2>3 DEF NoDanglingCode
<1>2. QED  BY <1>1, Invariance, PTL

(* A module that is gone holds nothing, unless it was loaded while cdev_add *)
(* (ADC) or alloc_chrdev_region (GPIO) failed.                             *)
THEOREM LeftoversExplained == Spec => []AbsentHoldsNothing
<1>1. IInv => AbsentHoldsNothing
  <2> SUFFICES ASSUME IInv PROVE AbsentHoldsNothing
    OBVIOUS
  <2>1. pc["adc"] = "absent" /\ regions["adc"] > 0 => <<"adc", "cdev">> \in failed
    BY DEF IInv, AdcRegistered, AdcHolding
  <2>2. pc["gpio"] = "absent" => regions["gpio"] = 0 /\ class # "loaded"
    BY DEF IInv, GpioInv
  <2>3. /\ class \in {"loaded", "left", "none"}
        /\ class = "none" => devices = {}
        /\ class = "left" => <<"gpio", "alloc">> \in failed
    BY DEF IInv, GpioInv, TypeOK, RegistryTypeOK
  <2>4. /\ pc["pwm"] = "absent" => regions["pwm"] = 0
        /\ pc["hw"] = "absent" => kobject = {}
    BY DEF IInv, PwmInv, HwInv
  <2>5. QED  BY <2>1, <2>2, <2>3, <2>4 DEF AbsentHoldsNothing
<1>2. QED  BY <1>1, Invariance, PTL

(* A module whose init function succeeded has registered everything.       *)
THEOREM LoadsComplete == Spec => []LoadedIsComplete
<1>1. IInv => LoadedIsComplete
  <2> SUFFICES ASSUME IInv PROVE LoadedIsComplete
    OBVIOUS
  <2>1. ASSUME NEW m \in Drivers, pc[m] = "loaded"
        PROVE  m \in cdevs /\ regions[m] > 0
    <3>1. CASE m = "adc"
      BY <2>1, <3>1 DEF IInv, AdcRegistered, AdcHolding
    <3>2. CASE m = "gpio"
      BY <2>1, <3>2 DEF IInv, GpioInv
    <3>3. CASE m = "pwm"
      BY <2>1, <3>3 DEF IInv, PwmInv
    <3>4. QED  BY <3>1, <3>2, <3>3 DEF Drivers
  <2>2. pc["gpio"] = "loaded" => class = "loaded" /\ devices = 0..(NumDevices - 1)
    BY DEF IInv, GpioInv
  <2>3. pc["adc"] = "loaded" => semaphore >= 0
    BY DEF IInv, AdcSemaphore, SemaphoreRange
  <2>4. pc["hw"] = "loaded" => kobject = {"dir", "file"}
    BY DEF IInv, HwInv
  <2>5. QED  BY <2>1, <2>2, <2>3, <2>4 DEF LoadedIsComplete
<1>2. QED  BY <1>1, Invariance, PTL

(* The late sema_init is dangerous only to a conversion of an earlier load. *)
THEOREM CrashExplained == Spec => []CrashOnlyIfStale
<1>1. IInv => CrashOnlyIfStale
  BY DEF IInv, AdcSemaphore
<1>2. QED  BY <1>1, Invariance, PTL

(* Without one, the loaded driver's semaphore counts right.                *)
THEOREM SemaphoreRight == Spec => []SemaphoreCounts
<1>1. IInv => SemaphoreCounts
  BY DEF IInv, AdcSemaphore
<1>2. QED  BY <1>1, Invariance, PTL
=============================================================================
