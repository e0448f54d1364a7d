# A TLA+ verification of the EmbeddedSystems6 drivers

The repository holds the kernel drivers and user programs a student team wrote
for an LPC3250 board: an ADC driver with two interrupts, a GPIO driver, a PWM
driver, a "peek and poke" sysfs module and two I2C programs. This directory
models the drivers and programs in TLA+, checks them with TLC on small
instances and proves the central results with TLAPS for all instances. Paths below are relative to
`src/`.

## 1. Inventory

**ADC driver** (`ADC/src/adc.c`, described in `ADC/ADC.pdf`).
*State:* the semaphore `channel_conversion`; the globals `adc_channel`,
`adc_values[]`, `current_task`; the converter's registers ADC_SELECT, ADC_CTRL
and ADC_VALUE; per open file `data->channel`, `data->buffer`, `data->length`
and `*offset`.
*Operations:* `dev_open`, `dev_release`, `dev_read`; the handlers
`adc_interrupt` (end of conversion) and `gp_interrupt` (button EINT0).
*Interaction:* readers and the button compete for one semaphore. A reader
starts the converter and sleeps; `adc_interrupt` stores the value in a global
and either wakes the reader that `current_task` names or, when that is NULL,
gives back the semaphore the button took.
*Hard:* every statement of `dev_read` can be interrupted; the handler guesses
from one pointer whom it serves; the wake-up may come before the sleep; a
signal ends the sleep early.
*Correct if:* one conversion at a time, an answer is the reader's own and
fresh, the semaphore is balanced, every read returns.

**ADC driver, loading and unloading** (`adc.c:83-117, 170-175, 254-294`).
*State:* device numbers, the character device, the two interrupt handlers, the
semaphore before and after `sema_init`. *Operations:* `init_adc_module`,
`adc_init`, `adc_exit`, `cleanup_adc_module`. *Hard:* every registration may
fail, a failing `request_irq` is only logged, the semaphore is initialized after
the device files and the interrupts are live, and a conversion can outlive the
module. *Correct if:* no handler or device outlives the module, a failed load
leaves nothing registered, and after a load the semaphore counts right.

**ADC measurement variant** (`ADC/src/adc-testing.c`): the driver without its
semaphore and with a copy of the GPIO code that toggles pins, built to measure
interrupt latency.

**GPIO port tables** (`GPIO/src/gpio.c:3-162`): which connector pin is which
bit of which port register, and the numbering of device files made from it.
*Correct if:* no two pins share a bit or a device file.

**GPIO driver** (`GPIO/src/file.c`, `gpio.c`, `GPIO/GPIO.pdf`).
*State:* port registers; per open file its buffer and `*offset`.
*Operations:* open, release, read and write of a direction or a value file.
*Interaction:* processes meet only in the registers, which have SET and CLR
addresses, so that a write needs no read before it; ports 2 and 3 share DIR.
*Hard:* a read of a value is two register reads; `*offset` is common to reads
and writes and never goes back. *Correct if:* a write changes its own pin only
and applies a character of its own file; a read answers with a level the pin had.

**GPIO driver, loading and unloading** (`file.c:194-283`). *State:* device
numbers, a class, one device per pin and function, `total_allocated_devices`.
*Operations:* `gpio_init`, `gpio_exit`. *Hard:* the result of
`alloc_chrdev_region` is looked at only after all devices are created, and the
path taken then undoes none of them. *Correct if:* as for the ADC driver.

**PWM arithmetic** (`PWM/src/pwm.c`): the search for clock settings, the
frequency they give, the duty cycle in 255ths. *Correct if:* the settings found
fit the registers, and conversions there and back agree.

**PWM driver** (`PWM/src/file.c`, `pwm.c`, `PWM/PWM.pdf`).
*State:* the flag `deviceOpened`, one global `kernel_buffer`, two control
registers and one clock register for both PWMs.
*Operations:* open, release, read and write of six device files.
*Interaction:* the settings share registers, which are read, modified and
written back; all calls share one buffer; the flag is to let in one process at
a time. *Hard:* the flag is tested and set in two steps; a second call through
one open file sees the offset and the buffer the first one left. *Correct if:*
one opener, no setting lost, what is read back is what was written. Loading
and unloading (`file.c:152-189`) as for the others.

**Peek and poke** (`PeekAndPoke/assignment1-sys/KernelModule-1.c`, the same
file again in `assignment1-lubuntu`): a sysfs file whose store runs a command
on memory and leaves the output in one buffer for the next show. *Hard:* the
buffer is common to all users, between store and show and during a command.
*Correct if:* registers are written as somebody's command says, and a user who
is alone gets its answer. Loading makes a directory and a file in sysfs.

**I2C bus tool** (`I2C/assignment2-hw/main.c`).
*State:* the parsed command; on the other side of the bus the registers of a
device and its register pointer. *Operations:* parse, select a register, read or
write bytes. *Interaction:* selection and transfer are two messages; any other
program may use the bus between them. *Hard:* either message may fail or break
off; the length is a `char`; the register asked for is not the one selected.
*Correct if:* a read prints what was asked for (it does not, see section 5) or
at least what the device holds in a row from one register on, and only a write
changes a device with two-byte register numbers. At a device with one-byte
numbers, like the dimmer, the second byte of every selection is stored.

**I2C LED blinker** (`I2C/assignment2-app/main.c`).
*State:* the parameters, which half of the period it is in, the flag `stop`; on
the bus an LED dimmer. *Operations:* set-up, two selector messages per pass,
`nanosleep`, the signal handler. *Hard:* nobody looks at what became of a
message; a signal may come anywhere. *Correct if:* between passes the selected
LEDs are all on or all off and the others off, and the program ends after a
signal.

**Not program logic of this repository:** the lm-sensors headers of the I2C
programs and the hello-world program `PeekAndPoke/assignment1-userspace`.

`PROJECT.json` lists these components with their status, and under `hazards`
each place in the code that is hard to test, with the properties that watch it.

## 2. Modules

| module | stands for | kind |
|---|---|---|
| `AdcDriver` | `adc.c:119-252`, the kernel's semaphore and `schedule()`, the converter | detailed model, properties |
| `AdcService` | what readers may expect of the ADC driver | abstract specification |
| `AdcImplementsService` | refinement mapping from `AdcDriver` to `AdcService` | |
| `AdcInvariant` | inductive invariants of `AdcDriver` | |
| `AdcDriverProofs`, `AdcServiceProofs`, `AdcSignalProofs` | theorems about `AdcDriver`: safety, the refinement, signals | TLAPS |
| `GpioPorts` | the tables of `gpio.c` and `get_port_mapping` | operators |
| `GpioDriver` | `GPIO/src/file.c` and the register functions of `gpio.c` | model, properties |
| `GpioService` | what users may expect of the GPIO driver | abstract specification |
| `GpioImplementsService` | refinement mapping from `GpioDriver` to `GpioService` | |
| `GpioDriverProofs` | theorems about all of these: the tables, safety, the refinement | TLAPS |
| `PwmClock` | the arithmetic of `pwm.c` | operators |
| `PwmDriver` | `PWM/src/file.c` and the register functions of `pwm.c` | model, properties |
| `PwmService` | what users may expect of the PWM driver | abstract specification |
| `PwmImplementsService` | refinement mapping from `PwmDriver` to `PwmService` | |
| `PwmInvariant` | inductive invariants of `PwmDriver` | |
| `PwmDriverProofs` | theorems about all of these: arithmetic, safety, the refinement | TLAPS |
| `PeekPoke` | `KernelModule-1.c:58-177` | model, properties |
| `PeekPokeProofs` | theorems about it | TLAPS |
| `KernelRegistry` | the kernel's tables of device numbers, devices, handlers, classes | external state and operators |
| `ModuleLoading` | the init and exit functions of the four kernel modules | model, properties |
| `ModuleLoadingProofs` | theorems about it | TLAPS |
| `I2cSlave` | the bus and the devices on it | external state and operators |
| `I2cTool` | `assignment2-hw/main.c` | model |
| `I2cBlink` | `assignment2-app/main.c` | model |
| `I2cBus` | several runs of the tool and the blinker on one bus | composition, properties |
| `I2cBusProofs` | theorems about the four | TLAPS |
| `MCAdcDriver`, `MCGpioDriver`, `MCPwmDriver`, `MCPeekPoke`, `MCModuleLoading`, `MCI2cBus` | instances for TLC | |

`GpioDriver` extends `GpioPorts`, `PwmDriver` extends `PwmClock`,
`ModuleLoading` extends `KernelRegistry`, and `I2cBus` extends `I2cTool` and
`I2cBlink`, which both extend `I2cSlave`. At work the four kernel modules share
no state; what they share, the kernel's tables, is in `ModuleLoading`, whose
`LoadedIsComplete` is what the `Init` of the other models takes for granted.

### AdcDriver

The LPC3250 has one core and both handlers are registered with `IRQF_DISABLED`
(`adc.c:108, 113`): a handler is one atomic action. `dev_read` runs in process
context, so each of its statements that touches shared state is an action and
`pc[r]` names the next one: `Down` (197), `SetCurrentTask` (199),
`SetCurrentState` (200), `SelectChannel`, `SetAdcChannel`, `Strobe` (the three
effects of `adc_start`, 119-138), `Schedule` (202), `ReadValue` (203),
`UpAfterRead` (205), `Copy` (207-217). `GpInterrupt` contains the whole of
`adc_start(0)`.

Modelled from how the code uses them, and marked external: the semaphore (up()
gives it to the first waiter; a waiter in down() ignores signals), `schedule()`
(returns once the task is running again, or at once if a signal is pending),
the converter (a start during a conversion is ignored or starts anew: the
model allows both). Signals are delivered to readers inside `dev_read`, at most
`MaxSignals` of them, and are taken on the way back to user mode.

Data is abstracted to a few levels per channel. `seen[r]` is a history variable:
the levels reader r's channel had between its start of the converter and its
look at `adc_values`. `gpHeld` is one too: the button took the semaphore and no
interrupt has given it back. Each reader has an open file of its own.

### AdcService and the refinement

The service knows one owner at a time (a reader, or the button), and steps
`Ask`, `Serve`, `Measure`, `Answer`, `Yield`, `Return`: an answer is a level
seen between `Measure` and `Answer`. `AdcImplementsService` maps labels to
phases, and the owner to `gpHeld` or the reader between down and up. The
service says nothing of tasks, registers or interrupts.

### GpioDriver

Registers are sets of bits per port. A write is `Write` (the user's bytes go to
the file's buffer) and `Apply` (one store to a SET or CLR register); a write that
performs nothing, because it has no bytes or its copy faults, is `WriteNothing`.
A read of a value is `ChooseRegister` (reads DIR) and `GetState` (reads INP_STATE
or OUTP_STATE), as `get_port_state` does. A message is one character, copied or
not, so `*offset` is 0 or 1: once a call, write or read, has moved it, later
writes copy nothing and apply the character that moved it (`file.c:179-189`).
`first` is a history variable and names this character. Hardware assumptions: INP_STATE shows the level at
the pin, an output drives its pin, and OUTP_STATE shows the latch, also for port
2, whose OUTP_STATE address is an educated guess that GPIO.pdf reports as
tested. The multiplexer (`configure_gpio`) is a constant: pins are GPIO.

### GpioService and the refinement

The service knows pins instead of bits: which are outputs, whose latch is high,
which the outside pulls high. A file carries one character, the first that is
written or told through it (`carried`); every write sets one pin to it in one step
(`Apply`), and a file that carries one is read no more. A direction is told in
one step (`TellDirection`). A read of a value has two, `Look` and `TellLevel`,
and answers with the level the pin has at the second, or, only if the direction
changed in between, perhaps with the latch of a pin that is an input by now: the
finding of `gpio_stale_direction` and nothing worse. Many processes may be in at
once. `GpioImplementsService` maps registers to sets of pins (`Outputs`, `High`),
`*offset` and the buffer to `carried`, and `Watching`, as far as it is `calm`, to
`steady`.

### PwmDriver

`dev_open` is `TestOpened` and `SetOpened`, and processes are preempted anywhere,
also between these two. `overlapped` is a history variable: a process passed the
test while another had passed it and not yet set the flag. The model says what
the code does after that, too, but the properties (other than `TypeOK`) speak of
the behaviour up to it, since from then on nothing protects the buffer and the
registers. A write is
`Write`, the reads of the registers into local copies, the change, and the
stores, each an action; a read likewise up to `PrintAnswer` and `Copy`. The
model keeps what `*offset` does: a second write through one open file copies
nothing and processes the buffer again, whatever a read has printed there since.
`get_optimal_clocks` for frequency 0 returns what the stack held: any member of
`Garbage`.

Abstractions: messages are numbers of one length, so that a second write of
another length, which copies some bytes behind the first, is left out (the
component's status is "partly"). Written duty cycles stay below `MaxPercent`,
where the 32-bit product would wrap; `-2^63` millihertz, whose negation
overflows, is left out too. Of a number above the bound, which an overlap can
leave in the buffer, `StepsOf` takes any result.

### PwmService and the refinement

The service has no buffer, registers or steps in between: one process uses the
driver at a time (`Enter`, `Leave`), a number written (`Write`) becomes the value
of that file's setting in one step (`Apply`), and a read (`Read`) tells the
setting. A second write through one open file may apply any number, and a
frequency is told with PWM 1's divider: the service promises what the code
keeps. It promises nothing from the moment on in which two processes open a file
at the very same time (`Collide`, the image of `overlapped`). `PwmImplementsService` maps the labels to phases and the registers to
settings. A wanted frequency goes to two registers, one after the other; it
counts from the first store on, so that the clock register is mapped together
with what a process is about to store there (`ClockToCome`).

### PeekPoke

The buffer is a row of cells, each a word or a number, and a string ends at the
first end cell, as in C: what a shorter string leaves behind is still there.
`sysfs_store` is `Store` (the copy of the command), `Refuse`, `ParseWrite` or
`ParseRead` (what `process_buffer` makes of it), `WriteRegister`, and
`ReadRegister` and `AppendValue` for each round of the loop: `ioremap` and
`iounmap` may sleep, so that other users run between these, and both register
functions may find that `ioremap` failed. With `Preemptible` false nobody runs
between the copy and its parsing, where nothing sleeps.

Abstractions: a printed number takes one cell, so that the nine characters per
number become one cell per number; every command has three parts, which leaves
out how `used_buffer_size` is shared; addresses count registers, and
`NumAddresses` stands for 2^30. What the registers hold is not kept: a read
gives any of `Words`.

### ModuleLoading

`pc[m]` is the next registration of module m's init function or the next
deregistration of its exit function; each is one action, with a disjunct for its
failure that goes where the code's error path goes. `Insmod` gives the module
new memory, so that `total_allocated_devices` and the semaphore are fresh, while
what the kernel's tables hold stays. `Rmmod` is refused while a file is open, as
the kernel does by counting references; it does not count interrupts. Between
any two steps processes open and close device files, and the button and the
converter interrupt: `GpInterrupt` and `AdcInterrupt` are those of `AdcDriver`
as far as the semaphore is concerned, when no reader is inside. A semaphore
without `sema_init` is zero: `down_trylock` finds it taken, and `up` follows
null pointers, so the kernel stops (`crashed`).

Modelled from how the code uses it: `KernelRegistry`. A class of the same name
cannot be created twice; a region can be refused when there are no more major
numbers (`NumMajors`). `failed` and `stale` are history variables, for the
properties that say which leftovers a failure explains.

### I2cSlave, I2cTool, I2cBlink, I2cBus

A device has registers and a pointer; the first byte of a message it receives,
or the first two, set the pointer, and the rest is stored from there on. Every
message may break off after any prefix, which the sender is told. `calm` is a
history variable: the master has been alone at the device since its last
selection and no message of it broke off.

A run of the tool is `StartRun` (parsing, `open`, `ioctl`), `SelectRegister`, and
`WriteBytes` or `ReadBytes`. The selection is what the code sends: the two bytes
of the address of the *device* (`main.c:256, 260` pass it), low byte first;
`register_start` is parsed and not used. `Length` is modulo 256, as a `char` is.

The blinker is `StartBlinking`, `PrepareLeds`, `WriteSelector` twice per pass,
`Wake`, and `Inthand` (the signal) at any moment. It does not learn that a
message broke off. How long it sleeps is left out.

## 3. Runs

| run | instance | distinct states | shows |
|---|---|---|---|
| `adc_core` | 2 readers, 2 channels, 2 levels, button, no signals, fair | 406,008 | safety and liveness of the ADC driver, its inductive invariant, and that it implements `AdcService` |
| `adc_signals` | 3 readers, 3 signals, no button | 193,822 | signals cannot wedge the driver |
| `adc_signal_leak` | 2 readers, 1 signal, button, fair | violation | one signal makes the button keep the semaphore for ever |
| `gpio_device` | 2 processes, files of two pins of ports 2 and 3 | 248,048 | no write touches another pin, every write applies the character of its own file, calm reads are current, and that the driver implements `GpioService` |
| `gpio_stale_direction` | the same | violation | a read that is preempted between its two register reads, while the pin becomes an input and its latch is written, answers with a level the pin never had |
| `gpio_second_write` | the same | violation | a second write through one open file repeats the first |
| `pwm_device` | 2 processes, 4 files of both PWMs, up to an overlap in `dev_open` | 94,352 | one opener unless two overlap in `dev_open`, settings kept, read back what was written, inductive invariant, and that it implements `PwmService` |
| `pwm_readback` | the same, one duty cycle | violation | PWM 2's frequency is computed from PWM 1's divider |
| `module_loading` | pairs of modules, 2 major numbers, 2 devices, 1 open file each | 684,401 | nothing dangles after an unload, only two failures leak, the semaphore counts right after a load |
| `i2c_bus` | 2 processes with the tool, the blinker, an EEPROM and the dimmer, fair | 240,945 | reads print what the device holds from one register on, only writes change a device with two-byte register numbers, LEDs stay in step, the blinker ends |
| `i2c_register` | the same, 11 registers, not fair | violation | a read prints neither the register nor the length it was asked for |
| `peek_poke` | 2 users, 9 commands, 5 registers, 3 of them fit the buffer | 2,271,417 | registers are written as commanded only; a user who is alone is answered what was asked |

**Bounds, and why they are enough.** `Readers`: two and the button are three
clients of one semaphore, so that one can overtake a waiter while another is
inside; that nobody does so is proved for any number (`FirstComeFirstServed`).
Three in `adc_signals`, for three stages of confusion. `NumChannels = 2`:
channel 0, which the button uses, and another one; the code treats all others
alike. `Levels = {0, 1}`: an old and a new value can be told apart; one level is
enough where no property looks at values. `MsgLength = 2`: a copy can be
partial. `MaxSignals`: each reader once. `Minors = {16, 17, 42, 43}`: the
direction and value files of the first pins of ports 2 and 3, which share the
DIR register and would share a bit without the offset of port 3's table (the
mutant for `OnlyOwnPin`). PWM `Files`: all three functions of one PWM, for the
shared control register, and one frequency file of each, for the shared clock
register; the third function of PWM 2 would add nothing new. `Percents = {2,
101}`: a value that rounding lowers, and one above 100; the arithmetic for all
values is proved, not enumerated. `Requests = {0, 50000}`: the frequency for
which no setting is stored, and the document's Test A (50 Hz in millihertz).
`Garbage`: a stopped clock, whose divider is 0, and a running one. `CONSTRAINT
UpToOverlap` in the PWM runs: every state with an overlap is reached and
checked, but not continued from. What follows one has millions of states, and no
property but `TypeOK`, which is proved, says anything of them.
`MCPeekPoke!SomeCommands`: answers of every length that fits and one below and
above, one that reaches the end of the address space, two writes that differ in
both parts, and a command that does not parse; two users suffice for a store
between any two steps of another.
`NumMajors = 2`: one driver can be refused its numbers because another leaked
one. `NumDevices = 2`: a creation can fail first or last. `Pairs`: modules meet
only in the major numbers; the theorems hold for any set of modules together.
I2C: the EEPROM (two pointer bytes) at address 80 and the dimmer (one) at 96;
ten registers, the last of which, LS3, the blinker uses; a read of length 257,
which wraps to 1, from register 6, which the selection of the EEPROM does not
name (0x5000 does, 0 modulo 10 and 9 modulo 11); a byte 256, which is refused; writes to the EEPROM and, by
another process than the blinker, to one of its selectors. 25 percent makes the
mode PWM0; the 100 percent branch of `DutyCycles` is not exercised.

**Symmetry** permutes readers, processes or users, which the specifications do
not tell apart (`CHOOSE` picks only among files and pins, or from a singleton).
Runs with liveness use none.

**Deadlock** is checked everywhere but in `adc_signals`: there, signals can
leave every reader asleep in turn with nothing left to happen while the
semaphore is free, in the bounded model only because no new process arrives.

**Fairness** (`AdcDriver!Fairness`): weak fairness of each reader's steps inside
`dev_read` (the scheduler runs every runnable task), of the end of a conversion
and of its interrupt (the hardware). A reader that sleeps or waits is not
enabled, so that none of this assumes a wake-up. Opening, reading, releasing,
the button and signals have no fairness: nobody has to do them.
`I2cBus!Fairness`: weak fairness of the blinker's own steps, which are never
blocked (a message ends, whole or not, and `nanosleep` returns). Nobody has to
start a program or to send a signal.

**What the signals change.** With a signal `OneConversionAtATime`, and with it
the refinement and the inductive invariant, fail: the reader leaves its
conversion behind, and the next one strobes the converter while it runs.
`EveryReadReturns` fails too, even without the button: the left-over interrupt
consumes the next reader's `current_task` early. What remains is
`NeverWedged` (without the button), `NobodyOvertakes` and type correctness, all
three proved.

**What preemption changes.** Where a model relies on a kernel that does not
preempt system calls, it says so. The ADC and GPIO models rely on nothing: a
process can be preempted at every step, and the violation of
`gpio_stale_direction` needs that, between two adjacent register reads. Nor does
the PWM model: there `OneOpener` says that preemption between test and set of
`deviceOpened` is the only way for two processes to get in, and what else is
checked and proved holds until then. The peek and poke run does: with
`Preemptible`, `OnlyCommandedWrites` fails, as the command of another user can
be in the buffer when `process_buffer` parses it. And when users overlap, what a show answers may be made of several
answers: `AloneAnswered` says what holds for the one who is alone.

## 4. Proofs

All proofs are checked by tlapm with Z3, Zenon and LS4.

**ADC.** `TypeCorrect` and `FirstComeFirstServed` need no assumption beyond the
constants': they hold with signals and the button. The argument for the latter
is `LineInv`: a queued reader is at the label "waiting", queued once, and the
semaphore is never free while somebody queues, since `up` hands it over.

The other theorems assume `MaxSignals = 0`. None of their properties is
inductive, since each leans on what another piece of shared state means, so
that `AdcInvariant!IInv` says it for all of them: who is inside (`MutexInv`,
`QueueInv`), whose conversion is in flight (`FlightInv`: only of a reader asleep
in `schedule()` or of the button, and an interrupt is never pending while the
converter works), whom `current_task` names (`TaskInv`: the reader about to
sleep, or asleep with its conversion in flight), that the converter,
`adc_channel` and the reader agree on the channel (`ChannelInv`), and where the
fresh value is on its way (`ValueInv`). `IndStep` proves it action by action
from lemmas for the parts that an action leaves alone. From it follow
`SemaphoreBalanced`, `AnswersFresh`, `ConversionsExclusive` and `OwnerWoken`.

`AdcServiceProofs` proves the refinement, `ServiceKept`, from the same invariant:
each action of the driver is one of the service (`Read` asks, `Down` serves,
`Strobe` measures, `ReadValue` answers, up yields, `Copy` returns, a successful
press presses) or leaves phase, owner, wish, answer and levels as they are.
`OwnerIs` reads the service's owner off `MutexInv`; `ValueInv` makes the answer
one the service allows.

`AdcSignalProofs` assumes no button but any number of signals. `NeverWedged`
fails to be inductive where the interrupt wakes a task that a signal has already
taken out of `dev_read`. `GoneInv` covers that case: the semaphore this task gave
back is still free, or its next owner has not yet set `current_task`. A press of
the button breaks exactly this, since it takes the semaphore and sets nothing:
the run `adc_signal_leak`.

**GPIO.** Five theorems, without assumption beyond the constants', for any pins of
the port tables. `PinsApart` rests on the tables: `OwnBit` says that two pins
with device files never have the same bit of the same register, from what each
row of the table holds (`OnceInRow*`, `NotInBoth*`) and from the offset that
keeps the rows of ports 2 and 3 apart in the registers they share.
`OwnCharacters` uses `WriteInv`: once the offset has moved, the character that
moved it stays in the file's own buffer until the file is closed. `CalmReads` uses `ReadInv`: a reader that nobody disturbs
between its two looks still knows the direction, and the level it will answer
with is noted. `ServiceKept` is the refinement, from these two and the tables: a
store to a register switches one pin of `Outputs` or `High` and no other
(`ApplySwitches`, from `OwnBit` and `TargetSet`), and `StateIs` says what
`get_port_state` answers and when it may be wrong. All other actions change a
label and one process's part of the mapping (`Moves`).

**PWM.** Of the arithmetic, `SearchEndsAtOnce` says which settings the brute-force
search ends with (divider 256 for a multiple of 256, divider 1 otherwise),
`TwoFrequencies` that therefore every wanted frequency but 0 gives 50781 Hz or
198.363 Hz, and `NotTheNearest` that for whole ranges of frequencies another
setting would be nearer; `DutyRoundTrip` that a duty cycle comes back exact or
one lower. Of the driver, `TypeCorrect` (stores fit the register fields under any
preemption) holds for ever, the rest until two processes overlap in `dev_open`,
and none needs an assumption beyond the constants'. The invariant `IInv` says
that, until then, at most one process is between its test and its release
(`AtMostOne`), that the flag is set exactly while one has a file open (`FlagInv`,
without which a process could pass the test while another is inside), and that a
process's local copies still agree with the registers it will store them to
(`CopiesInv`). `ApartStep` keeps these three together (`Apart`) in every step that
is no overlap, and `OverlapStays` says that there is no way back from one:
`Inductive`, `Exclusive`, `SettingsKept`. `BackInv` adds that an answer is what
the registers hold, as long as the process remembers it (`AnswerInv`), and that a
number written is on its way in the buffer or set in its register (`SettingInv`):
`SettingsReadBack`, with `DutyRoundTrip` for the rounding, and `FirstFrequency`.
`ServiceKept` is the refinement, from `BackInv`: `SetOpened` enters, `Release`
leaves, `Write` writes, the store to a control register applies
(`EnableApplies`, `DutyApplies`, `FrequencyApplies`), a `Copy` that arrives reads,
and all other steps are unseen (`Unseen`): `StoreClock` stores what the mapping
has counted already, which is where `CopiesInv` is needed. `Moves` says for all of
them what a change of label is to the service; it needs that only one process is
inside.

**Peek and poke.** `TypeCorrect`: while registers are read, those left fit the
rest of the buffer (`LoopInv`); that there is always an end of the string needs
the least-number principle (`Least`). `WritesCommanded`, without preemption: who
parses finds its own command in the buffer (`ParseInv`), and what it takes from
there stays in locals (`OperandInv`). `AnsweredAlone`, under any preemption:
`AloneInv` says what a user that is alone has in the buffer at each label;
`HoldsWritten` and `HoldsOneMore` say what a `sprintf` at the start and one
behind the string leave there, and `HeldText` that this is what is shown.

**Loading.** Six theorems, for any number of devices, device numbers and open files
and any modules together, without further assumption. `ModuleLoadingProofs!IInv` says for each
module which registrations it holds at which step (`AdcRegistered`, `GpioInv`,
`PwmInv`, `HwInv`), that files are open only while their driver cannot go
(`FilesInv`), and what the semaphore is before and after its initialization
(`AdcSemaphore`). Each driver's part is kept by its own steps, and by those of
the others because they leave its registrations alone.

**I2C.** Four theorems, for any number of runs of the tool, any commands, settings
and devices, whatever messages break off and wherever. `I2cSlave`'s operators
come first: what a message that arrives does (`Received`), and what any access
of a master does at most (`Touches`: one device, and the others' `calm` there
ends). `ParamsInv` says that a run under way has a command the tool accepts, so
that what it sends are bytes (`TypeCorrect`), and has printed nothing yet.
`SelectionInv`: a device still points to what a tool selected there as long as
the tool is `calm`; with `RemainderPlus` (counting on from a remainder) this is
`ReadsSelected`. `LedsInv`: what the blinker wrote in a pass is in the
selectors; together with the arithmetic of the selectors (`SelectorModes`,
`LedPlaces`) this is `LedsFollow`. `ChangedByWrites` needs that a selection, or
any beginning of it, has no byte behind the pointer (`SelectionsStoreNothing`).

**Only model-checked:** liveness (`EveryReadReturns`, `ButtonGivesBack`,
`BlinkerEnds`: the prover does not do ENABLED). Every invariant and every safety
property that a passing run checks, the three refinements among them, is also
proved. Induction over data and RECURSIVE operators are out of the prover's
reach; the models need neither.

## 5. Findings

Five violations, each with its run, are described in `PROJECT.json`: the lost
semaphore after a signal and a press (`adc.c:145, 202`), the stale direction
(`gpio.c:208-213`), the repeated second write (`GPIO/src/file.c:179-189`), the
wrong divider (`pwm.c:186`, visible in PWM.pdf's own Test B), and the bus tool,
which ignores its register argument, selects the register whose number is the
device's own address instead (`assignment2-hw/main.c:256, 260`), and keeps the
length in a `char` (174), against its own usage text (217-218).

The stale direction takes a preemption between two adjacent register reads, in
which the pin is made an input *and* its value file is written; after the first
alone the answer is the level the pin had a moment ago.

A sixth is proved instead of run: the search for the "best approximation"
(`pwm.c:20-21`) minimizes a remainder instead of a distance (67-69) and so ends
at one of two frequencies (`TwoFrequencies`), of which neither is the nearest for
whole ranges of requests (`NotTheNearest`), 50 Hz among them.

Seen while modelling, in the models as they are, and without a run of their own:

- The usage text of the bus tool says of writes, too, that they go to the
  register asked for (`main.c:219`). They do not: the bytes are a message of
  their own, so that they begin with a new register number instead of continuing
  at the selected register.
- `cdev_add` failing in the ADC driver leaks a region of device numbers;
  `alloc_chrdev_region` failing in the GPIO driver leaves a class behind, with
  which the driver cannot be loaded again before the next boot
  (`AbsentHoldsNothing`, `LoadedIsComplete`).
- A conversion that outlives `rmmod` can call `up` on a semaphore without
  `sema_init` at the next `insmod` (`CrashOnlyIfStale`).

## 6. Plan

Done, in this order: the ADC driver, the only one with interrupts and sleeping,
then the GPIO and PWM drivers and the peek and poke module by how much their
processes share, loading and unloading, the I2C programs; the theorems along
with them.

Left, in order:

1. Reads in `ModuleLoading` while the ADC driver is not yet initialized: a
   reader in `down` on a semaphore without `sema_init`.
2. Second writes of another length through one open PWM file, and commands of
   several lengths in the peek and poke module (`used_buffer_size`).
3. Two processes that share one open file of the ADC driver.

## 7. Not modelled, and why

- `ADC/src/adc-testing.c`: the ADC driver without its semaphore, with pins
  toggled to measure how long interrupts take. Time is what it adds, and the
  models have none; its missing semaphore is listed as a hazard.
- The lm-sensors headers: third-party code, known here by what
  `i2c_smbus_write_byte_data` does to a device.
- The hello-world program: it has no state.
- What a buffer overrun does (a write of exactly 256 bytes, `GPIO/src/file.c:174`,
  `PWM/src/file.c:132`; the first read of an open GPIO file, `file.c:135`; the
  output buffer of `printBuffer`, `assignment2-hw/main.c:137`; a write shorter
  than `*offset`, with which `copy_from_user` gets a negative length,
  `GPIO/src/file.c:181`, `PWM/src/file.c:139`; a failed
  `kmalloc`, `adc.c:227`): a write to memory of something else has no meaning in
  these models, and no property covers it.
- The multiplexer set-up of the GPIO pins and the register set-up of the
  converter: constants, written once.
- How numbers are parsed and printed, but for their range; and log messages, also
  those whose format is what the user wrote (`KernelModule-1.c:34, 169`).
