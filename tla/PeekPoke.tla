------------------------------ MODULE PeekPoke -------------------------------
(***************************************************************************)
(* The "peek and poke" module, PeekAndPoke/assignment1-sys: users store    *)
(* commands into one sysfs file, "r <address> <amount>" or "w <address>    *)
(* <value>", and show its content, the answer. All of them share           *)
(* sysfs_buffer: the command, its parsing and the answer are in it.        *)
(*                                                                         *)
(* The buffer is a row of cells, each a word (a mode, an error text or the *)
(* end of the string) or a number; a printed number takes one cell,        *)
(* whatever its width. Commands have three parts and so one length.        *)
(* Addresses count registers (four bytes).                                 *)
(***************************************************************************)
EXTENDS Integers, Sequences

CONSTANTS
  Users,         \* the processes that use the file
  NumAddresses,  \* the registers of the address space, 2^32 / 4
  MaxRegisters,  \* max_registers: the numbers that fit the buffer
  Words,         \* bound: what reading a register can give
  Commands,      \* bound: what users store, as mode, address and amount or value
  Preemptible    \* whether the kernel preempts a process inside sysfs_store;
                 \*   otherwise others run only while ioremap or iounmap sleeps

ASSUME PeekPokeAssumption ==
  /\ NumAddresses \in Nat \ {0}
  /\ MaxRegisters \in Nat /\ MaxRegisters >= 3 /\ MaxRegisters <= NumAddresses
  /\ 0 \in Words /\ Words \subseteq Nat
  /\ Commands \subseteq {"r", "w", "x"} \X (0..(NumAddresses - 1)) \X Nat
  /\ Preemptible \in BOOLEAN

VARIABLES
  sysfs_buffer,    \* the buffer's cells
  lastWrite,       \* the last write to a register, or NoWrite
  pc,              \* where each user is in sysfs_store
  current_address, \* the locals of process_buffer ...
  end_address,
  value,           \* ... the value to write, or the one just read
  length,
  asked,           \* history: the command each user stored last
  got,             \* history: the numbers read for it
  alone,           \* history: nobody else was in sysfs_store since then
  shown            \* history: what the user was shown since then, or NotShown

buffers == <<sysfs_buffer, lastWrite>>
locals  == <<current_address, end_address, value, length>>
history == <<asked, got, alone, shown>>
vars == <<buffers, pc, locals, history>>

Addresses == 0..(NumAddresses - 1)
Numbers   == Addresses \cup Words \cup {c[3] : c \in Commands}
NoCommand == <<"x", 0, 0>>      \* "x": whatever does not parse

Word(w)   == <<w, 0>>
Number(n) == <<"number", n>>
CommandText(c) == <<Word(c[1]), Number(c[2]), Number(c[3])>>

End      == Word("end")
Cells    == 1..(MaxRegisters + 1)
Texts    == {Word(w) : w \in {"r", "w", "x", "format error", "amount error", "end"}}
              \cup {Number(n) : n \in Numbers}
NoWrite  == <<>>
NotShown == <<End>>
Labels   == {"idle", "parse", "write", "read", "append"}

TypeOK ==
  /\ sysfs_buffer \in [Cells -> Texts]
  /\ lastWrite \in (Numbers \X Numbers) \cup {NoWrite}
  /\ pc \in [Users -> Labels]
  /\ current_address \in [Users -> Numbers]
  /\ end_address \in [Users -> Addresses]
  /\ value \in [Users -> Numbers]
  /\ length \in [Users -> 0..MaxRegisters]
  /\ asked \in [Users -> Commands \cup {NoCommand}]
  /\ got \in [Users -> Seq(Words)]
  /\ alone \in [Users -> BOOLEAN]
  /\ shown \in [Users -> Seq(Texts)]

Init ==
  /\ sysfs_buffer = [i \in Cells |-> End]
  /\ lastWrite = NoWrite
  /\ pc = [u \in Users |-> "idle"]
  /\ current_address = [u \in Users |-> 0]
  /\ end_address = [u \in Users |-> 0]
  /\ value = [u \in Users |-> 0]
  /\ length = [u \in Users |-> 0]
  /\ asked = [u \in Users |-> NoCommand]
  /\ got = [u \in Users |-> <<>>]
  /\ alone = [u \in Users |-> FALSE]
  /\ shown = [u \in Users |-> NotShown]

(* Nobody runs while an unpreemptible user is between memcpy and sscanf.   *)
MayRun(u) == Preemptible \/ \A v \in Users \ {u} : pc[v] # "parse"

Goes(u, from, to) ==
  /\ pc[u] = from
  /\ pc' = [pc EXCEPT ![u] = to]
  /\ MayRun(u)

(* A sequence of cells written at a position, with the end of the string.  *)
Written(at, cells) ==
  [i \in Cells |-> CASE i \in at..(at + Len(cells) - 1) -> cells[i - at + 1]
                     [] i = at + Len(cells) -> End
                     [] OTHER -> sysfs_buffer[i]]

(* The string in the buffer: the cells before the first end.               *)
StringLength == CHOOSE n \in 0..MaxRegisters :
  sysfs_buffer[n + 1] = End /\ \A i \in 1..n : sysfs_buffer[i] # End
Text == SubSeq(sysfs_buffer, 1, StringLength)

-----------------------------------------------------------------------------
(* sysfs_store copies the command into the buffer ...                      *)
Store(u) ==
  /\ Goes(u, "idle", "parse")
  /\ \E c \in Commands :
       sysfs_buffer' = Written(1, CommandText(c)) /\ asked' = [asked EXCEPT ![u] = c]
  /\ got' = [got EXCEPT ![u] = <<>>]
  /\ alone' = [v \in Users |-> v = u /\ \A w \in Users \ {u} : pc[w] = "idle"]
  /\ shown' = [shown EXCEPT ![u] = NotShown]
  /\ UNCHANGED <<lastWrite, locals>>

(* ... and process_buffer takes it from there.                             *)
IsCommand ==
  /\ StringLength >= 3
  /\ sysfs_buffer[1] \in {Word("r"), Word("w")}
  /\ \A i \in {2, 3} : sysfs_buffer[i][1] = "number"

Mode      == sysfs_buffer[1][1]
Address   == sysfs_buffer[2][2]
Parameter == sysfs_buffer[3][2]   \* the amount or the value

(* Mutant: one number more than the buffer holds.                          *)
FitsOffByOne(amount) == amount \in 1..(MaxRegisters + 1)

Fits(amount) == amount \in 1..MaxRegisters

(* Mutant: the register at the end is read, too.                           *)
EndAddressIncluded(address, amount) == (address + amount + 1) % NumAddresses

(* An unsigned int: it wraps.                                              *)
EndAddress(address, amount) == (address + amount) % NumAddresses

Refuse(u) ==
  /\ Goes(u, "parse", "idle")
  /\ \/ ~IsCommand /\ sysfs_buffer' = Written(1, <<Word("format error")>>)
     \/ /\ IsCommand /\ Mode = "r" /\ ~Fits(Parameter)
        /\ sysfs_buffer' = Written(1, <<Word("amount error")>>)
  /\ UNCHANGED <<lastWrite, locals, history>>

ParseWrite(u) ==
  /\ IsCommand /\ Mode = "w"
  /\ Goes(u, "parse", "write")
  /\ current_address' = [current_address EXCEPT ![u] = Address]
  /\ value' = [value EXCEPT ![u] = Parameter]
  /\ UNCHANGED <<buffers, end_address, length, history>>

(* The loop that reads the registers runs while current < end.             *)
More(current, end) == IF current < end THEN "read" ELSE "idle"

ParseRead(u) ==
  LET end == EndAddress(Address, Parameter)
  IN /\ IsCommand /\ Mode = "r" /\ Fits(Parameter)
     /\ Goes(u, "parse", More(Address, end))
     /\ current_address' = [current_address EXCEPT ![u] = Address]
     /\ end_address' = [end_address EXCEPT ![u] = end]
     /\ length' = [length EXCEPT ![u] = 0]
     /\ sysfs_buffer' = Written(1, <<>>)
     /\ UNCHANGED <<lastWrite, value, history>>

(* Mutant: the parameters are taken from the buffer again.                 *)
OperandsReread(u) == <<Address, Parameter>>

Operands(u) == <<current_address[u], value[u]>>

(* write_register; ioremap may sleep before it, and may fail.              *)
WriteRegister(u) ==
  /\ Goes(u, "write", "idle")
  /\ lastWrite' \in {Operands(u), lastWrite}
  /\ UNCHANGED <<sysfs_buffer, locals, history>>

(* read_register; ioremap may sleep before it, or fail, which gives 0, and *)
(* iounmap may sleep after it.                                             *)
ReadRegister(u) ==
  /\ Goes(u, "read", "append")
  /\ \E w \in Words : /\ value' = [value EXCEPT ![u] = w]
                      /\ got' = [got EXCEPT ![u] = Append(@, w)]
  /\ UNCHANGED <<buffers, current_address, end_address, length, asked, alone, shown>>

AppendValue(u) ==
  /\ Goes(u, "append", More(current_address[u] + 1, end_address[u]))
  /\ sysfs_buffer' = Written(length[u] + 1, <<Number(value[u])>>)
  /\ length' = [length EXCEPT ![u] = @ + 1]
  /\ current_address' = [current_address EXCEPT ![u] = @ + 1]
  /\ UNCHANGED <<lastWrite, end_address, value, history>>

(* sysfs_show copies the string.                                           *)
Show(u) ==
  /\ pc[u] = "idle" /\ MayRun(u)
  /\ shown' = [shown EXCEPT ![u] = Text]
  /\ UNCHANGED <<buffers, pc, locals, asked, got, alone>>

Next ==
  \E u \in Users :
    \/ Store(u) \/ Refuse(u) \/ ParseWrite(u) \/ ParseRead(u)
    \/ WriteRegister(u) \/ ReadRegister(u) \/ AppendValue(u) \/ Show(u)

Spec == Init /\ [][Next]_vars

-----------------------------------------------------------------------------
(* A register is only ever written as some user's own command says,        *)
(* whatever other users store meanwhile or append to the buffer            *)
(* ("w <hexadecimal address> <hexadecimal value>", PeekAndPoke.pdf;        *)
(* KernelModule-1.c:120-136, 171-174).                                     *)
OnlyCommandedWrites ==
  [][lastWrite' # lastWrite =>
       \E u \in Users : pc[u] = "write" /\ asked[u] = <<"w">> \o lastWrite']_vars

(* A user who is alone from store to show is shown what the command asked  *)
(* for: "<amount> of registers ... starting at address" (PeekAndPoke.pdf), *)
(* all of them or, if they reach the end of the address space, none;       *)
(* an error; or the write command again (KernelModule-1.c:104-159).        *)
AloneAnswered ==
  \A u \in Users :
    LET mode == asked[u][1]  address == asked[u][2]  amount == asked[u][3] IN
    alone[u] /\ shown[u] # NotShown /\ pc[u] = "idle" =>
      CASE mode = "x" -> shown[u] = <<Word("format error")>>
        [] mode = "w" -> shown[u] = CommandText(asked[u])
        [] mode = "r" /\ ~(amount \in 1..MaxRegisters) -> shown[u] = <<Word("amount error")>>
        [] mode = "r" /\ amount \in 1..MaxRegisters ->
             /\ shown[u] = [i \in DOMAIN got[u] |-> Number(got[u][i])]
             /\ Len(got[u]) = IF address + amount < NumAddresses THEN amount ELSE 0
=============================================================================
