-------------------------- MODULE GpioDriverProofs --------------------------
(***************************************************************************)
(* Proofs about the GPIO driver, for any processes and device files. They  *)
(* rest on what is true of the tables: every pin has a place, and no two   *)
(* pins share a bit of a register.                                         *)
(***************************************************************************)
EXTENDS GpioImplementsService, TLAPS

Length == [port \in Ports |-> CASE port = 0 -> 8 [] port = 1 -> 0
                                [] port = 2 -> 13 [] port = 3 -> 6]

Places == {a \in Ports \X (1..32) : a[2] \in 1..Length[a[1]]}

At(a) == Mapping[a[1]][a[2]]

(* The four rows of the table.                                             *)
LEMMA Rows ==
  /\ Mapping[0] = <<"J3.40", "J2.24", "J2.11", "J2.12", "J2.13", "J2.14",
                    "J3.33", "J1.27">>
  /\ Mapping[1] = <<>>
  /\ Mapping[2] = <<"J3.47", "J3.56", "J3.48", "J3.55", "J3.49", "J3.58",
                    "J3.50", "J3.45", "J1.49", "J1.50", "J1.51", "J1.52",
                    "J1.53">>
  /\ Mapping[3] = <<"J3.54", "J3.46", NoPin, NoPin, "J3.36", "J1.24">>
BY DEF Mapping, Ports

LEMMA Domains == \A port \in Ports : DOMAIN Mapping[port] = 1..Length[port]
                                     /\ Len(Mapping[port]) = Length[port]
<1>1. Length[0] = 8 /\ Length[1] = 0 /\ Length[2] = 13 /\ Length[3] = 6
  BY DEF Length, Ports
<1>2. DOMAIN Mapping[0] = 1..8 /\ Len(Mapping[0]) = 8
  BY Rows
<1>3. DOMAIN Mapping[1] = 1..0 /\ Len(Mapping[1]) = 0
  BY Rows
<1>4. DOMAIN Mapping[2] = 1..13 /\ Len(Mapping[2]) = 13
  BY Rows
<1>5. DOMAIN Mapping[3] = 1..6 /\ Len(Mapping[3]) = 6
  BY Rows
<1>6. \A port \in Ports : port = 0 \/ port = 1 \/ port = 2 \/ port = 3
  BY DEF Ports
<1> QED
  BY <1>1, <1>2, <1>3, <1>4, <1>5, <1>6

(* The positions of a row, and what is there.                              *)
LEMMA Row0 ==
  /\ Mapping[0][1] = "J3.40"
  /\ Mapping[0][2] = "J2.24"
  /\ Mapping[0][3] = "J2.11"
  /\ Mapping[0][4] = "J2.12"
  /\ Mapping[0][5] = "J2.13"
  /\ Mapping[0][6] = "J2.14"
  /\ Mapping[0][7] = "J3.33"
  /\ Mapping[0][8] = "J1.27"
BY Rows DEF NoPin

LEMMA Row2 ==
  /\ Mapping[2][1] = "J3.47"
  /\ Mapping[2][2] = "J3.56"
  /\ Mapping[2][3] = "J3.48"
  /\ Mapping[2][4] = "J3.55"
  /\ Mapping[2][5] = "J3.49"
  /\ Mapping[2][6] = "J3.58"
  /\ Mapping[2][7] = "J3.50"
  /\ Mapping[2][8] = "J3.45"
  /\ Mapping[2][9] = "J1.49"
  /\ Mapping[2][10] = "J1.50"
  /\ Mapping[2][11] = "J1.51"
  /\ Mapping[2][12] = "J1.52"
  /\ Mapping[2][13] = "J1.53"
BY Rows DEF NoPin

LEMMA Row3 ==
  /\ Mapping[3][1] = "J3.54"
  /\ Mapping[3][2] = "J3.46"
  /\ Mapping[3][3] = "none"
  /\ Mapping[3][4] = "none"
  /\ Mapping[3][5] = "J3.36"
  /\ Mapping[3][6] = "J1.24"
BY Rows DEF NoPin

(* No pin is in two places.                                                *)
LEMMA OnceInRow0 ==
  ASSUME NEW j \in 1..8, NEW k \in 1..8, Mapping[0][j] = Mapping[0][k]
  PROVE  j = k
<1>1. \A i \in 1..8 : i \in {1, 2, 3, 4, 5, 6, 7, 8}
  OBVIOUS
<1> QED
  BY <1>1, Row0

LEMMA OnceInRow2 ==
  ASSUME NEW j \in 1..13, NEW k \in 1..13, Mapping[2][j] = Mapping[2][k]
  PROVE  j = k
<1>1. \A i \in 1..13 : i \in {1, 2, 3, 4, 5, 6, 7, 8, 9, 10, 11, 12, 13}
  OBVIOUS
<1> QED
  BY <1>1, Row2

LEMMA OnceInRow3 ==
  ASSUME NEW j \in 1..6, NEW k \in 1..6, Mapping[3][j] = Mapping[3][k], Mapping[3][j] # NoPin
  PROVE  j = k
<1>1. \A i \in 1..6 : i \in {1, 2, 3, 4, 5, 6}
  OBVIOUS
<1> QED
  BY <1>1, Row3 DEF NoPin

LEMMA NotInBoth02 ==
  ASSUME NEW j \in 1..8, NEW k \in 1..13
  PROVE  Mapping[0][j] # Mapping[2][k]
<1>1. j \in {1, 2, 3, 4, 5, 6, 7, 8}
  OBVIOUS
<1>2. k \in {1, 2, 3, 4, 5, 6, 7, 8, 9, 10, 11, 12, 13}
  OBVIOUS
<1> QED
  BY <1>1, <1>2, Row0, Row2

LEMMA NotInBoth03 ==
  ASSUME NEW j \in 1..8, NEW k \in 1..6
  PROVE  Mapping[0][j] # Mapping[3][k]
<1>1. j \in {1, 2, 3, 4, 5, 6, 7, 8}
  OBVIOUS
<1>2. k \in {1, 2, 3, 4, 5, 6}
  OBVIOUS
<1> QED
  BY <1>1, <1>2, Row0, Row3

LEMMA NotInBoth23 ==
  ASSUME NEW j \in 1..13, NEW k \in 1..6
  PROVE  Mapping[2][j] # Mapping[3][k]
<1>1. j \in {1, 2, 3, 4, 5, 6, 7, 8, 9, 10, 11, 12, 13}
  OBVIOUS
<1>2. k \in {1, 2, 3, 4, 5, 6}
  OBVIOUS
<1> QED
  BY <1>1, <1>2, Row2, Row3

LEMMA OnePlace ==
  ASSUME NEW a \in Places, NEW b \in Places, At(a) = At(b), At(a) # NoPin
  PROVE  a = b
<1>1. PICK p \in Ports, j \in 1..32 : a = <<p, j>> /\ j \in 1..Length[p]
  BY DEF Places
<1>2. PICK q \in Ports, k \in 1..32 : b = <<q, k>> /\ k \in 1..Length[q]
  BY DEF Places
<1>3. Mapping[p][j] = Mapping[q][k] /\ Mapping[p][j] # NoPin
  BY <1>1, <1>2 DEF At
<1>4. /\ Length[0] = 8 /\ Length[1] = 0 /\ Length[2] = 13 /\ Length[3] = 6
      /\ p \in {0, 1, 2, 3} /\ q \in {0, 1, 2, 3}
  BY DEF Length, Ports
<1>5. p # 1 /\ q # 1
  BY <1>1, <1>2, <1>4
<1>6. CASE p = q
  <2>1. CASE p = 0
    BY <2>1, <1>1, <1>2, <1>3, <1>4, <1>6, OnceInRow0
  <2>2. CASE p = 2
    BY <2>2, <1>1, <1>2, <1>3, <1>4, <1>6, OnceInRow2
  <2>3. CASE p = 3
    BY <2>3, <1>1, <1>2, <1>3, <1>4, <1>6, OnceInRow3
  <2> QED
    BY <2>1, <2>2, <2>3, <1>4, <1>5
<1>7. CASE p # q
  <2>1. CASE {p, q} = {0, 2}
    BY <2>1, <1>1, <1>2, <1>3, <1>4, <1>7, NotInBoth02
  <2>2. CASE {p, q} = {0, 3}
    BY <2>2, <1>1, <1>2, <1>3, <1>4, <1>7, NotInBoth03
  <2>3. CASE {p, q} = {2, 3}
    BY <2>3, <1>1, <1>2, <1>3, <1>4, <1>7, NotInBoth23
  <2> QED
    BY <2>1, <2>2, <2>3, <1>4, <1>5, <1>7
<1> QED
  BY <1>6, <1>7

(* get_port_mapping finds a pin at its place.                              *)
LEMMA PlaceFound ==
  ASSUME NEW pin \in AllPins
  PROVE  Place[pin] \in Places /\ At(Place[pin]) = pin
<1>1. PICK p \in Ports : \E j \in 1..Len(Mapping[p]) : Mapping[p][j] = pin
  <2>1. pin \in UNION {{Mapping[p][j] : j \in 1..Len(Mapping[p])} : p \in Ports}
    BY DEF AllPins
  <2> QED
    BY <2>1, Zenon
<1>2. PICK j \in 1..Len(Mapping[p]) : Mapping[p][j] = pin
  BY <1>1
<1>3. j \in 1..Length[p] /\ j \in 1..32
  <2>1. Length[0] = 8 /\ Length[1] = 0 /\ Length[2] = 13 /\ Length[3] = 6
    BY DEF Length, Ports
  <2>2. j \in 1..Length[p]
    BY <1>2, Domains
  <2> QED
    BY <2>1, <2>2 DEF Ports
<1>4. pin # NoPin
  BY DEF AllPins
<1>5. Holding(pin) = {c \in Places : At(c) = pin}
  BY Domains DEF Places, At, Holding
<1>6. <<p, j>> \in Holding(pin)
  BY <1>2, <1>3, Domains DEF Holding
<1>7. \A c \in Holding(pin) : c = <<p, j>>
  BY <1>4, <1>5, <1>6, OnePlace
<1>8. \A c \in Holding(pin) : ~Earlier(c, <<p, j>>)
  BY <1>7, <1>3 DEF Earlier, Ports
<1>9. Place[pin] = CHOOSE a \in Holding(pin) : \A b \in Holding(pin) : ~Earlier(b, a)
  BY DEF Place
<1>10. Place[pin] \in Holding(pin)
  BY <1>6, <1>8, <1>9
<1> QED
  BY <1>5, <1>10

LEMMA PortAndBit ==
  ASSUME NEW pin \in AllPins
  PROVE  /\ PortOf(pin) \in {0, 2, 3}
         /\ DirRegister(PortOf(pin)) \in DirRegisters
         /\ Bit(pin) \in 0..31
         /\ PortOf(pin) = 2 => Bit(pin) < 13
         /\ PortOf(pin) = 3 => Bit(pin) >= 25
<1>1. PICK p \in Ports, j \in 1..32 : Place[pin] = <<p, j>> /\ j \in 1..Length[p]
  BY PlaceFound DEF Places
<1>2. PortOf(pin) = p /\ Bit(pin) = j - 1 + MappingOffset(p)
  BY <1>1 DEF PortOf, Bit
<1>3. p \in {0, 2, 3} /\ j \in Nat /\ j >= 1 /\ j <= Length[p]
  BY <1>1 DEF Length, Ports
<1>4. Length[0] = 8 /\ Length[2] = 13 /\ Length[3] = 6
  BY DEF Length, Ports
<1> QED
  BY <1>2, <1>3, <1>4 DEF MappingOffset, DirRegisters, Ports

(* No two pins share a bit of a DIR register, of an output latch even less *)
(* (gpio.c:3-128): ports 2 and 3 share the register and not the bits.      *)
LEMMA OwnBit ==
  ASSUME NEW p \in AllPins, NEW q \in AllPins, Bit(p) = Bit(q),
         DirRegister(PortOf(p)) = DirRegister(PortOf(q))
  PROVE  p = q
<1>1. PortOf(p) = PortOf(q)
  BY PortAndBit DEF DirRegister
<1>2. PICK a \in Places : a = Place[p] /\ At(a) = p
  BY PlaceFound
<1>3. PICK b \in Places : b = Place[q] /\ At(b) = q
  BY PlaceFound
<1>4. a[1] = b[1] /\ a[2] = b[2]
  <2>1. a[2] \in Int /\ b[2] \in Int /\ MappingOffset(PortOf(p)) \in Int
    BY DEF Places, MappingOffset
  <2> QED
    BY <1>1, <1>2, <1>3, <2>1 DEF PortOf, Bit
<1>5. a = b
  BY <1>4 DEF Places
<1> QED
  BY <1>2, <1>3, <1>5

-----------------------------------------------------------------------------
LEMMA FilesAreDevices == /\ Files # {}
                         /\ Files \subseteq AllPins \X {"direction", "value"}
                         /\ Pins \subseteq AllPins
<1>1. ASSUME NEW m \in DOMAIN mappings PROVE mappings[m] \in Devices
  <2>1. m \in {Minor(d[1], d[2]) : d \in Devices}
    BY DEF mappings
  <2>2. PICK d \in Devices : Minor(d[1], d[2]) = m
    BY <2>1
  <2>3. mappings[m] = CHOOSE e \in Devices : Minor(e[1], e[2]) = m
    BY <2>1 DEF mappings
  <2> QED
    BY <2>2, <2>3
<1> QED
  BY <1>1, MinorsAssumption DEF Files, Pins, Devices

LEMMA SomeFileType == SomeFile \in Files
BY FilesAreDevices DEF SomeFile

(* What the tables say of a process's file.                                *)
LEMMA FileType ==
  ASSUME TypeOK, NEW p \in Procs
  PROVE  /\ PinOf(p) \in AllPins
         /\ FunctionOf(p) \in {"direction", "value"}
         /\ file[p] = <<PinOf(p), FunctionOf(p)>>
BY FilesAreDevices DEF TypeOK, PinOf, FunctionOf

LEMMA SetBitType ==
  ASSUME NEW register \in SUBSET (0..31), NEW bit \in 0..31, NEW on
  PROVE  SetBit(register, bit, on) \in SUBSET (0..31)
BY DEF SetBit

(* A step leaves every process's file alone, or opens or closes it.        *)
LEMMA FileKept ==
  ASSUME TypeOK, NEW p \in Procs, file'[p] = file[p]
  PROVE  PinOf(p)' = PinOf(p) /\ FunctionOf(p)' = FunctionOf(p)
BY DEF PinOf, FunctionOf

LEMMA InitType == Init => TypeOK
<1> SUFFICES ASSUME Init PROVE TypeOK
  OBVIOUS
<1> USE DEF Init, TypeOK, Labels
<1>1. dir \in [DirRegisters -> SUBSET (0..31)] /\ out \in [Ports -> SUBSET (0..31)]
  OBVIOUS
<1>2. file \in [Procs -> Files]
  BY SomeFileType
<1>3. pc \in [Procs -> Labels] /\ offset \in [Procs -> 0..1]
  OBVIOUS
<1>4. seen \in [Procs -> SUBSET BOOLEAN]
  OBVIOUS
<1> QED
  BY <1>1, <1>2, <1>3, <1>4

LEMMA LevelType ==
  ASSUME NEW pin
  PROVE  PinLevel(pin) \in BOOLEAN /\ Latch(pin) \in BOOLEAN /\ IsOutput(pin) \in BOOLEAN
<1>1. Latch(pin) \in BOOLEAN /\ (pin \in level) \in BOOLEAN /\ IsOutput(pin) \in BOOLEAN
  BY DEF Latch, IsOutput
<1>2. PinLevel(pin) = IF IsOutput(pin) THEN Latch(pin) ELSE pin \in level
  BY Zenon DEF PinLevel
<1> QED
  BY <1>1, <1>2, Zenon

LEMMA ObserveType ==
  ASSUME TypeOK, Observe, level' \in SUBSET Pins
  PROVE  seen' \in [Procs -> SUBSET BOOLEAN] /\ calm' \in [Procs -> BOOLEAN]
<1>1. ASSUME NEW pin PROVE PinLevel(pin)' \in BOOLEAN
  <2>1. Latch(pin)' \in BOOLEAN /\ (pin \in level)' \in BOOLEAN
    BY DEF Latch
  <2>2. PinLevel(pin)' = IF IsOutput(pin)' THEN Latch(pin)' ELSE (pin \in level)'
    BY Zenon DEF PinLevel
  <2> QED
    BY <2>1, <2>2, Zenon
<1>2. \A p \in Procs : seen[p] \cup {PinLevel(PinOf(p))'} \in SUBSET BOOLEAN
  BY <1>1 DEF TypeOK
<1> QED
  BY <1>2 DEF Observe, TypeOK

(* Every step keeps every variable in its type: a register has 32 bits,    *)
(* and the tables give a pin a bit in it.                                  *)
LEMMA TypeStep == TypeOK /\ [Next]_vars => TypeOK'
<1> SUFFICES ASSUME TypeOK, [Next]_vars PROVE TypeOK'
  OBVIOUS
<1> USE DEF Labels
<1>1. ASSUME NEW p \in Procs, Open(p) PROVE TypeOK'
  BY <1>1 DEF Open, Goes, TypeOK, registers, history
<1>2. ASSUME NEW p \in Procs, Release(p) PROVE TypeOK'
  BY <1>2, SomeFileType DEF Release, Goes, TypeOK, registers
<1>3. ASSUME NEW p \in Procs, Write(p) PROVE TypeOK'
  <2>1. buffer' \in [Procs -> BOOLEAN] /\ offset' \in [Procs -> 0..1]
    BY <1>3 DEF Write, Store, Advance, TypeOK
  <2>2. asked' \in [Procs -> BOOLEAN] /\ first' \in [Procs -> BOOLEAN]
    BY <1>3 DEF Write, TypeOK
  <2> QED
    BY <1>3, <2>1, <2>2 DEF Write, Goes, TypeOK, registers
<1>4. ASSUME NEW p \in Procs, Apply(p) PROVE TypeOK'
  <2> DEFINE port == PortOf(PinOf(p))
             bit == Bit(PinOf(p))
  <2>1. DirRegister(port) \in DirRegisters /\ port \in Ports /\ bit \in 0..31
    BY FileType, PortAndBit DEF Ports
  <2>2. /\ dir' \in [DirRegisters -> SUBSET (0..31)]
        /\ out' \in [Ports -> SUBSET (0..31)]
    <3>1. CASE FunctionOf(p) = "direction"
      <4>1. SetBit(dir[DirRegister(port)], bit, buffer[p]) \in SUBSET (0..31)
        BY <2>1, SetBitType DEF TypeOK
      <4>2. /\ dir' = [dir EXCEPT ![DirRegister(port)] =
                         SetBit(dir[DirRegister(port)], bit, buffer[p])]
            /\ out' = out
        BY <1>4, <3>1 DEF Apply
      <4> QED
        BY <4>1, <4>2, <2>1 DEF TypeOK
    <3>2. CASE FunctionOf(p) # "direction"
      <4>1. SetBit(out[port], bit, buffer[p]) \in SUBSET (0..31)
        BY <2>1, SetBitType DEF TypeOK
      <4>2. /\ out' = [out EXCEPT ![port] = SetBit(out[port], bit, buffer[p])]
            /\ dir' = dir
        BY <1>4, <3>2 DEF Apply
      <4> QED
        BY <4>1, <4>2, <2>1 DEF TypeOK
    <3> QED
      BY <3>1, <3>2
  <2>3. seen' \in [Procs -> SUBSET BOOLEAN] /\ calm' \in [Procs -> BOOLEAN]
    BY <1>4, ObserveType DEF Apply, TypeOK
  <2>4. asked' \in [Procs -> BOOLEAN] /\ pc' \in [Procs -> Labels]
    BY <1>4 DEF Apply, Goes, TypeOK
  <2> QED
    BY <1>4, <2>2, <2>3, <2>4 DEF Apply, TypeOK, fileVars
<1>5. ASSUME NEW p \in Procs, Read(p) PROVE TypeOK'
  BY <1>5 DEF Read, Goes, TypeOK, registers, fileVars, history
<1>6. ASSUME NEW p \in Procs, GetDirection(p) PROVE TypeOK'
  <2>1. IsOutput(PinOf(p)) \in BOOLEAN
    BY LevelType
  <2> QED
    BY <1>6, <2>1 DEF GetDirection, Store, Goes, TypeOK, registers, history
<1>7. ASSUME NEW p \in Procs, ChooseRegister(p) PROVE TypeOK'
  <2>1. PinLevel(PinOf(p)) \in BOOLEAN /\ (~IsOutput(PinOf(p))) \in BOOLEAN
    BY LevelType
  <2>2. /\ isInput' \in [Procs -> BOOLEAN]
        /\ seen' \in [Procs -> SUBSET BOOLEAN]
        /\ calm' \in [Procs -> BOOLEAN]
    BY <1>7, <2>1 DEF ChooseRegister, TypeOK
  <2> QED
    BY <1>7, <2>2 DEF ChooseRegister, Goes, TypeOK, registers, fileVars
<1>8. ASSUME NEW p \in Procs, GetState(p) PROVE TypeOK'
  <2>1. State(p) \in BOOLEAN
    BY LevelType, Zenon DEF State
  <2> QED
    BY <1>8, <2>1 DEF GetState, Store, Goes, TypeOK, registers, history
<1>9. ASSUME NEW p \in Procs, Copy(p) PROVE TypeOK'
  <2>1. offset' \in [Procs -> 0..1] /\ first' \in [Procs -> BOOLEAN]
    BY <1>9 DEF Copy, Advance, TypeOK
  <2> QED
    BY <1>9, <2>1 DEF Copy, Goes, TypeOK, registers
<1>10. CASE LevelChanges
  <2>1. level' \in SUBSET Pins
    BY <1>10 DEF LevelChanges, TypeOK
  <2>2. seen' \in [Procs -> SUBSET BOOLEAN] /\ calm' \in [Procs -> BOOLEAN]
    BY <1>10, <2>1, ObserveType DEF LevelChanges
  <2> QED
    BY <1>10, <2>1, <2>2 DEF LevelChanges, TypeOK, registers, fileVars
<1>11. CASE UNCHANGED vars
  BY <1>11 DEF vars, TypeOK, registers, fileVars, history
<1>12. ASSUME NEW p \in Procs, WriteNothing(p) PROVE TypeOK'
  BY <1>12 DEF WriteNothing, Store, TypeOK, registers, history
<1> QED
  BY <1>1, <1>2, <1>3, <1>4, <1>5, <1>6, <1>7, <1>8, <1>9, <1>10, <1>11, <1>12 DEF Next

(* The registers keep their 32 bits, and every process is at a label       *)
(* (GPIO/src/file.c:37-192, gpio.c:164-234).                               *)
THEOREM TypeCorrect == Spec => []TypeOK
BY InitType, TypeStep, PTL DEF Spec
-----------------------------------------------------------------------------
(* Everything but Apply leaves the registers alone.                        *)
LEMMA OnlyApply ==
  ASSUME [Next]_vars
  PROVE  UNCHANGED <<dir, out>> \/ \E p \in Procs : Apply(p)
<1>1. ASSUME NEW p \in Procs,
             \/ Open(p) \/ Release(p) \/ Write(p) \/ WriteNothing(p) \/ Read(p)
             \/ GetDirection(p) \/ ChooseRegister(p) \/ GetState(p) \/ Copy(p)
      PROVE  UNCHANGED <<dir, out>>
  BY <1>1 DEF Open, Release, Write, WriteNothing, Read, GetDirection, ChooseRegister,
    GetState, Copy, registers
<1>2. LevelChanges => UNCHANGED <<dir, out>>
  BY DEF LevelChanges, registers
<1>3. UNCHANGED vars => UNCHANGED <<dir, out>>
  BY DEF vars, registers
<1> QED
  BY <1>1, <1>2, <1>3 DEF Next

(* A bit of a register after a write to another bit.                       *)
LEMMA OtherBits ==
  ASSUME NEW register, NEW bit, NEW on, NEW other, other # bit
  PROVE  other \in SetBit(register, bit, on) <=> other \in register
BY DEF SetBit

LEMMA DirectionOnly ==
  ASSUME TypeOK, NEW p \in Procs, Apply(p), NEW pin \in AllPins,
         IsOutput(pin)' # IsOutput(pin)
  PROVE  file[p] = <<pin, "direction">>
<1> DEFINE port == PortOf(PinOf(p))
           bit == Bit(PinOf(p))
           r == DirRegister(PortOf(pin))
<1>1. /\ DirRegister(port) \in DirRegisters /\ r \in DirRegisters
      /\ PinOf(p) \in AllPins
  BY FileType, PortAndBit
<1>2. FunctionOf(p) = "direction"
  BY DEF Apply, IsOutput
<1>3. dir' = [dir EXCEPT ![DirRegister(port)] =
                SetBit(dir[DirRegister(port)], bit, buffer[p])]
  BY <1>2 DEF Apply
<1>4. (Bit(pin) \in dir'[r]) # (Bit(pin) \in dir[r])
  BY DEF IsOutput
<1>5. r = DirRegister(port)
  BY <1>1, <1>3, <1>4 DEF TypeOK
<1>6. dir'[r] = SetBit(dir[r], bit, buffer[p])
  BY <1>1, <1>3, <1>5 DEF TypeOK
<1>7. Bit(pin) = bit
  BY <1>4, <1>6, OtherBits
<1>8. pin = PinOf(p)
  BY <1>1, <1>5, <1>7, OwnBit
<1> QED
  BY <1>2, <1>8, FileType

LEMMA ValueOnly ==
  ASSUME TypeOK, NEW p \in Procs, Apply(p), NEW pin \in AllPins,
         Latch(pin)' # Latch(pin)
  PROVE  file[p] = <<pin, "value">>
<1> DEFINE port == PortOf(PinOf(p))
           bit == Bit(PinOf(p))
<1>1. /\ port \in Ports /\ PortOf(pin) \in Ports
      /\ PinOf(p) \in AllPins
  BY FileType, PortAndBit DEF Ports
<1>2. FunctionOf(p) # "direction"
  BY DEF Apply, Latch
<1>3. out' = [out EXCEPT ![port] = SetBit(out[port], bit, buffer[p])]
  BY <1>2 DEF Apply
<1>4. (Bit(pin) \in out'[PortOf(pin)]) # (Bit(pin) \in out[PortOf(pin)])
  BY DEF Latch
<1>5. PortOf(pin) = port
  BY <1>1, <1>3, <1>4 DEF TypeOK
<1>6. out'[port] = SetBit(out[port], bit, buffer[p])
  BY <1>1, <1>3 DEF TypeOK
<1>7. Bit(pin) = bit
  BY <1>4, <1>5, <1>6, OtherBits
<1>8. pin = PinOf(p)
  BY <1>1, <1>5, <1>7, OwnBit
<1> QED
  BY <1>2, <1>8, FileType

(* A pin's direction or latch changes only by a write to its own file, for *)
(* any processes and files of any pins (gpio.c:180-234).                   *)
THEOREM PinsApart == Spec => OnlyOwnPin
<1> DEFINE Own(pin) ==
      /\ IsOutput(pin)' # IsOutput(pin) =>
           \E p \in Procs : pc[p] = "apply" /\ file[p] = <<pin, "direction">>
      /\ Latch(pin)' # Latch(pin) =>
           \E p \in Procs : pc[p] = "apply" /\ file[p] = <<pin, "value">>
<1>1. ASSUME TypeOK, [Next]_vars, NEW pin \in AllPins PROVE Own(pin)
  <2>1. CASE UNCHANGED <<dir, out>>
    BY <2>1 DEF IsOutput, Latch
  <2>2. CASE \E p \in Procs : Apply(p)
    <3>1. PICK p \in Procs : Apply(p)
      BY <2>2
    <3>2. pc[p] = "apply"
      BY <3>1 DEF Apply, Goes
    <3> QED
      BY <1>1, <3>1, <3>2, DirectionOnly, ValueOnly
  <2> QED
    BY <1>1, <2>1, <2>2, OnlyApply
<1>2. TypeOK /\ [Next]_vars => [\A pin \in AllPins : Own(pin)]_vars
  BY <1>1
<1> QED
  BY <1>2, TypeCorrect, PTL DEF Spec, OnlyOwnPin
-----------------------------------------------------------------------------
(* The offset of a file that was read or written to its end stays there:   *)
(* calls that read find it at 0, a write leaves it at 1; and what moved it *)
(* stays in the file's own buffer.                                         *)
AtStart == {"closed", "direction", "state", "copy"}

WriteInv ==
  \A p \in Procs : /\ pc[p] \in AtStart => offset[p] = 0
                   /\ pc[p] = "apply" => offset[p] = 1
                   /\ offset[p] = 1 => buffer[p] = first[p]

(* A process's own step keeps its buffer and the character together,       *)
(* another process's step leaves both alone.                               *)
LEMMA WriteStep ==
  ASSUME TypeOK, WriteInv, [Next]_vars
  PROVE  WriteInv'
<1> DEFINE Good(q) == /\ pc[q] \in AtStart => offset[q] = 0
                      /\ pc[q] = "apply" => offset[q] = 1
                      /\ offset[q] = 1 => buffer[q] = first[q]
           Same(q) == UNCHANGED <<pc[q], first[q], buffer[q], offset[q]>>
<1> SUFFICES ASSUME NEW p \in Procs PROVE Good(p)'
  BY DEF WriteInv
<1>1. Good(p) /\ offset[p] \in 0..1
  BY DEF WriteInv, TypeOK
<1>2. Same(p) => Good(p)'
  BY <1>1
<1>3. ASSUME NEW q \in Procs, q # p,
             \/ Open(q) \/ Release(q) \/ Write(q) \/ WriteNothing(q) \/ Apply(q) \/ Read(q)
             \/ GetDirection(q) \/ ChooseRegister(q) \/ GetState(q) \/ Copy(q)
      PROVE  Same(p)
  BY <1>3 DEF TypeOK, Open, Release, Write, WriteNothing, Apply, Read, GetDirection,
    ChooseRegister, GetState, Copy, Goes, Store, Advance, history, fileVars
<1>4. CASE Open(p)
  BY <1>1, <1>4 DEF TypeOK, Open, Goes, history, AtStart
<1>5. CASE Release(p)
  BY <1>5 DEF TypeOK, Release, Goes, AtStart
<1>6. CASE Write(p)
  <2>1. PICK b \in BOOLEAN :
          IF offset[p] = 0
            THEN Store(p, b) /\ Advance(p) /\ first' = [first EXCEPT ![p] = b]
            ELSE UNCHANGED <<buffer, offset, first>>
    BY <1>6 DEF Write
  <2>2. pc'[p] = "apply"
    BY <1>6 DEF Write, Goes, TypeOK
  <2>3. CASE offset[p] = 0
    BY <2>1, <2>2, <2>3 DEF Store, Advance, TypeOK, AtStart
  <2>4. CASE offset[p] # 0
    BY <1>1, <2>1, <2>2, <2>4 DEF AtStart
  <2> QED
    BY <2>3, <2>4
<1>7. CASE WriteNothing(p)
  BY <1>1, <1>7 DEF WriteNothing, history
<1>8. CASE Apply(p)
  BY <1>1, <1>8 DEF TypeOK, Apply, Goes, fileVars, AtStart
<1>9. CASE Read(p)
  BY <1>1, <1>9 DEF TypeOK, Read, Goes, fileVars, history, AtStart
<1>10. CASE GetDirection(p) \/ ChooseRegister(p) \/ GetState(p)
  <2>1. offset[p] = 0
    BY <1>1, <1>10 DEF GetDirection, ChooseRegister, GetState, Goes, AtStart
  <2>2. offset'[p] = 0 /\ pc'[p] \in {"state", "copy"}
    BY <1>10, <2>1 DEF GetDirection, ChooseRegister, GetState, Goes, TypeOK, fileVars
  <2> QED
    BY <2>2 DEF AtStart
<1>11. CASE Copy(p)
  <2>1. pc'[p] = "open" /\ buffer' = buffer
    BY <1>11 DEF Copy, Goes, TypeOK
  <2>2. CASE Advance(p) /\ first' = [first EXCEPT ![p] = buffer[p]]
    BY <2>1, <2>2 DEF Advance, TypeOK, AtStart
  <2>3. CASE UNCHANGED <<offset, first>>
    BY <1>1, <2>1, <2>3 DEF AtStart
  <2> QED
    BY <1>11, <2>2, <2>3 DEF Copy
<1>12. CASE LevelChanges
  BY <1>2, <1>12 DEF LevelChanges, fileVars
<1>13. CASE UNCHANGED vars
  BY <1>2, <1>13 DEF vars, fileVars, history
<1> QED
  BY <1>2, <1>3, <1>4, <1>5, <1>6, <1>7, <1>8, <1>9, <1>10, <1>11, <1>12, <1>13 DEF Next

LEMMA WriteInvariance == Spec => [](TypeOK /\ WriteInv)
<1>1. Init => WriteInv
  BY DEF Init, WriteInv, AtStart
<1> QED
  BY <1>1, InitType, TypeStep, WriteStep, PTL DEF Spec

(* A write sets its bit to what the file's buffer holds.                   *)
LEMMA TargetSet ==
  ASSUME TypeOK, NEW p \in Procs, Apply(p)
  PROVE  Target(p)' <=> buffer[p]
<1> DEFINE port == PortOf(PinOf(p))
           bit == Bit(PinOf(p))
<1>1. DirRegister(port) \in DirRegisters /\ port \in Ports
  BY FileType, PortAndBit DEF Ports
<1>2. file' = file
  BY DEF Apply, fileVars
<1>3. bit \in SetBit(dir[DirRegister(port)], bit, buffer[p]) <=> buffer[p]
  BY DEF SetBit
<1>4. bit \in SetBit(out[port], bit, buffer[p]) <=> buffer[p]
  BY DEF SetBit
<1>5. CASE FunctionOf(p) = "direction"
  <2>1. dir' = [dir EXCEPT ![DirRegister(port)] =
                  SetBit(dir[DirRegister(port)], bit, buffer[p])]
    BY <1>5 DEF Apply
  <2>2. Target(p)' <=> bit \in dir'[DirRegister(port)]
    BY <1>2, <1>5 DEF Target, IsOutput, FunctionOf, PinOf
  <2>3. dir'[DirRegister(port)] = SetBit(dir[DirRegister(port)], bit, buffer[p])
    BY <1>1, <2>1 DEF TypeOK
  <2> QED BY <1>3, <2>2, <2>3
<1>6. CASE FunctionOf(p) # "direction"
  <2>1. out' = [out EXCEPT ![port] = SetBit(out[port], bit, buffer[p])]
    BY <1>6 DEF Apply
  <2>2. Target(p)' <=> bit \in out'[port]
    BY <1>2, <1>6 DEF Target, Latch, FunctionOf, PinOf
  <2>3. out'[port] = SetBit(out[port], bit, buffer[p])
    BY <1>1, <2>1 DEF TypeOK
  <2> QED BY <1>4, <2>2, <2>3
<1> QED
  BY <1>5, <1>6

(* Every write through an open file sets the pin to the character that was *)
(* written or told first through that file, and so never to what another   *)
(* process wrote or was told (GPIO/src/file.c:144-192).                    *)
THEOREM OwnCharacters == Spec => OwnCharacterApplied
<1>1. ASSUME TypeOK, WriteInv, NEW p \in Procs, Apply(p)
      PROVE  Target(p)' = first[p]
  <2>1. buffer[p] = first[p] /\ buffer[p] \in BOOLEAN
    BY <1>1 DEF WriteInv, TypeOK, Apply, Goes
  <2>2. Target(p)' \in BOOLEAN
    <3>1. IsOutput(PinOf(p))' \in BOOLEAN /\ Latch(PinOf(p))' \in BOOLEAN
      BY DEF IsOutput, Latch
    <3> QED BY <3>1, Zenon DEF Target
  <2> QED
    BY <1>1, <2>1, <2>2, TargetSet
<1>2. TypeOK /\ WriteInv => [\A p \in Procs : Apply(p) => Target(p)' = first[p]]_vars
  BY <1>1
<1> QED
  BY <1>2, WriteInvariance, PTL DEF OwnCharacterApplied

-----------------------------------------------------------------------------
(* A read between its two looks at the registers has noted the level of    *)
(* now, and knows the direction while it rests; its answer was noted.      *)
ReadInv ==
  \A p \in Procs : pc[p] = "state" =>
    /\ PinLevel(PinOf(p)) \in seen[p]
    /\ calm[p] => isInput[p] = ~IsOutput(PinOf(p))

(* Whoever watches notes the level after a step, and loses its calm with   *)
(* the direction.                                                          *)
LEMMA Watched ==
  ASSUME TypeOK, ReadInv, Observe, NEW p \in Procs, pc[p] = "state",
         file'[p] = file[p], isInput'[p] = isInput[p]
  PROVE  /\ PinLevel(PinOf(p))' \in seen'[p]
         /\ calm'[p] => isInput'[p] = ~IsOutput(PinOf(p))'
         /\ calm'[p] => calm[p]
<1>1. p \in Watching
  BY DEF Watching
<1>2. PinOf(p)' = PinOf(p)
  BY DEF PinOf
<1>3. seen'[p] = seen[p] \cup {PinLevel(PinOf(p))'}
  BY <1>1 DEF Observe
<1>4. calm'[p] = (calm[p] /\ (p \in Watching => IsOutput(PinOf(p))' = IsOutput(PinOf(p))))
  BY DEF Observe
<1> QED
  BY <1>1, <1>2, <1>3, <1>4 DEF ReadInv

LEMMA Unwatched ==
  ASSUME TypeOK, Observe, NEW p \in Procs, pc[p] # "state"
  PROVE  seen'[p] = seen[p] /\ calm'[p] = calm[p]
<1>1. p \notin Watching
  BY DEF Watching
<1> QED
  BY <1>1 DEF Observe, TypeOK

LEMMA ReadStep ==
  ASSUME TypeOK, ReadInv, CalmReadsCurrent, [Next]_vars
  PROVE  ReadInv' /\ CalmReadsCurrent'
<1> SUFFICES ASSUME NEW p \in Procs
             PROVE  /\ pc'[p] = "state" =>
                         /\ PinLevel(PinOf(p))' \in seen'[p]
                         /\ calm'[p] => isInput'[p] = ~IsOutput(PinOf(p))'
                    /\ pc'[p] = "copy" /\ FunctionOf(p)' = "value" /\ calm'[p]
                         => buffer'[p] \in seen'[p]
  BY DEF ReadInv, CalmReadsCurrent
<1> DEFINE Same == UNCHANGED <<pc[p], file[p], isInput[p], buffer[p]>>
<1> DEFINE Seen == UNCHANGED <<seen[p], calm[p]>>
<1> DEFINE Still == UNCHANGED <<dir, out, level>>
<1>1. ASSUME Same, Seen, Still
      PROVE  /\ pc'[p] = "state" =>
                  /\ PinLevel(PinOf(p))' \in seen'[p]
                  /\ calm'[p] => isInput'[p] = ~IsOutput(PinOf(p))'
             /\ pc'[p] = "copy" /\ FunctionOf(p)' = "value" /\ calm'[p]
                  => buffer'[p] \in seen'[p]
  <2>1. PinLevel(PinOf(p))' = PinLevel(PinOf(p)) /\ IsOutput(PinOf(p))' = IsOutput(PinOf(p))
    BY <1>1 DEF PinLevel, IsOutput, Latch, PinOf
  <2>2. FunctionOf(p)' = FunctionOf(p)
    BY <1>1 DEF FunctionOf
  <2> QED
    BY <1>1, <2>1, <2>2 DEF ReadInv, CalmReadsCurrent
<1>2. ASSUME Same, Observe
      PROVE  /\ pc'[p] = "state" =>
                  /\ PinLevel(PinOf(p))' \in seen'[p]
                  /\ calm'[p] => isInput'[p] = ~IsOutput(PinOf(p))'
             /\ pc'[p] = "copy" /\ FunctionOf(p)' = "value" /\ calm'[p]
                  => buffer'[p] \in seen'[p]
  <2>1. CASE pc[p] = "state"
    BY <1>2, <2>1, Watched
  <2>2. CASE pc[p] # "state"
    <3>1. Seen /\ FunctionOf(p)' = FunctionOf(p)
      BY <1>2, <2>2, Unwatched DEF FunctionOf
    <3> QED
      BY <1>2, <2>2, <3>1 DEF CalmReadsCurrent
  <2> QED
    BY <2>1, <2>2
<1>3. ASSUME NEW q \in Procs, q # p,
             \/ Open(q) \/ Release(q) \/ Write(q) \/ WriteNothing(q) \/ Read(q)
             \/ GetDirection(q) \/ ChooseRegister(q) \/ GetState(q) \/ Copy(q)
      PROVE  Same /\ Seen /\ Still
  BY <1>3 DEF TypeOK, Open, Release, Write, WriteNothing, Read, GetDirection,
    ChooseRegister, GetState, Copy, Goes, Store, history, fileVars, registers
<1>4. ASSUME NEW q \in Procs, q # p, Apply(q) PROVE Same /\ Observe
  BY <1>4 DEF TypeOK, Apply, Goes, fileVars
<1>5. ASSUME \/ Open(p) \/ Release(p) \/ Write(p) \/ WriteNothing(p) \/ Apply(p)
             \/ Read(p) \/ Copy(p)
      PROVE  pc'[p] # "state" /\ pc'[p] # "copy"
  BY <1>5 DEF TypeOK, Open, Release, Write, WriteNothing, Apply, Read, Copy, Goes
<1>6. ASSUME GetDirection(p)
      PROVE  pc'[p] = "copy" /\ FunctionOf(p)' # "value"
  BY <1>6 DEF TypeOK, GetDirection, Goes, FunctionOf
<1>7. ASSUME ChooseRegister(p)
      PROVE  /\ pc'[p] = "state"
             /\ PinLevel(PinOf(p))' \in seen'[p]
             /\ isInput'[p] = ~IsOutput(PinOf(p))'
  <2>1. PinLevel(PinOf(p))' = PinLevel(PinOf(p)) /\ IsOutput(PinOf(p))' = IsOutput(PinOf(p))
    BY <1>7 DEF ChooseRegister, PinLevel, IsOutput, Latch, PinOf, registers, fileVars
  <2>2. seen'[p] = {PinLevel(PinOf(p))} /\ isInput'[p] = ~IsOutput(PinOf(p))
    BY <1>7 DEF ChooseRegister, TypeOK
  <2> QED
    BY <1>7, <2>1, <2>2 DEF ChooseRegister, Goes, TypeOK
<1>8. ASSUME GetState(p)
      PROVE  /\ pc'[p] = "copy"
             /\ calm'[p] => buffer'[p] \in seen'[p]
  <2>1. /\ pc[p] = "state" /\ pc'[p] = "copy"
        /\ seen' = seen /\ calm' = calm
        /\ buffer'[p] = State(p)
    BY <1>8 DEF GetState, Goes, Store, TypeOK, history
  <2>2. calm[p] => State(p) = PinLevel(PinOf(p))
    <3>1. ASSUME calm[p] PROVE isInput[p] = ~IsOutput(PinOf(p))
      BY <2>1, <3>1 DEF ReadInv
    <3>2. ASSUME IsOutput(PinOf(p)) PROVE PinLevel(PinOf(p)) = Latch(PinOf(p))
      BY <3>2 DEF PinLevel
    <3> QED
      BY <3>1, <3>2 DEF State
  <2> QED
    BY <2>1, <2>2 DEF ReadInv
<1>9. CASE LevelChanges
  <2>1. Same /\ Observe
    BY <1>9 DEF LevelChanges, fileVars
  <2> QED
    BY <1>2, <2>1
<1>10. CASE UNCHANGED vars
  <2>1. Same /\ Seen /\ Still
    BY <1>10 DEF vars, registers, fileVars, history
  <2> QED
    BY <1>1, <2>1
<1>11. CASE \E q \in Procs :
              \/ Open(q) \/ Release(q) \/ Write(q) \/ WriteNothing(q) \/ Apply(q) \/ Read(q)
              \/ GetDirection(q) \/ ChooseRegister(q) \/ GetState(q) \/ Copy(q)
  <2>1. PICK q \in Procs :
              \/ Open(q) \/ Release(q) \/ Write(q) \/ WriteNothing(q) \/ Apply(q) \/ Read(q)
              \/ GetDirection(q) \/ ChooseRegister(q) \/ GetState(q) \/ Copy(q)
    BY <1>11
  <2>2. CASE q # p
    <3>1. (Same /\ Seen /\ Still) \/ (Same /\ Observe)
      BY <2>1, <2>2, <1>3, <1>4
    <3> QED
      BY <3>1, <1>1, <1>2
  <2>3. CASE q = p
    BY <2>1, <2>3, <1>5, <1>6, <1>7, <1>8
  <2> QED
    BY <2>2, <2>3
<1> QED
  BY <1>9, <1>10, <1>11 DEF Next

LEMMA ReadInvariance == Spec => [](ReadInv /\ CalmReadsCurrent)
<1>1. Init => ReadInv /\ CalmReadsCurrent
  BY DEF Init, ReadInv, CalmReadsCurrent
<1>2. TypeOK /\ ReadInv /\ CalmReadsCurrent /\ [Next]_vars
        => ReadInv' /\ CalmReadsCurrent'
  BY ReadStep
<1> QED
  BY <1>1, <1>2, InitType, TypeStep, PTL DEF Spec

(* While nobody changes the direction between its two looks at the         *)
(* registers, a read answers a level the pin had (gpio.c:198-216).         *)
THEOREM CalmReads == Spec => []CalmReadsCurrent
BY ReadInvariance, PTL

-----------------------------------------------------------------------------
(* The refinement: every step of the driver is one of the service, or none.*)

(* What a change of label is to the service, whatever the labels are.      *)
LEMMA Moves ==
  ASSUME TypeOK, NEW p \in Procs, NEW a, NEW b, Goes(p, a, b),
         \A q \in Procs \ {p} : UNCHANGED <<file[q], buffer[q]>>
  PROVE  /\ pc[p] = a /\ Phase[p] = PhaseOf(a) /\ Phase' = [Phase EXCEPT ![p] = PhaseOf(b)]
         /\ a # "closed" => Uses[p] = file[p]
         /\ Uses' = [Uses EXCEPT ![p] = IF b = "closed" THEN <<"none", "none">> ELSE file'[p]]
         /\ a # "copy" => Answer[p] = {}
         /\ Answer' = [Answer EXCEPT ![p] = IF b = "copy" THEN {buffer'[p]} ELSE {}]
<1>1. /\ pc[p] = a /\ pc'[p] = b
      /\ \A q \in Procs \ {p} : pc'[q] = pc[q]
  BY DEF Goes, TypeOK
<1>2. Phase[p] = PhaseOf(a) /\ Phase' = [Phase EXCEPT ![p] = PhaseOf(b)]
  BY <1>1 DEF Phase
<1>3. /\ a # "closed" => Uses[p] = file[p]
      /\ Uses' = [Uses EXCEPT ![p] = IF b = "closed" THEN <<"none", "none">> ELSE file'[p]]
  BY <1>1 DEF Uses
<1>5. /\ a # "copy" => Answer[p] = {}
      /\ Answer' = [Answer EXCEPT ![p] = IF b = "copy" THEN {buffer'[p]} ELSE {}]
  BY <1>1 DEF Answer
<1> QED BY <1>1, <1>2, <1>3, <1>5

(* What the files carry stays while offsets and the buffers of the files   *)
(* that were read or written stay.                                         *)
LEMMA CarriedStays ==
  ASSUME offset' = offset, \A q \in Procs : offset[q] # 0 => buffer'[q] = buffer[q]
  PROVE  Carried' = Carried
BY DEF Carried

(* One file carries b now, the others are left alone.                      *)
LEMMA CarriedBecomes ==
  ASSUME NEW p \in Procs, NEW b, offset'[p] = 1, buffer'[p] = b,
         \A q \in Procs \ {p} : offset'[q] = offset[q] /\ buffer'[q] = buffer[q]
  PROVE  Carried' = [Carried EXCEPT ![p] = {b}]
<1>1. Carried'[p] = {b}
  BY DEF Carried
<1>2. \A q \in Procs \ {p} : Carried'[q] = Carried[q]
  BY DEF Carried
<1>3. Carried' = [q \in Procs |-> Carried'[q]] /\ Carried = [q \in Procs |-> Carried[q]]
  BY DEF Carried
<1> QED BY <1>1, <1>2, <1>3

(* As long as the registers stay, so do the pins.                          *)
LEMMA PinsStay ==
  ASSUME UNCHANGED registers
  PROVE  UNCHANGED <<Outputs, High>>
BY DEF registers, Outputs, High, IsOutput, Latch

LEMMA PinsAre ==
  ASSUME TypeOK, NEW p \in Procs
  PROVE  /\ PinOf(p) \in Pins
         /\ PinOf(p) \in Outputs <=> IsOutput(PinOf(p))
         /\ PinOf(p) \in High <=> Latch(PinOf(p))
<1>1. PinOf(p) \in Pins
  BY DEF TypeOK, PinOf, Pins
<1> QED BY <1>1 DEF Outputs, High

(* A step between labels at which nobody watches.                          *)
LEMMA SteadyStays ==
  ASSUME TypeOK, NEW p \in Procs, NEW a, NEW b, Goes(p, a, b), a # "state", b # "state",
         \A q \in Procs \ {p} : calm'[q] = calm[q]
  PROVE  Steady' = Steady
<1>1. /\ pc[p] = a /\ pc'[p] = b
      /\ \A q \in Procs \ {p} : pc'[q] = pc[q]
  BY DEF Goes, TypeOK
<1> QED BY <1>1 DEF Steady, Watching

(* Who watches stays steady while the direction of its pin stays.          *)
LEMMA SteadyObserves ==
  ASSUME TypeOK, Observe, file' = file, Watching' = Watching
  PROVE  Steady' = {q \in Steady : IsOutput(PinOf(q))' <=> IsOutput(PinOf(q))}
<1>1. ASSUME NEW q \in Watching
      PROVE  calm'[q] <=> calm[q] /\ (IsOutput(PinOf(q))' <=> IsOutput(PinOf(q)))
  <2>1. q \in Procs
    BY DEF Watching
  <2>2. calm'[q] = (calm[q] /\ (q \in Watching => IsOutput(PinOf(q))' = IsOutput(PinOf(q))))
    BY <2>1 DEF Observe
  <2>3. IsOutput(PinOf(q)) \in BOOLEAN /\ IsOutput(PinOf(q))' \in BOOLEAN
    BY DEF IsOutput
  <2> QED BY <1>1, <2>2, <2>3
<1> QED BY <1>1 DEF Steady

LEMMA OpenEnters ==
  ASSUME TypeOK, WriteInv, NEW p \in Procs, Open(p)
  PROVE  Service!Enter(p)
<1>1. Goes(p, "closed", "open") /\ UNCHANGED <<registers, level, history>>
  BY DEF Open
<1>2. PICK f \in Files, b \in BOOLEAN :
        file' = [file EXCEPT ![p] = f] /\ buffer' = [buffer EXCEPT ![p] = b]
  BY DEF Open
<1>3. \A q \in Procs \ {p} : UNCHANGED <<file[q], buffer[q]>>
  BY <1>1, <1>2 DEF TypeOK, history
<1>4. file'[p] = f
  BY <1>2 DEF TypeOK
<1>5. /\ Phase[p] = "out" /\ Phase' = [Phase EXCEPT ![p] = "in"]
      /\ Uses' = [Uses EXCEPT ![p] = f]
      /\ Answer[p] = {} /\ Answer' = [Answer EXCEPT ![p] = {}]
  BY <1>1, <1>3, <1>4, Moves DEF PhaseOf
<1>6. Answer' = Answer /\ Carried' = Carried
  <2>1. Answer' = Answer
    BY <1>5 DEF Answer
  <2>2. offset' = offset /\ offset[p] = 0
    BY <1>1 DEF Open, Goes, WriteInv, AtStart
  <2> QED BY <1>3, <2>1, <2>2, CarriedStays
<1>7. UNCHANGED <<Outputs, High>> /\ Steady' = Steady
  BY <1>1, PinsStay, SteadyStays DEF history
<1> QED BY <1>1, <1>5, <1>6, <1>7 DEF Service!Enter, Service!Goes, Service!pins

LEMMA ReleaseLeaves ==
  ASSUME TypeOK, NEW p \in Procs, Release(p)
  PROVE  Service!Leave(p)
<1>1. Goes(p, "open", "closed") /\ UNCHANGED <<registers, level, calm>>
  BY DEF Release
<1>2. \A q \in Procs \ {p} : UNCHANGED <<file[q], buffer[q]>>
  BY DEF Release, TypeOK
<1>3. /\ Phase[p] = "in" /\ Phase' = [Phase EXCEPT ![p] = "out"]
      /\ Uses' = [Uses EXCEPT ![p] = <<"none", "none">>]
      /\ Answer[p] = {} /\ Answer' = [Answer EXCEPT ![p] = {}]
  BY <1>1, <1>2, Moves DEF PhaseOf
<1>4. Answer' = Answer /\ Carried' = [Carried EXCEPT ![p] = {}]
  <2>1. Answer' = Answer
    BY <1>3 DEF Answer
  <2>2. offset'[p] = 0 /\ \A q \in Procs \ {p} : offset'[q] = offset[q]
    BY DEF Release, TypeOK
  <2> QED BY <1>2, <2>1, <2>2 DEF Carried
<1>5. UNCHANGED <<Outputs, High>> /\ Steady' = Steady
  BY <1>1, PinsStay, SteadyStays
<1> QED BY <1>1, <1>3, <1>4, <1>5 DEF Service!Leave, Service!Goes, Service!pins, Service!NoFile

(* A write through a file that carries nothing says what it sets.          *)
LEMMA WriteWrites ==
  ASSUME TypeOK, NEW p \in Procs, Write(p)
  PROVE  Service!Write(p)
<1>1. Goes(p, "open", "apply") /\ UNCHANGED <<registers, level, file, calm>>
  BY DEF Write
<1>2. \A q \in Procs \ {p} : UNCHANGED <<file[q], buffer[q], offset[q]>>
  BY DEF Write, Store, Advance, TypeOK
<1>3. /\ Phase[p] = "in" /\ Phase' = [Phase EXCEPT ![p] = "writing"]
      /\ Uses[p] = file[p] /\ Uses' = [Uses EXCEPT ![p] = file'[p]]
      /\ Answer[p] = {} /\ Answer' = [Answer EXCEPT ![p] = {}]
  BY <1>1, <1>2, Moves DEF PhaseOf
<1>4. Uses' = Uses /\ Answer' = Answer
  BY <1>1, <1>3 DEF Uses, Answer
<1>5. UNCHANGED <<Outputs, High>> /\ Steady' = Steady
  BY <1>1, PinsStay, SteadyStays
<1>6. \E on \in BOOLEAN :
        Carried' = [Carried EXCEPT ![p] = IF Carried[p] = {} THEN {on} ELSE Carried[p]]
  <2>1. PICK b \in BOOLEAN :
          IF offset[p] = 0 THEN Store(p, b) /\ Advance(p) ELSE UNCHANGED <<buffer, offset>>
    BY DEF Write
  <2>2. Carried[p] = IF offset[p] = 0 THEN {} ELSE {buffer[p]}
    BY DEF Carried
  <2>3. CASE offset[p] = 0
    <3>1. buffer'[p] = b /\ offset'[p] = 1
      BY <2>1, <2>3 DEF Store, Advance, TypeOK
    <3>2. Carried' = [Carried EXCEPT ![p] = {b}]
      BY <1>2, <3>1, CarriedBecomes
    <3>3. Carried[p] = {}
      BY <2>2, <2>3
    <3> QED BY <2>1, <3>2, <3>3, Zenon
  <2>4. CASE offset[p] # 0
    <3>1. Carried' = Carried
      BY <2>1, <2>4 DEF Carried
    <3> QED BY <2>2, <2>4, <3>1 DEF Carried
  <2> QED BY <2>3, <2>4
<1> QED BY <1>1, <1>3, <1>4, <1>5, <1>6 DEF Service!Write, Service!Goes, Service!pins

(* A write of nothing touches the buffer of a file that carries nothing.   *)
LEMMA NothingUnseen ==
  ASSUME TypeOK, NEW p \in Procs, WriteNothing(p)
  PROVE  UNCHANGED Service!vars
<1>1. /\ UNCHANGED <<registers, level, pc, file, offset, calm>>
      /\ pc[p] = "open" /\ offset[p] = 0
      /\ \A q \in Procs \ {p} : buffer'[q] = buffer[q]
  BY DEF WriteNothing, Store, TypeOK, history
<1>2. UNCHANGED <<Phase, Uses, Steady>>
  BY <1>1 DEF Phase, Uses, Steady, Watching
<1>3. Answer' = Answer
  BY <1>1 DEF Answer
<1>4. Carried' = Carried
  BY <1>1, CarriedStays
<1> QED BY <1>1, <1>2, <1>3, <1>4, PinsStay DEF Service!vars, Service!pins

(* A store to a SET or CLR register switches its pin and no other.         *)
LEMMA ApplySwitches ==
  ASSUME TypeOK, NEW p \in Procs, Apply(p)
  PROVE  IF FunctionOf(p) = "direction"
           THEN Outputs' = Service!Switched(Outputs, PinOf(p), buffer[p]) /\ High' = High
           ELSE High' = Service!Switched(High, PinOf(p), buffer[p]) /\ Outputs' = Outputs
<1>1. /\ PinOf(p) \in Pins /\ Pins \subseteq AllPins
      /\ file[p] = <<PinOf(p), FunctionOf(p)>> /\ FunctionOf(p) \in {"direction", "value"}
  BY PinsAre, FileType, FilesAreDevices
<1>2. PinOf(p)' = PinOf(p) /\ FunctionOf(p)' = FunctionOf(p)
  BY DEF Apply, fileVars, PinOf, FunctionOf
<1>3. Target(p)' <=> buffer[p]
  BY TargetSet
<1>4. CASE FunctionOf(p) = "direction"
  <2>1. High' = High
    BY <1>4 DEF Apply, High, Latch
  <2>2. ASSUME NEW pin \in Pins
        PROVE  IsOutput(pin)' <=> IF pin = PinOf(p) THEN buffer[p] ELSE IsOutput(pin)
    <3>1. CASE pin = PinOf(p)
      BY <1>2, <1>3, <1>4, <3>1 DEF Target
    <3>2. CASE pin # PinOf(p)
      <4>1. pin \in AllPins /\ file[p] # <<pin, "direction">>
        BY <1>1, <3>2
      <4>2. IsOutput(pin)' = IsOutput(pin)
        BY <4>1, DirectionOnly
      <4> QED BY <3>2, <4>2
    <3> QED BY <3>1, <3>2
  <2>3. Outputs' = Service!Switched(Outputs, PinOf(p), buffer[p])
    BY <1>1, <2>2 DEF Outputs, Service!Switched
  <2> QED BY <1>4, <2>1, <2>3
<1>5. CASE FunctionOf(p) # "direction"
  <2>1. Outputs' = Outputs
    BY <1>5 DEF Apply, Outputs, IsOutput
  <2>2. ASSUME NEW pin \in Pins
        PROVE  Latch(pin)' <=> IF pin = PinOf(p) THEN buffer[p] ELSE Latch(pin)
    <3>1. CASE pin = PinOf(p)
      BY <1>2, <1>3, <1>5, <3>1 DEF Target
    <3>2. CASE pin # PinOf(p)
      <4>1. pin \in AllPins /\ file[p] # <<pin, "value">>
        BY <1>1, <3>2
      <4>2. Latch(pin)' = Latch(pin)
        BY <4>1, ValueOnly
      <4> QED BY <3>2, <4>2
    <3> QED BY <3>1, <3>2
  <2>3. High' = Service!Switched(High, PinOf(p), buffer[p])
    BY <1>1, <2>2 DEF High, Service!Switched
  <2> QED BY <1>5, <2>1, <2>3
<1> QED BY <1>4, <1>5

LEMMA ApplyApplies ==
  ASSUME TypeOK, WriteInv, NEW p \in Procs, Apply(p)
  PROVE  Service!Apply(p)
<1>1. Goes(p, "apply", "open") /\ UNCHANGED <<level, file, buffer, offset>> /\ Observe
  BY DEF Apply, fileVars
<1>2. \A q \in Procs \ {p} : UNCHANGED <<file[q], buffer[q]>>
  BY DEF Apply, fileVars, TypeOK
<1>3. /\ pc[p] = "apply" /\ Phase[p] = "writing" /\ Phase' = [Phase EXCEPT ![p] = "in"]
      /\ Uses[p] = file[p] /\ Uses' = [Uses EXCEPT ![p] = file'[p]]
      /\ Answer[p] = {} /\ Answer' = [Answer EXCEPT ![p] = {}]
  BY <1>1, <1>2, Moves DEF PhaseOf
<1>4. UNCHANGED <<Uses, Answer, Carried>>
  BY <1>1, <1>3 DEF Uses, Answer, Carried
<1>5. buffer[p] \in Carried[p]
  BY <1>3 DEF WriteInv, Carried
<1>6. Uses[p][1] = PinOf(p) /\ Uses[p][2] = FunctionOf(p)
  BY <1>3 DEF PinOf, FunctionOf
<1>7. Steady' = {q \in Steady : Uses[q][1] \in Outputs' <=> Uses[q][1] \in Outputs}
  <2>1. Watching' = Watching
    BY <1>1 DEF Watching, Goes, TypeOK
  <2>2. Steady' = {q \in Steady : IsOutput(PinOf(q))' <=> IsOutput(PinOf(q))}
    BY <1>1, <2>1, SteadyObserves
  <2>3. ASSUME NEW q \in Steady
        PROVE  /\ Uses[q][1] \in Outputs <=> IsOutput(PinOf(q))
               /\ Uses[q][1] \in Outputs' <=> IsOutput(PinOf(q))'
    <3>1. q \in Procs /\ pc[q] = "state"
      BY DEF Steady, Watching
    <3>2. Uses[q] = file[q]
      BY <3>1 DEF Uses
    <3>3. PinOf(q) \in Pins /\ (PinOf(q) \in Outputs <=> IsOutput(PinOf(q)))
      BY <3>1, PinsAre
    <3>4. PinOf(q)' = PinOf(q) /\ PinOf(q) = Uses[q][1]
      BY <1>1, <3>2 DEF PinOf
    <3>5. PinOf(q) \in Outputs' <=> IsOutput(PinOf(q))'
      BY <3>3, <3>4 DEF Outputs
    <3> QED BY <3>3, <3>4, <3>5
  <2> QED BY <2>2, <2>3
<1>8. IF Uses[p][2] = "direction"
        THEN Outputs' = Service!Switched(Outputs, Uses[p][1], buffer[p]) /\ High' = High
        ELSE High' = Service!Switched(High, Uses[p][1], buffer[p]) /\ Outputs' = Outputs
  BY <1>6, ApplySwitches
<1> QED BY <1>1, <1>3, <1>4, <1>5, <1>7, <1>8 DEF Service!Apply, Service!Goes

LEMMA DirectionTold ==
  ASSUME TypeOK, WriteInv, NEW p \in Procs, GetDirection(p)
  PROVE  Service!TellDirection(p)
<1>1. /\ Goes(p, "direction", "copy") /\ UNCHANGED <<registers, level, file, history>>
      /\ FunctionOf(p) = "direction" /\ Store(p, IsOutput(PinOf(p)))
  BY DEF GetDirection
<1>2. \A q \in Procs \ {p} : UNCHANGED <<file[q], buffer[q]>>
  BY <1>1 DEF Store, TypeOK, history
<1>3. /\ Phase[p] = "in" /\ Phase' = [Phase EXCEPT ![p] = "told"]
      /\ Uses[p] = file[p] /\ Uses' = [Uses EXCEPT ![p] = file'[p]]
      /\ Answer' = [Answer EXCEPT ![p] = {buffer'[p]}]
  BY <1>1, <1>2, Moves DEF PhaseOf
<1>4. Uses' = Uses /\ Carried' = Carried /\ Carried[p] = {}
  <2>1. Uses' = Uses
    BY <1>1, <1>3 DEF Uses
  <2>2. offset' = offset /\ offset[p] = 0
    BY <1>1 DEF GetDirection, Goes, WriteInv, AtStart
  <2> QED BY <1>2, <2>1, <2>2, CarriedStays DEF Carried
<1>5. UNCHANGED <<Outputs, High>> /\ Steady' = Steady
  BY <1>1, PinsStay, SteadyStays DEF history
<1>6. Uses[p][1] = PinOf(p) /\ Uses[p][2] = "direction"
  BY <1>1, <1>3 DEF PinOf, FunctionOf
<1>7. buffer'[p] = (Uses[p][1] \in Outputs)
  <2>1. buffer'[p] = IsOutput(PinOf(p))
    BY <1>1 DEF Store, TypeOK
  <2>2. IsOutput(PinOf(p)) = (PinOf(p) \in Outputs)
    BY PinsAre DEF IsOutput
  <2> QED BY <1>6, <2>1, <2>2, Zenon
<1>8. Answer' = [Answer EXCEPT ![p] = {Uses[p][1] \in Outputs}]
  BY <1>3, <1>7, Zenon
<1> QED
  BY <1>1, <1>3, <1>4, <1>5, <1>6, <1>8 DEF Service!TellDirection, Service!Goes, Service!pins

LEMMA ChooseLooks ==
  ASSUME TypeOK, WriteInv, NEW p \in Procs, ChooseRegister(p)
  PROVE  Service!Look(p)
<1>1. /\ Goes(p, "direction", "state") /\ FunctionOf(p) = "value"
      /\ UNCHANGED <<registers, level, file, buffer, offset>>
      /\ calm' = [calm EXCEPT ![p] = TRUE]
  BY DEF ChooseRegister, fileVars
<1>2. /\ Phase[p] = "in" /\ Phase' = [Phase EXCEPT ![p] = "reading"]
      /\ Uses[p] = file[p] /\ Uses' = [Uses EXCEPT ![p] = file'[p]]
      /\ Answer[p] = {} /\ Answer' = [Answer EXCEPT ![p] = {}]
  BY <1>1, Moves DEF PhaseOf
<1>3. UNCHANGED <<Uses, Answer, Carried>> /\ Carried[p] = {}
  <2>1. offset[p] = 0
    BY <1>1 DEF Goes, WriteInv, AtStart
  <2> QED BY <1>1, <1>2, <2>1 DEF Uses, Answer, Carried
<1>4. UNCHANGED <<Outputs, High>>
  BY <1>1, PinsStay
<1>5. Steady' = Steady \cup {p}
  <2>1. /\ pc[p] = "direction" /\ pc'[p] = "state" /\ calm'[p]
        /\ \A q \in Procs \ {p} : pc'[q] = pc[q] /\ calm'[q] = calm[q]
    BY <1>1 DEF Goes, TypeOK
  <2> QED BY <2>1 DEF Steady, Watching
<1>6. Uses[p][2] = "value"
  BY <1>1, <1>2 DEF FunctionOf
<1> QED
  BY <1>1, <1>2, <1>3, <1>4, <1>5, <1>6 DEF Service!Look, Service!Goes, Service!pins

(* What get_port_state answers, and when it may be wrong.                  *)
LEMMA StateIs ==
  ASSUME TypeOK, ReadInv, NEW p \in Procs, pc[p] = "state"
  PROVE  \/ State(p) = Service!LevelOf(PinOf(p))
         \/ ~calm[p] /\ State(p) = (PinOf(p) \in High)
<1>1. Service!LevelOf(PinOf(p)) = PinLevel(PinOf(p))
  <2>1. Latch(PinOf(p)) = (PinOf(p) \in High)
    BY PinsAre DEF Latch
  <2>2. IsOutput(PinOf(p)) <=> PinOf(p) \in Outputs
    BY PinsAre
  <2> QED BY <2>1, <2>2, Zenon DEF Service!LevelOf, PinLevel
<1>2. Latch(PinOf(p)) = (PinOf(p) \in High)
  BY PinsAre DEF Latch
<1>3. CASE isInput[p]
  BY <1>1, <1>3, Zenon DEF State
<1>4. CASE ~isInput[p] /\ calm[p]
  <2>1. IsOutput(PinOf(p))
    BY <1>4 DEF ReadInv
  <2> QED BY <1>1, <1>4, <2>1, Zenon DEF State, PinLevel
<1>5. CASE ~isInput[p] /\ ~calm[p]
  BY <1>2, <1>5, Zenon DEF State
<1> QED BY <1>3, <1>4, <1>5

LEMMA StateTold ==
  ASSUME TypeOK, WriteInv, ReadInv, NEW p \in Procs, GetState(p)
  PROVE  Service!TellLevel(p)
<1>1. /\ Goes(p, "state", "copy") /\ UNCHANGED <<registers, level, file, history>>
      /\ Store(p, State(p))
  BY DEF GetState
<1>2. \A q \in Procs \ {p} : UNCHANGED <<file[q], buffer[q]>>
  BY <1>1 DEF Store, TypeOK, history
<1>3. /\ pc[p] = "state" /\ Phase[p] = "reading" /\ Phase' = [Phase EXCEPT ![p] = "told"]
      /\ Uses[p] = file[p] /\ Uses' = [Uses EXCEPT ![p] = file'[p]]
      /\ Answer' = [Answer EXCEPT ![p] = {buffer'[p]}]
  BY <1>1, <1>2, Moves DEF PhaseOf
<1>4. Uses' = Uses /\ Carried' = Carried /\ Carried[p] = {}
  <2>1. Uses' = Uses
    BY <1>1, <1>3 DEF Uses
  <2>2. offset' = offset /\ offset[p] = 0
    BY <1>1 DEF GetState, Goes, WriteInv, AtStart
  <2> QED BY <1>2, <2>1, <2>2, CarriedStays DEF Carried
<1>5. UNCHANGED <<Outputs, High>>
  BY <1>1, PinsStay
<1>6. Steady' = Steady \ {p}
  <2>1. /\ pc'[p] = "copy" /\ calm' = calm
        /\ \A q \in Procs \ {p} : pc'[q] = pc[q]
    BY <1>1 DEF Goes, TypeOK, history
  <2> QED BY <2>1 DEF Steady, Watching
<1>7. Uses[p][1] = PinOf(p)
  BY <1>3 DEF PinOf
<1>8. \/ Answer' = [Answer EXCEPT ![p] = {Service!LevelOf(Uses[p][1])}]
      \/ p \notin Steady /\ Answer' = [Answer EXCEPT ![p] = {Uses[p][1] \in High}]
  <2>1. buffer'[p] = State(p)
    BY <1>1 DEF Store, TypeOK
  <2>2. ~calm[p] => p \notin Steady
    BY DEF Steady
  <2> QED BY <1>3, <1>7, <2>1, <2>2, StateIs, Zenon
<1> QED
  BY <1>1, <1>3, <1>4, <1>5, <1>6, <1>8 DEF Service!TellLevel, Service!Goes, Service!pins

LEMMA CopyTakes ==
  ASSUME TypeOK, WriteInv, NEW p \in Procs, Copy(p)
  PROVE  Service!Take(p)
<1>1. /\ Goes(p, "copy", "open") /\ UNCHANGED <<registers, level, file, buffer>>
      /\ calm' = [calm EXCEPT ![p] = TRUE]
  BY DEF Copy
<1>2. /\ Phase[p] = "told" /\ Phase' = [Phase EXCEPT ![p] = "in"]
      /\ Uses[p] = file[p] /\ Uses' = [Uses EXCEPT ![p] = file'[p]]
      /\ Answer' = [Answer EXCEPT ![p] = {}]
  BY <1>1, Moves DEF PhaseOf
<1>3. Uses' = Uses
  BY <1>1, <1>2 DEF Uses
<1>4. \A q \in Procs \ {p} : calm'[q] = calm[q]
  BY <1>1 DEF TypeOK
<1>5. UNCHANGED <<Outputs, High>> /\ Steady' = Steady
  BY <1>1, <1>4, PinsStay, SteadyStays
<1>6. Carried' = [Carried EXCEPT ![p] = Answer[p]] \/ Carried' = Carried
  <2>1. Answer[p] = {buffer[p]}
    BY <1>1 DEF Answer, Goes
  <2>2. CASE Advance(p)
    <3>1. offset'[p] = 1 /\ \A q \in Procs \ {p} : offset'[q] = offset[q]
      BY <2>2 DEF Advance, TypeOK
    <3>2. Carried' = [Carried EXCEPT ![p] = {buffer[p]}]
      BY <1>1, <3>1, CarriedBecomes
    <3> QED BY <2>1, <3>2
  <2>3. CASE UNCHANGED offset
    BY <1>1, <2>3 DEF Carried
  <2> QED BY <2>2, <2>3 DEF Copy
<1> QED BY <1>1, <1>2, <1>3, <1>5, <1>6 DEF Service!Take, Service!Goes, Service!pins

LEMMA ReadUnseen ==
  ASSUME TypeOK, NEW p \in Procs, Read(p)
  PROVE  UNCHANGED Service!vars
<1>1. Goes(p, "open", "direction") /\ UNCHANGED <<registers, level, file, buffer, offset, history>>
  BY DEF Read, fileVars
<1>2. /\ Phase[p] = "in" /\ Phase' = [Phase EXCEPT ![p] = "in"]
      /\ Uses[p] = file[p] /\ Uses' = [Uses EXCEPT ![p] = file'[p]]
      /\ Answer[p] = {} /\ Answer' = [Answer EXCEPT ![p] = {}]
  BY <1>1, Moves DEF PhaseOf, history
<1>3. Phase' = Phase /\ Uses' = Uses
  BY <1>1, <1>2 DEF Phase, Uses
<1>4. Answer' = Answer /\ Carried' = Carried
  BY <1>1, <1>2 DEF Answer, Carried
<1>5. UNCHANGED <<Outputs, High>> /\ Steady' = Steady
  BY <1>1, PinsStay, SteadyStays DEF history
<1> QED BY <1>1, <1>3, <1>4, <1>5 DEF Service!vars, Service!pins

LEMMA LevelsChange ==
  ASSUME TypeOK, LevelChanges
  PROVE  Service!LevelChanges
<1>1. UNCHANGED <<registers, pc, file, buffer, offset>> /\ Observe
  BY DEF LevelChanges, fileVars
<1>2. UNCHANGED <<Phase, Uses, Carried, Answer>>
  BY <1>1 DEF Phase, Uses, Carried, Answer
<1>3. UNCHANGED <<Outputs, High>>
  BY <1>1, PinsStay
<1>4. Steady' = Steady
  <2>1. Watching' = Watching
    BY <1>1 DEF Watching
  <2>2. \A q \in Procs : IsOutput(PinOf(q))' <=> IsOutput(PinOf(q))
    BY <1>1 DEF IsOutput, PinOf, registers
  <2>3. Steady \subseteq Procs
    BY DEF Steady, Watching
  <2> QED BY <1>1, <2>1, <2>2, <2>3, SteadyObserves
<1>5. \E pin \in Pins : level' = Service!Switched(level, pin, pin \notin level)
  BY DEF LevelChanges, Service!Switched
<1> QED BY <1>2, <1>3, <1>4, <1>5 DEF Service!LevelChanges, Service!pins

LEMMA InitMaps == Init => Service!Init
<1> SUFFICES ASSUME Init PROVE Service!Init
  OBVIOUS
<1>1. \A p \in Procs : pc[p] = "closed" /\ offset[p] = 0
  BY DEF Init
<1>2. /\ Phase = [p \in Procs |-> "out"] /\ Uses = [p \in Procs |-> <<"none", "none">>]
      /\ Carried = [p \in Procs |-> {}] /\ Answer = [p \in Procs |-> {}] /\ Steady = {}
  BY <1>1 DEF PhaseOf, Phase, Uses, Carried, Answer, Steady, Watching
<1>3. Outputs = {} /\ High = {}
  <2>1. ASSUME NEW pin \in Pins PROVE ~IsOutput(pin) /\ ~Latch(pin)
    <3>1. DirRegister(PortOf(pin)) \in DirRegisters /\ PortOf(pin) \in Ports
      BY FilesAreDevices, PortAndBit DEF Ports
    <3> QED BY <3>1 DEF Init, IsOutput, Latch
  <2> QED BY <2>1 DEF Outputs, High
<1> QED BY <1>2, <1>3 DEF Init, Service!Init, Service!NoFile

LEMMA StepMaps ==
  TypeOK /\ WriteInv /\ ReadInv /\ [Next]_vars => [Service!Next]_Service!vars
<1> SUFFICES ASSUME TypeOK, WriteInv, ReadInv, [Next]_vars
             PROVE  [Service!Next]_Service!vars
  OBVIOUS
<1>1. CASE UNCHANGED vars
  <2>1. UNCHANGED <<pc, file, buffer, offset, calm, registers, level>>
    BY <1>1 DEF vars, fileVars, history
  <2>2. UNCHANGED <<Phase, Uses, Carried, Answer, Steady>>
    BY <2>1 DEF Phase, Uses, Carried, Answer, Steady, Watching
  <2> QED BY <2>1, <2>2, PinsStay DEF Service!vars, Service!pins
<1>2. ASSUME NEW p \in Procs,
             \/ Open(p) \/ Release(p) \/ Write(p) \/ WriteNothing(p) \/ Apply(p) \/ Read(p)
             \/ GetDirection(p) \/ ChooseRegister(p) \/ GetState(p) \/ Copy(p)
      PROVE  [Service!Next]_Service!vars
  BY <1>2, OpenEnters, ReleaseLeaves, WriteWrites, NothingUnseen, ApplyApplies, ReadUnseen,
     DirectionTold, ChooseLooks, StateTold, CopyTakes DEF Service!Next
<1>3. CASE LevelChanges
  BY <1>3, LevelsChange DEF Service!Next
<1> QED BY <1>1, <1>2, <1>3 DEF Next

(* The driver implements the service: pins are apart though their bits     *)
(* share registers, every write sets the character its file carries, the   *)
(* first that passed through it, and a read of a value tells the level of  *)
(* one moment, unless the direction changed meanwhile (file.c:37-192,      *)
(* gpio.c:164-234).                                                        *)
THEOREM ServiceKept == Spec => ServiceSpec
<1>1. Spec => [](TypeOK /\ WriteInv)
  BY WriteInvariance
<1>2. Spec => []ReadInv
  BY ReadInvariance
<1> QED
  BY <1>1, <1>2, InitMaps, StepMaps, PTL DEF Spec, ServiceSpec, Service!Spec
=============================================================================
