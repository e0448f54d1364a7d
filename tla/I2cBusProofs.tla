----------------------------- MODULE I2cBusProofs -----------------------------
(***************************************************************************)
(* Safety of the two I2C programs on one bus, for any number of runs of    *)
(* the bus tool, any commands and settings, and any devices.               *)
(***************************************************************************)
EXTENDS I2cBus, SequenceTheorems, TLAPS

(* Remainders of register numbers are register numbers.                    *)
LEMMA AnyRegister ==
  /\ \A x \in Int : x % NumRegisters \in Registers
  /\ \A r \in Registers : r \in Int /\ r % NumRegisters = r
<1>1. NumRegisters \in Nat \ {0}
  BY SlaveAssumption
<1>2. \A n \in Nat \ {0} : /\ \A x \in Int : x % n \in 0..(n - 1)
                           /\ \A r \in 0..(n - 1) : r \in Int /\ r % n = r
  OBVIOUS
<1> QED BY <1>1, <1>2 DEF Registers

(* Multiples of N less than N apart are the same.                          *)
LEMMA NextMultiple ==
  ASSUME NEW N \in Nat \ {0}, NEW p \in Int, NEW q \in Int, N * p < N * q + N
  PROVE  p <= q
<1>1. SUFFICES ASSUME p > q PROVE FALSE
  OBVIOUS
<1>2. PICK d \in Nat : p = q + 1 + d
  <2>1. p - q - 1 \in Nat /\ p = q + 1 + (p - q - 1)
    BY <1>1
  <2> QED BY <2>1
<1>3. N * (q + 1 + d) = N * q + N + N * d
  OBVIOUS
<1>4. N * d \in Nat
  OBVIOUS
<1> QED BY <1>2, <1>3, <1>4

(* Counting on from a remainder is counting on from the number.            *)
LEMMA RemainderPlus ==
  ASSUME NEW N \in Nat \ {0}, NEW a \in Int, NEW k \in Int
  PROVE  ((a % N) + k) % N = (a + k) % N
<1> DEFINE b == (a % N) + k
           p == (a \div N) + (b \div N)
           q == (a + k) \div N
<1>1. \A x \in Int : /\ x \div N \in Int /\ x % N \in 0..(N - 1)
                     /\ x = N * (x \div N) + (x % N)
  <2> TAKE x \in Int
  <2>1. x \div N \in Int
    OBVIOUS
  <2>2. x % N \in 0..(N - 1)
    OBVIOUS
  <2>3. x = N * (x \div N) + (x % N)
    OBVIOUS
  <2> QED BY <2>1, <2>2, <2>3
<1>2. a \div N \in Int /\ a % N \in Int /\ a = N * (a \div N) + (a % N)
  BY <1>1
<1>3. b \in Int
  BY <1>2
<1>4. b \div N \in Int /\ b % N \in 0..(N - 1) /\ b = N * (b \div N) + (b % N)
  BY <1>1, <1>3
<1>5. q \in Int /\ (a + k) % N \in 0..(N - 1) /\ a + k = N * q + ((a + k) % N)
  BY <1>1
<1>6. p \in Int
  BY <1>2, <1>4
<1>7. N * p = N * (a \div N) + N * (b \div N)
  BY <1>2, <1>4
<1>8. a + k = N * p + (b % N)
  <2>1. a + k = N * (a \div N) + b
    BY <1>2
  <2> QED BY <2>1, <1>2, <1>4, <1>7
<1>9. N * p \in Int /\ N * q \in Int
  BY <1>5, <1>6
<1>10. p <= q
  <2>1. N * p < N * q + N
    BY <1>4, <1>5, <1>8, <1>9
  <2> HIDE DEF p, q
  <2> QED BY <2>1, <1>5, <1>6, NextMultiple
<1>11. q <= p
  <2>1. N * q < N * p + N
    BY <1>4, <1>5, <1>8, <1>9
  <2> HIDE DEF p, q
  <2> QED BY <2>1, <1>5, <1>6, NextMultiple
<1>12. p = q
  BY <1>5, <1>6, <1>10, <1>11
<1> QED BY <1>4, <1>5, <1>8, <1>9, <1>12

(* Bytes are numbers.                                                      *)
LEMMA ByteInt == \A b \in Byte : b \in Int
BY DEF Byte

-----------------------------------------------------------------------------
(* What a device does with a message.                                      *)

(* The pointer a message sets, and the bytes behind it.                    *)
LEMMA MessageParts ==
  ASSUME NEW s \in Slaves, NEW message \in Messages, Len(message) >= PointerBytes[s]
  PROVE  /\ Target(s, message) \in Registers
         /\ Data(s, message) \in Messages
         /\ Len(Data(s, message)) = Len(message) - PointerBytes[s]
         /\ \A i \in 1..Len(Data(s, message)) :
              Data(s, message)[i] = message[i + PointerBytes[s]]
<1>1. PointerBytes[s] \in {1, 2} /\ Len(message) \in Nat
  BY SlaveAssumption DEF Messages
<1>2. \A i \in 1..Len(message) : message[i] \in Byte
  BY ElementOfSeq DEF Messages
<1>3. Target(s, message) \in Registers
  <2>1. message[1] \in Int
    <3>1. message[1] \in Byte
      BY <1>1, <1>2
    <3> QED BY <3>1, ByteInt
  <2>2. PointerBytes[s] # 1 => message[2] \in Int
    <3>1. PointerBytes[s] # 1 => message[2] \in Byte
      BY <1>1, <1>2
    <3> QED BY <3>1, ByteInt
  <2>3. (IF PointerBytes[s] = 1 THEN message[1] ELSE message[1] * 256 + message[2]) \in Int
    BY <2>1, <2>2
  <2> QED BY <2>3, AnyRegister DEF Target
<1>4. PICK m \in Int : m = PointerBytes[s] + 1
  BY <1>1
<1>5. \A i \in m..Len(message) : message[i] \in Byte
  BY <1>1, <1>2, <1>4
<1>6. /\ SubSeq(message, m, Len(message)) \in Seq(Byte)
      /\ Len(SubSeq(message, m, Len(message))) =
           IF m <= Len(message) THEN Len(message) - m + 1 ELSE 0
      /\ \A i \in 1..(Len(message) - m + 1) :
           SubSeq(message, m, Len(message))[i] = message[m + i - 1]
  BY <1>1, <1>5, SubSeqProperties
<1>7. Data(s, message) = SubSeq(message, m, Len(message))
  BY <1>4 DEF Data
<1>8. Len(Data(s, message)) = Len(message) - PointerBytes[s]
  BY <1>1, <1>4, <1>6, <1>7
<1>9. \A i \in 1..Len(Data(s, message)) :
        Data(s, message)[i] = message[i + PointerBytes[s]]
  <2> TAKE i \in 1..Len(Data(s, message))
  <2>1. i \in 1..(Len(message) - m + 1) /\ m + i - 1 = i + PointerBytes[s]
    BY <1>1, <1>4, <1>8
  <2> QED BY <2>1, <1>6, <1>7
<1> QED BY <1>3, <1>6, <1>7, <1>8, <1>9 DEF Messages

(* Bytes are stored over bytes.                                            *)
LEMMA StoredBytes ==
  ASSUME NEW content \in [Registers -> Byte], NEW from \in Registers,
         NEW bytes \in Messages
  PROVE  Stored(content, from, bytes) \in [Registers -> Byte]
<1> SUFFICES ASSUME NEW r \in Registers,
                    NEW i, i = ((r - from) % NumRegisters) + 1
             PROVE  (IF i <= Len(bytes) THEN bytes[i] ELSE content[r]) \in Byte
  BY DEF Stored
<1>1. r - from \in Int
  BY AnyRegister
<1>2. (r - from) % NumRegisters \in Registers
  BY <1>1, AnyRegister
<1>3. i \in Nat \ {0}
  BY <1>2, SlaveAssumption DEF Registers
<1>4. Len(bytes) \in Nat
  BY DEF Messages
<1>5. CASE i <= Len(bytes)
  <2>1. i \in 1..Len(bytes)
    BY <1>3, <1>4, <1>5
  <2> QED BY <1>5, <2>1, ElementOfSeq DEF Messages
<1>6. CASE ~(i <= Len(bytes))
  BY <1>6
<1> QED BY <1>5, <1>6

(* No bytes change nothing.                                                *)
LEMMA NothingStored ==
  ASSUME NEW content \in [Registers -> Byte], NEW from \in Registers,
         NEW bytes \in Messages, Len(bytes) = 0
  PROVE  Stored(content, from, bytes) = content
<1>1. \A r \in Registers : ((r - from) % NumRegisters) + 1 > 0
  <2> TAKE r \in Registers
  <2>1. r - from \in Int
    BY AnyRegister
  <2>2. (r - from) % NumRegisters \in Registers
    BY <2>1, AnyRegister
  <2> QED BY <2>2, SlaveAssumption DEF Registers
<1>2. \A r \in Registers : Stored(content, from, bytes)[r] = content[r]
  <2> TAKE r \in Registers
  <2>1. ~(((r - from) % NumRegisters) + 1 <= Len(bytes))
    <3>1. PICK x : x = ((r - from) % NumRegisters) + 1
      OBVIOUS
    <3>2. (r - from) % NumRegisters \in Registers
      BY AnyRegister
    <3> QED BY <3>2, SlaveAssumption DEF Registers
  <2> QED BY <2>1 DEF Stored
<1> QED BY <1>2 DEF Stored

(* One byte changes one register.                                          *)
LEMMA OneStored ==
  ASSUME NEW content \in [Registers -> Byte], NEW from \in Registers,
         NEW bytes \in Messages, Len(bytes) = 1
  PROVE  Stored(content, from, bytes) = [content EXCEPT ![from] = bytes[1]]
<1>1. \A n \in Nat \ {0} : \A r, f \in 0..(n - 1) :
        /\ (r - f) % n \in 0..(n - 1)
        /\ r = f => (r - f) % n = 0
        /\ r # f => (r - f) % n # 0
  <2> TAKE n \in Nat \ {0}
  <2> TAKE r, f \in 0..(n - 1)
  <2>1. CASE r >= f
    <3>1. r - f \in 0..(n - 1)
      BY <2>1
    <3>2. \A x \in 0..(n - 1) : x % n = x
      OBVIOUS
    <3> QED BY <3>1, <3>2
  <2>2. CASE r < f
    <3>1. r - f \in -(n - 1)..-1 /\ r - f + n \in 1..(n - 1)
      BY <2>2
    <3>2. \A x \in -(n - 1)..-1 : x % n = x + n
      OBVIOUS
    <3> QED BY <3>1, <3>2
  <2> QED BY <2>1, <2>2
<1>2. \A r \in Registers :
        Stored(content, from, bytes)[r] = [content EXCEPT ![from] = bytes[1]][r]
  <2> TAKE r \in Registers
  <2>1. PICK x \in Int : x = (r - from) % NumRegisters
    BY AnyRegister DEF Registers
  <2>2. x \in Nat /\ (r = from <=> x = 0)
    BY <1>1, <2>1, SlaveAssumption DEF Registers
  <2>3. Stored(content, from, bytes)[r] = IF x + 1 <= Len(bytes) THEN bytes[x + 1] ELSE content[r]
    BY <2>1 DEF Stored
  <2> QED BY <2>2, <2>3
<1> QED BY <1>2 DEF Stored

(* A message that arrives: the types, the other devices, and what a        *)
(* message without data leaves alone.                                      *)
LEMMA Received ==
  ASSUME SlaveTypeOK, NEW s \in Slaves, NEW message \in Messages,
         Receive(s, message)
  PROVE  /\ registers' \in [Slaves -> [Registers -> Byte]]
         /\ pointer' \in [Slaves -> Registers]
         /\ \A q \in Slaves \ {s} :
              registers'[q] = registers[q] /\ pointer'[q] = pointer[q]
         /\ Len(message) <= PointerBytes[s] => registers' = registers
         /\ Len(message) = PointerBytes[s] => pointer'[s] = Target(s, message)
<1>1. PointerBytes[s] \in {1, 2} /\ Len(message) \in Nat
  BY SlaveAssumption DEF Messages
<1>2. /\ registers \in [Slaves -> [Registers -> Byte]]
      /\ pointer \in [Slaves -> Registers]
  BY DEF SlaveTypeOK
<1>3. CASE Len(message) < PointerBytes[s]
  <2>1. registers' = registers /\ pointer' = pointer
    BY <1>3 DEF Receive
  <2>2. Len(message) # PointerBytes[s]
    BY <1>1, <1>3
  <2> QED BY <1>2, <2>1, <2>2
<1>4. CASE ~(Len(message) < PointerBytes[s])
  <2>1. Len(message) >= PointerBytes[s]
    BY <1>1, <1>4
  <2>2. PICK from : from = Target(s, message)
    OBVIOUS
  <2>3. PICK bytes : bytes = Data(s, message)
    OBVIOUS
  <2>4. /\ from \in Registers
        /\ bytes \in Messages
        /\ Len(bytes) = Len(message) - PointerBytes[s]
    BY <2>1, <2>2, <2>3, MessageParts
  <2>5. /\ registers' = [registers EXCEPT ![s] = Stored(registers[s], from, bytes)]
        /\ pointer' = [pointer EXCEPT ![s] = (from + Len(bytes)) % NumRegisters]
    BY <1>4, <2>2, <2>3 DEF Receive
  <2>6. registers[s] \in [Registers -> Byte]
    BY <1>2
  <2>7. Stored(registers[s], from, bytes) \in [Registers -> Byte]
    BY <2>4, <2>6, StoredBytes
  <2>8. (from + Len(bytes)) % NumRegisters \in Registers
    <3>1. from + Len(bytes) \in Int
      BY <1>1, <2>4, AnyRegister
    <3> QED BY <3>1, AnyRegister
  <2>9. ASSUME Len(message) <= PointerBytes[s] PROVE registers' = registers
    <3>1. Len(bytes) = 0
      BY <1>1, <2>1, <2>4, <2>9
    <3>2. Stored(registers[s], from, bytes) = registers[s]
      BY <2>4, <2>6, <3>1, NothingStored
    <3> QED BY <1>2, <2>5, <3>2
  <2>10. ASSUME Len(message) = PointerBytes[s] PROVE pointer'[s] = Target(s, message)
    <3>1. Len(bytes) = 0
      BY <1>1, <2>4, <2>10
    <3>2. from + Len(bytes) = from
      BY <2>4, <3>1, AnyRegister
    <3>3. from % NumRegisters = from
      BY <2>4, AnyRegister
    <3> QED BY <1>2, <2>2, <2>5, <3>2, <3>3
  <2> QED BY <1>2, <2>5, <2>7, <2>8, <2>9, <2>10
<1> QED BY <1>3, <1>4

(* The beginning of a message is a message.                                *)
LEMMA Beginning ==
  ASSUME NEW message \in Messages, NEW n \in 0..Len(message)
  PROVE  SubSeq(message, 1, n) \in Messages /\ Len(SubSeq(message, 1, n)) = n
<1>1. n \in Int /\ Len(message) \in Nat
  BY DEF Messages
<1>2. \A i \in 1..n : message[i] \in Byte
  BY <1>1, ElementOfSeq DEF Messages
<1>3. /\ SubSeq(message, 1, n) \in Seq(Byte)
      /\ Len(SubSeq(message, 1, n)) = IF 1 <= n THEN n - 1 + 1 ELSE 0
  BY <1>1, <1>2, SubSeqProperties
<1> QED BY <1>1, <1>3 DEF Messages

(* What a master's access to a device does at most.                        *)
Touches(m, s) ==
  /\ SlaveTypeOK'
  /\ \A q \in Slaves \ {s} : registers'[q] = registers[q] /\ pointer'[q] = pointer[q]
  /\ calm' \subseteq (calm \ Others(m, s)) \cup {<<m, s>>}

Sends(m, s, message) ==
  Selected(m, s, message) \/ Continued(m, s, message) \/ BrokenOff(m, s, message)

(* A message that is sent, whole or not.                                   *)
LEMMA Sending ==
  ASSUME SlaveTypeOK, NEW m \in Masters, NEW s, NEW message \in Messages,
         Sends(m, s, message)
  PROVE  /\ Touches(m, s)
         /\ s \in Slaves /\ Len(message) <= PointerBytes[s] => registers' = registers
         /\ s \notin Slaves => registers' = registers
<1>1. calm \subseteq Masters \X Slaves
  BY DEF SlaveTypeOK
<1>2. CASE BrokenOff(m, s, message) /\ s \notin Slaves
  <2>1. registers' = registers /\ pointer' = pointer
    BY <1>2 DEF BrokenOff
  <2>2. calm' = calm \ (Others(m, s) \cup {<<m, s>>})
    BY <1>2 DEF BrokenOff
  <2> QED BY <1>2, <2>1, <2>2 DEF SlaveTypeOK, Touches
<1>3. CASE s \in Slaves
  <2>1. PICK sent \in Messages : Receive(s, sent) /\ Len(sent) <= Len(message)
    <3>1. CASE Selected(m, s, message) \/ Continued(m, s, message)
      <4>1. Len(message) \in Nat
        BY DEF Messages
      <4> QED BY <3>1, <4>1 DEF Selected, Continued, Written
    <3>2. CASE BrokenOff(m, s, message)
      <4>1. PICK n \in 0..Len(message) : Receive(s, SubSeq(message, 1, n))
        BY <1>3, <3>2 DEF BrokenOff
      <4>2. Len(message) \in Nat
        BY DEF Messages
      <4>3. SubSeq(message, 1, n) \in Messages /\ Len(SubSeq(message, 1, n)) <= Len(message)
        BY <4>2, Beginning
      <4> QED BY <4>1, <4>3
    <3> QED BY <3>1, <3>2 DEF Sends
  <2>2. /\ registers' \in [Slaves -> [Registers -> Byte]]
        /\ pointer' \in [Slaves -> Registers]
        /\ \A q \in Slaves \ {s} :
             registers'[q] = registers[q] /\ pointer'[q] = pointer[q]
        /\ Len(sent) <= PointerBytes[s] => registers' = registers
    BY <1>3, <2>1, Received
  <2>3. Len(message) <= PointerBytes[s] => Len(sent) <= PointerBytes[s]
    BY <1>3, <2>1, SlaveAssumption DEF Messages
  <2>4. calm' \subseteq (calm \ Others(m, s)) \cup {<<m, s>>}
    BY DEF Sends, Selected, Continued, BrokenOff
  <2>5. calm' \subseteq Masters \X Slaves
    BY <1>1, <1>3, <2>4
  <2> QED BY <1>3, <2>2, <2>3, <2>4, <2>5 DEF SlaveTypeOK, Touches
<1> QED BY <1>2, <1>3 DEF Sends, Selected, Continued, Written

(* A message that is read, whole or not, changes no register.              *)
LEMMA Reading ==
  ASSUME SlaveTypeOK, NEW m \in Masters, NEW s, NEW length \in Nat,
         WasRead(m, s, length) \/ ReadBrokenOff(m, s, length)
  PROVE  Touches(m, s) /\ registers' = registers
<1>1. calm \subseteq Masters \X Slaves /\ pointer \in [Slaves -> Registers]
  BY DEF SlaveTypeOK
<1>2. calm' \subseteq (calm \ Others(m, s)) \cup {<<m, s>>} /\ calm' \subseteq calm
  BY DEF WasRead, ReadBrokenOff
<1>3. CASE s \notin Slaves
  <2>1. registers' = registers /\ pointer' = pointer
    BY <1>3 DEF WasRead, ReadBrokenOff
  <2> QED BY <1>1, <1>2, <2>1 DEF SlaveTypeOK, Touches
<1>4. CASE s \in Slaves
  <2>1. PICK n \in 0..length : Send(s, n)
    BY <1>4 DEF WasRead, ReadBrokenOff
  <2>2. /\ registers' = registers
        /\ pointer' = [pointer EXCEPT ![s] = (pointer[s] + n) % NumRegisters]
    BY <2>1 DEF Send
  <2>3. (pointer[s] + n) % NumRegisters \in Registers
    <3>1. pointer[s] \in Registers
      BY <1>1, <1>4
    <3>2. pointer[s] + n \in Int
      BY <3>1, AnyRegister
    <3> QED BY <3>2, AnyRegister
  <2>4. pointer' \in [Slaves -> Registers]
    BY <1>1, <1>4, <2>2, <2>3
  <2>5. \A q \in Slaves \ {s} : pointer'[q] = pointer[q]
    BY <1>1, <1>4, <2>2
  <2> QED BY <1>1, <1>2, <2>2, <2>4, <2>5 DEF SlaveTypeOK, Touches
<1> QED BY <1>3, <1>4

(* What is read from a device is a message.                                *)
LEMMA ContentBytes ==
  ASSUME SlaveTypeOK, NEW s \in Slaves, NEW from \in Int, NEW length \in Nat
  PROVE  Content(s, from, length) \in Messages
<1>1. registers[s] \in [Registers -> Byte]
  BY DEF SlaveTypeOK
<1>2. \A i \in 1..length : registers[s][(from + i - 1) % NumRegisters] \in Byte
  <2> TAKE i \in 1..length
  <2>1. from + i - 1 \in Int
    OBVIOUS
  <2> QED BY <1>1, <2>1, AnyRegister
<1> QED BY <1>2 DEF Content, Messages

-----------------------------------------------------------------------------
(* A tool has printed nothing since its run began, which has one of its    *)
(* commands.                                                               *)
ParamsInv ==
  /\ DOMAIN params = Tools
  /\ \A t \in Tools : pc[t] # "idle" =>
       params[t] \in Commands[t] /\ Accepted(params[t]) /\ printed[t] = <<>>

(* Between its messages, the device still points to what a tool selected   *)
(* there, if nobody came between.                                          *)
SelectionInv ==
  \A t \in Tools :
    LET s == params[t].address IN
    /\ pc[t] = "transfer" /\ <<t, s>> \in calm
    /\ PointerBytes[s] = Len(Selection(params[t]))
    => pointer[s] = Target(s, Selection(params[t]))

(* What the blinker wrote in its pass is in the selectors.                 *)
Held(k) == registers[Dimmer][PCA9532_REGISTER_LS2 + k]

LedsInv ==
  /\ blinkPc # "lights" => selector = 0
  /\ <<Blinker, Dimmer>> \in calm =>
       /\ blinkPc = "lights" /\ selector = 1 =>
            Held(0) = IF turn_on THEN SelectorValue(setting, 0) ELSE 0
       /\ blinkPc \in {"sleep", "idle"} =>
            \A k \in 0..1 : Held(k) = IF turn_on THEN 0 ELSE SelectorValue(setting, k)

IInv == TypeOK /\ ParamsInv /\ SelectionInv /\ LedsInv

LEMMA InitInv == Init => IInv
<1> SUFFICES ASSUME Init PROVE IInv
  OBVIOUS
<1>1. SlaveTypeOK
  <2>1. 0 \in Registers /\ 0 \in Byte
    BY SlaveAssumption DEF Registers, Byte
  <2> QED BY <2>1 DEF Init, SlaveInit, SlaveTypeOK
<1>2. ToolTypeOK
  <2>1. <<>> \in Messages
    BY EmptySeq DEF Messages
  <2> QED BY <2>1 DEF Init, ToolInit, ToolTypeOK
<1>3. BlinkTypeOK
  <2>1. (CHOOSE g \in Settings : TRUE) \in Settings
    BY BlinkAssumption
  <2>2. setting \in Settings
    BY <2>1 DEF Init, BlinkInit
  <2>3. selector \in 0..1
    BY DEF Init, BlinkInit
  <2> QED BY <2>2, <2>3, Zenon DEF Init, BlinkInit, BlinkTypeOK
<1>4. ParamsInv /\ SelectionInv
  BY DEF Init, ToolInit, ParamsInv, SelectionInv
<1>5. LedsInv
  BY DEF Init, SlaveInit, BlinkInit, LedsInv
<1> QED BY <1>1, <1>2, <1>3, <1>4, <1>5 DEF IInv, TypeOK

(* What a command that is accepted sends.                                  *)
LEMMA CommandMessages ==
  ASSUME NEW t \in Tools, NEW c \in Commands[t], Accepted(c)
  PROVE  /\ c.address \in Nat
         /\ Selection(c) \in Messages /\ Len(Selection(c)) = 2
         /\ Length(c) \in Nat
         /\ c.command = "w" => SubSeq(c.bytes, 1, Length(c)) \in Messages
<1>1. c.address \in Nat /\ c.length \in Nat /\ c.bytes \in Seq(Nat)
  BY ToolAssumption
<1>2. c.address % 256 \in Byte /\ c.address \div 256 \in Byte
  <2>1. c.address <= 256 * 256 - 1
    BY DEF Accepted
  <2>2. \A x \in Nat : x <= 256 * 256 - 1 => x % 256 \in 0..255 /\ x \div 256 \in 0..255
    OBVIOUS
  <2> QED BY <1>1, <2>1, <2>2 DEF Byte
<1>3. Selection(c) \in Messages /\ Len(Selection(c)) = 2
  BY <1>2 DEF Selection, Messages
<1>4. Len(c.bytes) \in Nat
  BY <1>1
<1>5. Length(c) \in Nat
  <2>1. \A x \in Nat : x % 256 \in Nat
    OBVIOUS
  <2> QED BY <1>1, <1>4, <2>1 DEF Length
<1>6. ASSUME c.command = "w" PROVE SubSeq(c.bytes, 1, Length(c)) \in Messages
  <2>1. \A i \in 1..Length(c) : c.bytes[i] \in Byte
    BY <1>6 DEF Accepted
  <2>2. Length(c) \in Int
    BY <1>5
  <2>3. SubSeq(c.bytes, 1, Length(c)) \in Seq(Byte)
    BY <2>1, <2>2, SubSeqProperties
  <2> QED BY <2>3 DEF Messages
<1> QED BY <1>1, <1>3, <1>5, <1>6

(* A master's access to a device leaves the other tools' selections.       *)
LEMMA OtherSelection ==
  ASSUME IInv, NEW m \in Masters, NEW s, Touches(m, s),
         NEW u \in Tools \ {m}, pc'[u] = pc[u], params'[u] = params[u],
         pc'[u] = "transfer", <<u, params'[u].address>> \in calm',
         PointerBytes[params'[u].address] = Len(Selection(params'[u]))
  PROVE  pointer'[params'[u].address] = Target(params'[u].address, Selection(params'[u]))
<1>1. PICK a : a = params[u].address
  OBVIOUS
<1>2. <<u, a>> \in calm' /\ <<u, a>> # <<m, s>>
  BY <1>1
<1>3. <<u, a>> \in calm /\ <<u, a>> \notin Others(m, s)
  BY <1>2 DEF Touches
<1>4. u \in Masters \ {m}
  BY ToolAssumption
<1>5. a # s
  BY <1>3, <1>4 DEF Others
<1>6. a \in Slaves
  BY <1>3 DEF IInv, TypeOK, SlaveTypeOK
<1>7. pointer'[a] = pointer[a]
  BY <1>5, <1>6 DEF Touches
<1>8. pointer[a] = Target(a, Selection(params[u]))
  BY <1>1, <1>3 DEF IInv, SelectionInv
<1> QED BY <1>1, <1>7, <1>8

(* That of a tool leaves what the blinker wrote.                           *)
LEMMA LedsKept ==
  ASSUME IInv, NEW t \in Tools, NEW s, Touches(t, s), UNCHANGED blinkVars
  PROVE  LedsInv'
<1>1. t # Blinker /\ Blinker \in Masters /\ Dimmer \in Slaves
  BY MastersAssumption, BlinkAssumption
<1>2. UNCHANGED <<blinkPc, setting, turn_on, selector, stop>>
  BY DEF blinkVars
<1>3. CASE <<Blinker, Dimmer>> \notin calm'
  BY <1>2, <1>3 DEF IInv, LedsInv
<1>4. CASE <<Blinker, Dimmer>> \in calm'
  <2>1. <<Blinker, Dimmer>> \in calm /\ <<Blinker, Dimmer>> \notin Others(t, s)
    BY <1>1, <1>4 DEF Touches
  <2>2. s # Dimmer
    BY <1>1, <2>1 DEF Others
  <2>3. registers'[Dimmer] = registers[Dimmer]
    BY <1>1, <2>2 DEF Touches
  <2>4. \A k : Held(k)' = Held(k)
    BY <2>3 DEF Held
  <2> QED BY <1>2, <2>1, <2>4 DEF IInv, LedsInv
<1> QED BY <1>3, <1>4

(* The beginning of a run.                                                 *)
LEMMA StartKeeps ==
  ASSUME IInv, NEW t \in Tools, StartRun(t), UNCHANGED blinkVars
  PROVE  IInv'
<1>1. UNCHANGED <<registers, pointer, calm>> /\ UNCHANGED <<blinkPc, setting, turn_on, selector, stop>>
  BY DEF StartRun, slaveVars, blinkVars
<1>2. /\ pc \in [Tools -> {"idle", "select", "transfer"}]
      /\ printed \in [Tools -> Messages]
      /\ DOMAIN params = Tools
      /\ \A u \in Tools : params[u] \in Commands[u] \cup {NoParams}
  BY DEF IInv, TypeOK, ToolTypeOK, ParamsInv
<1>3. <<>> \in Messages
  BY EmptySeq DEF Messages
<1>4. printed' \in [Tools -> Messages] /\ printed'[t] = <<>>
      /\ \A u \in Tools \ {t} : printed'[u] = printed[u]
  BY <1>2, <1>3 DEF StartRun
<1>5. \/ \E c \in Commands[t] : /\ Accepted(c)
                                /\ pc' = [pc EXCEPT ![t] = "select"]
                                /\ params' = [params EXCEPT ![t] = c]
      \/ pc' = pc /\ params' = params
  BY DEF StartRun
<1>6. /\ pc' \in [Tools -> {"idle", "select", "transfer"}]
      /\ DOMAIN params' = Tools
      /\ \A u \in Tools : params'[u] \in Commands[u] \cup {NoParams}
      /\ \A u \in Tools \ {t} : pc'[u] = pc[u] /\ params'[u] = params[u]
      /\ pc'[t] # "transfer"
      /\ pc'[t] # "idle" => params'[t] \in Commands[t] /\ Accepted(params'[t])
  <2>1. pc[t] = "idle"
    BY DEF StartRun
  <2>2. CASE \E c \in Commands[t] : /\ Accepted(c)
                                    /\ pc' = [pc EXCEPT ![t] = "select"]
                                    /\ params' = [params EXCEPT ![t] = c]
    <3> PICK c \in Commands[t] : /\ Accepted(c)
                                 /\ pc' = [pc EXCEPT ![t] = "select"]
                                 /\ params' = [params EXCEPT ![t] = c]
      BY <2>2
    <3> QED BY <1>2
  <2>3. CASE pc' = pc /\ params' = params
    BY <1>2, <2>1, <2>3
  <2> QED BY <1>5, <2>2, <2>3
<1>7. TypeOK'
  <2>1. SlaveTypeOK'
    BY <1>1 DEF IInv, TypeOK, SlaveTypeOK
  <2>2. ToolTypeOK'
    BY <1>4, <1>6 DEF ToolTypeOK
  <2>3. BlinkTypeOK'
    BY <1>1 DEF IInv, TypeOK, BlinkTypeOK
  <2> QED BY <2>1, <2>2, <2>3 DEF TypeOK
<1>8. ParamsInv'
  BY <1>4, <1>6 DEF IInv, ParamsInv
<1>9. SelectionInv'
  BY <1>1, <1>6 DEF IInv, SelectionInv
<1>10. LedsInv'
  BY <1>1 DEF IInv, LedsInv, Held
<1> QED BY <1>7, <1>8, <1>9, <1>10 DEF IInv

(* Every later step of a tool: an access to a device, and the next label.  *)
Proceeds(t, s) ==
  /\ Touches(t, s)
  /\ \/ pc[t] = "select" /\ Goes(t, "select", "transfer")
     \/ Ends(t, "select") \/ Ends(t, "transfer")
  /\ printed' \in [Tools -> Messages]
  /\ \A u \in Tools : printed'[u] = printed[u] \/ pc'[u] = "idle"
  /\ pc'[t] = "transfer" =>
       \/ PointerBytes[s] # Len(Selection(params[t]))
       \/ pointer'[s] = Target(s, Selection(params[t]))

LEMMA ProceedsKeeps ==
  ASSUME IInv, NEW t \in Tools, Proceeds(t, params[t].address), UNCHANGED blinkVars
  PROVE  IInv'
<1>1. UNCHANGED <<blinkPc, setting, turn_on, selector, stop>>
  BY DEF blinkVars
<1>2. /\ pc \in [Tools -> {"idle", "select", "transfer"}]
      /\ DOMAIN params = Tools
      /\ \A u \in Tools : params[u] \in Commands[u] \cup {NoParams}
  BY DEF IInv, TypeOK, ToolTypeOK, ParamsInv
<1>3. /\ pc' \in [Tools -> {"idle", "select", "transfer"}]
      /\ DOMAIN params' = Tools
      /\ \A u \in Tools : params'[u] \in Commands[u] \cup {NoParams}
      /\ \A u \in Tools \ {t} : pc'[u] = pc[u] /\ params'[u] = params[u]
      /\ pc[t] # "idle"
      /\ pc'[t] # "idle" => pc'[t] = "transfer" /\ params'[t] = params[t]
  BY <1>2 DEF Proceeds, Goes, Ends
<1>4. TypeOK'
  <2>1. SlaveTypeOK'
    BY DEF Proceeds, Touches
  <2>2. ToolTypeOK'
    BY <1>3 DEF ToolTypeOK, Proceeds
  <2>3. BlinkTypeOK'
    BY <1>1 DEF IInv, TypeOK, BlinkTypeOK
  <2> QED BY <2>1, <2>2, <2>3 DEF TypeOK
<1>5. ParamsInv'
  <2>1. \A u \in Tools : pc'[u] # "idle" => printed'[u] = printed[u]
    BY DEF Proceeds
  <2>2. \A u \in Tools : pc'[u] # "idle" => pc[u] # "idle" /\ params'[u] = params[u]
    BY <1>3
  <2> QED BY <1>3, <2>1, <2>2 DEF IInv, ParamsInv
<1>6. SelectionInv'
  <2> SUFFICES ASSUME NEW u \in Tools, pc'[u] = "transfer",
                      <<u, params'[u].address>> \in calm',
                      PointerBytes[params'[u].address] = Len(Selection(params'[u]))
               PROVE  pointer'[params'[u].address] = Target(params'[u].address, Selection(params'[u]))
    BY DEF SelectionInv
  <2>1. CASE u = t
    <3>1. params'[t] = params[t]
      BY <1>3, <2>1
    <3> QED BY <2>1, <3>1 DEF Proceeds
  <2>2. CASE u # t
    <3>1. pc'[u] = pc[u] /\ params'[u] = params[u]
      BY <1>3, <2>2
    <3>2. Touches(t, params[t].address)
      BY DEF Proceeds
    <3>3. t \in Masters
      BY ToolAssumption
    <3> QED BY <2>2, <3>1, <3>2, <3>3, OtherSelection
  <2> QED BY <2>1, <2>2
<1>7. LedsInv'
  BY LedsKept DEF Proceeds
<1> QED BY <1>4, <1>5, <1>6, <1>7 DEF IInv

(* The tool's selection, its write and its read are such steps.            *)
LEMMA SelectProceeds ==
  ASSUME IInv, NEW t \in Tools, SelectRegister(t)
  PROVE  Proceeds(t, params[t].address)
<1> DEFINE s == params[t].address  message == Selection(params[t])
<1>1. pc[t] = "select"
  BY DEF SelectRegister, Goes, Ends
<1>2. params[t] \in Commands[t] /\ Accepted(params[t])
  BY <1>1 DEF IInv, ParamsInv
<1>3. message \in Messages
  BY <1>2, CommandMessages
<1>4. t \in Masters /\ SlaveTypeOK
  BY ToolAssumption DEF IInv, TypeOK
<1>5. Sends(t, s, message)
  BY DEF SelectRegister, Sends
<1>6. Touches(t, s)
  <2> HIDE DEF s, message
  <2> QED BY <1>3, <1>4, <1>5, Sending
<1>7. printed' = printed /\ printed \in [Tools -> Messages]
  BY DEF SelectRegister, IInv, TypeOK, ToolTypeOK
<1>8. Goes(t, "select", "transfer") \/ Ends(t, "select")
  BY DEF SelectRegister
<1>9. ASSUME pc'[t] = "transfer", PointerBytes[s] = Len(message)
      PROVE  pointer'[s] = Target(s, message)
  <2>1. Selected(t, s, message)
    <3>1. pc \in [Tools -> {"idle", "select", "transfer"}]
      BY DEF IInv, TypeOK, ToolTypeOK
    <3>2. ~Ends(t, "select")
      BY <1>9, <3>1 DEF Ends
    <3> QED BY <3>2 DEF SelectRegister
  <2>2. s \in Slaves /\ Receive(s, message)
    BY <2>1 DEF Selected, Written
  <2> HIDE DEF s, message
  <2> QED BY <1>3, <1>4, <1>9, <2>2, Received
<1> QED BY <1>1, <1>6, <1>7, <1>8, <1>9 DEF Proceeds

LEMMA WriteProceeds ==
  ASSUME IInv, NEW t \in Tools, WriteBytes(t)
  PROVE  Proceeds(t, params[t].address)
<1> DEFINE s == params[t].address
           message == SubSeq(params[t].bytes, 1, Length(params[t]))
<1>1. pc[t] = "transfer" /\ params[t].command = "w"
  BY DEF WriteBytes, Ends
<1>2. params[t] \in Commands[t] /\ Accepted(params[t])
  BY <1>1 DEF IInv, ParamsInv
<1>3. message \in Messages
  BY <1>1, <1>2, CommandMessages
<1>4. t \in Masters /\ SlaveTypeOK
  BY ToolAssumption DEF IInv, TypeOK
<1>5. Sends(t, s, message)
  BY DEF WriteBytes, Sends
<1>6. Touches(t, s)
  <2> HIDE DEF s, message
  <2> QED BY <1>3, <1>4, <1>5, Sending
<1>7. printed' = printed /\ printed \in [Tools -> Messages]
  BY DEF WriteBytes, IInv, TypeOK, ToolTypeOK
<1>8. Ends(t, "transfer") /\ pc'[t] = "idle"
  BY DEF WriteBytes, Ends, IInv, TypeOK, ToolTypeOK
<1> QED BY <1>6, <1>7, <1>8 DEF Proceeds

LEMMA ReadProceeds ==
  ASSUME IInv, NEW t \in Tools, ReadBytes(t)
  PROVE  Proceeds(t, params[t].address) /\ registers' = registers
<1> DEFINE s == params[t].address  length == Length(params[t])
<1>1. pc[t] = "transfer"
  BY DEF ReadBytes, Ends
<1>2. params[t] \in Commands[t] /\ Accepted(params[t])
  BY <1>1 DEF IInv, ParamsInv
<1>3. length \in Nat
  BY <1>2, CommandMessages
<1>4. t \in Masters /\ SlaveTypeOK
  BY ToolAssumption DEF IInv, TypeOK
<1>5. WasRead(t, s, length) \/ ReadBrokenOff(t, s, length)
  BY DEF ReadBytes
<1>6. Touches(t, s) /\ registers' = registers
  <2> HIDE DEF s, length
  <2> QED BY <1>3, <1>4, <1>5, Reading
<1>7. /\ printed' \in [Tools -> Messages]
      /\ \A u \in Tools : printed'[u] = printed[u] \/ u = t
  <2>1. printed \in [Tools -> Messages]
    BY DEF IInv, TypeOK, ToolTypeOK
  <2>2. CASE printed' = printed
    BY <2>1, <2>2
  <2>3. CASE WasRead(t, s, length) /\ printed' = [printed EXCEPT ![t] = Content(s, pointer[s], length)]
    <3>1. s \in Slaves
      BY <2>3 DEF WasRead
    <3>2. pointer[s] \in Int
      BY <1>4, <3>1, AnyRegister DEF SlaveTypeOK
    <3>3. Content(s, pointer[s], length) \in Messages
      <4> HIDE DEF s, length
      <4> QED BY <1>3, <1>4, <3>1, <3>2, ContentBytes
    <3> QED BY <2>1, <2>3, <3>3
  <2> QED BY <2>2, <2>3 DEF ReadBytes
<1>8. Ends(t, "transfer") /\ pc'[t] = "idle"
  BY DEF ReadBytes, Ends, IInv, TypeOK, ToolTypeOK
<1> QED BY <1>6, <1>7, <1>8 DEF Proceeds

-----------------------------------------------------------------------------
(* A mode has two bits, and four modes are a byte.                         *)
LEMMA ModeBits == \A g, led : Mode(g, led) \in 0..2
BY DEF Mode, LedMode

LEMMA SelectorByte == \A g, k : SelectorValue(g, k) \in Byte
<1> TAKE g, k
<1>1. \A a, b, c, d \in 0..2 : a + 4 * b + 16 * c + 64 * d \in 0..255
  OBVIOUS
<1>2. PICK i, j, l, n : i = 4*k /\ j = 4*k + 1 /\ l = 4*k + 2 /\ n = 4*k + 3
  OBVIOUS
<1>3. SelectorValue(g, k) = Mode(g, i) + 4 * Mode(g, j) + 16 * Mode(g, l) + 64 * Mode(g, n)
  BY <1>2 DEF SelectorValue
<1> QED BY <1>1, <1>3, ModeBits DEF Byte

(* The registers of the dimmer that the blinker writes.                    *)
LEMMA DimmerRegisters ==
  /\ Dimmer \in Slaves /\ PointerBytes[Dimmer] = 1 /\ Blinker \in Masters
  /\ \A r \in 0..9 : r \in Registers /\ r \in Byte
BY BlinkAssumption, SlaveAssumption DEF Registers, Byte

(* A register and its value are a message, and what the dimmer makes of it *)
(* when it arrives.                                                        *)
LEMMA ByteData ==
  ASSUME SlaveTypeOK, NEW r \in 0..9, NEW value \in Byte
  PROVE  /\ <<r, value>> \in Messages
         /\ Written(Blinker, Dimmer, <<r, value>>) =>
              registers'[Dimmer] = [registers[Dimmer] EXCEPT ![r] = value]
<1>1. PICK message : message = <<r, value>>
  OBVIOUS
<1>2. r \in Registers /\ r \in Byte /\ Dimmer \in Slaves /\ PointerBytes[Dimmer] = 1
  BY DimmerRegisters
<1>3. message \in Messages /\ Len(message) = 2 /\ message[1] = r /\ message[2] = value
  BY <1>1, <1>2 DEF Messages
<1>4. ASSUME Receive(Dimmer, message)
      PROVE  registers'[Dimmer] = [registers[Dimmer] EXCEPT ![r] = value]
  <2>1. PICK from : from = Target(Dimmer, message)
    OBVIOUS
  <2>2. PICK bytes : bytes = Data(Dimmer, message)
    OBVIOUS
  <2>3. from = r
    <3>1. r % NumRegisters = r
      BY <1>2, AnyRegister
    <3> QED BY <1>2, <1>3, <2>1, <3>1 DEF Target
  <2>4. bytes \in Messages /\ Len(bytes) = 1 /\ bytes[1] = value
    <3>1. Len(message) >= PointerBytes[Dimmer] /\ Len(message) - PointerBytes[Dimmer] = 1
      BY <1>2, <1>3
    <3>2. /\ bytes \in Messages /\ Len(bytes) = 1
          /\ \A i \in 1..Len(bytes) : bytes[i] = message[i + PointerBytes[Dimmer]]
      BY <1>2, <1>3, <2>2, <3>1, MessageParts
    <3>3. 1 \in 1..1 /\ 1 + 1 = 2
      OBVIOUS
    <3>4. bytes[1] = message[1 + PointerBytes[Dimmer]]
      BY <3>2, <3>3
    <3> QED BY <1>2, <1>3, <3>2, <3>3, <3>4
  <2>5. registers \in [Slaves -> [Registers -> Byte]]
    BY DEF SlaveTypeOK
  <2>6. registers'[Dimmer] = Stored(registers[Dimmer], from, bytes)
    <3>1. ~(Len(message) < PointerBytes[Dimmer])
      BY <1>2, <1>3
    <3> QED BY <1>2, <1>4, <2>1, <2>2, <2>5, <3>1 DEF Receive
  <2>7. registers[Dimmer] \in [Registers -> Byte]
    BY <1>2, <2>5
  <2> QED BY <1>2, <2>3, <2>4, <2>6, <2>7, OneStored
<1> QED BY <1>1, <1>3, <1>4 DEF Written

(* What every step of the blinker keeps by the way.                        *)
LEMMA BlinkerKeeps ==
  ASSUME IInv, UNCHANGED toolVars,
         Touches(Blinker, Dimmer) \/ UNCHANGED slaveVars,
         BlinkTypeOK', LedsInv'
  PROVE  IInv'
<1>1. UNCHANGED <<pc, params, printed>>
  BY DEF toolVars
<1>2. SlaveTypeOK'
  BY DEF Touches, slaveVars, IInv, TypeOK, SlaveTypeOK
<1>3. ToolTypeOK' /\ ParamsInv'
  BY <1>1 DEF IInv, TypeOK, ToolTypeOK, ParamsInv
<1>4. SelectionInv'
  <2>1. CASE Touches(Blinker, Dimmer)
    <3>1. Blinker \in Masters /\ \A u \in Tools : u \in Tools \ {Blinker}
      BY BlinkAssumption, MastersAssumption
    <3> QED BY <1>1, <2>1, <3>1, OtherSelection DEF SelectionInv
  <2>2. CASE UNCHANGED slaveVars
    BY <1>1, <2>2 DEF slaveVars, IInv, SelectionInv
  <2> QED BY <2>1, <2>2
<1> QED BY <1>2, <1>3, <1>4 DEF IInv, TypeOK

(* The steps that send nothing.                                            *)
LEMMA QuietKeeps ==
  ASSUME IInv, UNCHANGED toolVars, StartBlinking \/ Wake \/ Inthand
  PROVE  IInv'
<1>1. UNCHANGED slaveVars
  BY DEF StartBlinking, Wake, Inthand, slaveVars
<1>2. BlinkTypeOK
  BY DEF IInv, TypeOK
<1>3. BlinkTypeOK'
  <2>1. CASE StartBlinking
    <3>1. selector' \in 0..1
      BY <2>1 DEF StartBlinking
    <3> QED BY <2>1, <3>1, Zenon DEF StartBlinking, BlinkTypeOK
  <2>2. CASE Wake
    BY <1>2, <2>2 DEF Wake, BlinkTypeOK
  <2>3. CASE Inthand
    BY <1>2, <2>3 DEF Inthand, BlinkTypeOK
  <2> QED BY <2>1, <2>2, <2>3
<1>4. registers' = registers /\ calm' = calm
  BY <1>1 DEF slaveVars
<1>5. \A k : Held(k)' = Held(k)
  BY <1>4 DEF Held
<1>6. LedsInv'
  <2>1. CASE StartBlinking
    BY <2>1 DEF StartBlinking, LedsInv
  <2>2. CASE Wake
    BY <1>4, <1>5, <2>2 DEF Wake, IInv, LedsInv
  <2>3. CASE Inthand
    BY <1>4, <1>5, <2>3 DEF Inthand, IInv, LedsInv
  <2> QED BY <2>1, <2>2, <2>3
<1> QED BY <1>1, <1>3, <1>6, BlinkerKeeps

(* The brightness.                                                         *)
LEMMA DutyByte ==
  ASSUME NEW g \in Settings, NEW duty \in DutyCycles(g.power)
  PROVE  duty \in Byte
<1>1. \A power \in 0..100 : power # 100 => (power * 256) \div 100 \in 0..255
  OBVIOUS
<1> QED BY <1>1, BlinkAssumption DEF DutyCycles, Byte

LEMMA PrepareTouches ==
  ASSUME IInv, PrepareLeds
  PROVE  Touches(Blinker, Dimmer)
<1>1. SlaveTypeOK /\ BlinkTypeOK
  BY DEF IInv, TypeOK
<1>2. PICK duty \in DutyCycles(setting.power) : Sent(<<PCA9532_REGISTER_PWM0, duty>>)
  BY DEF PrepareLeds
<1>3. duty \in Byte
  BY <1>1, DutyByte DEF BlinkTypeOK
<1>4. PICK message \in Messages : Sent(message)
  <2>1. PCA9532_REGISTER_PWM0 \in 0..9
    BY DEF PCA9532_REGISTER_PWM0
  <2> QED BY <1>1, <1>2, <1>3, <2>1, ByteData
<1> QED BY <1>1, <1>4, Sending, DimmerRegisters DEF Sent, Sends

LEMMA PrepareKeeps ==
  ASSUME IInv, UNCHANGED toolVars, PrepareLeds
  PROVE  IInv'
<1>1. BlinkTypeOK'
  BY DEF PrepareLeds, IInv, TypeOK, BlinkTypeOK
<1>2. selector = 0
  BY DEF PrepareLeds, IInv, LedsInv
<1>3. LedsInv'
  BY <1>2 DEF PrepareLeds, LedsInv
<1> QED BY <1>1, <1>3, PrepareTouches, BlinkerKeeps

(* A selector.                                                             *)
LEMMA SelectorKeeps ==
  ASSUME IInv, WriteSelector
  PROVE  /\ Touches(Blinker, Dimmer)
         /\ BlinkTypeOK' /\ LedsInv'
<1>1. SlaveTypeOK /\ BlinkTypeOK
  BY DEF IInv, TypeOK
<1>2. PICK value : value = IF turn_on THEN SelectorValue(setting, selector) ELSE 0
  OBVIOUS
<1>3. PICK r : r = PCA9532_REGISTER_LS2 + selector
  OBVIOUS
<1>4. value \in Byte
  <2>1. 0 \in Byte
    BY DEF Byte
  <2> QED BY <1>2, <2>1, SelectorByte
<1>5. selector \in 0..1 /\ r = 8 + selector /\ r \in 0..9
  BY <1>1, <1>3 DEF BlinkTypeOK, PCA9532_REGISTER_LS2
<1>6. <<r, value>> \in Messages
  BY <1>1, <1>4, <1>5, ByteData
<1>7. /\ IF selector = 0
         THEN Selected(Blinker, Dimmer, <<r, value>>) \/ BrokenOff(Blinker, Dimmer, <<r, value>>)
         ELSE Continued(Blinker, Dimmer, <<r, value>>) \/ BrokenOff(Blinker, Dimmer, <<r, value>>)
      /\ selector' = 1 - selector
      /\ IF selector = 0
         THEN UNCHANGED <<blinkPc, turn_on>>
         ELSE blinkPc' = "sleep" /\ turn_on' = ~turn_on
      /\ blinkPc = "lights" /\ UNCHANGED <<setting, stop>>
  BY <1>2, <1>3 DEF WriteSelector, Sent
<1>8. Touches(Blinker, Dimmer)
  <2>1. Sends(Blinker, Dimmer, <<r, value>>)
    BY <1>7 DEF Sends
  <2> QED BY <1>1, <1>6, <2>1, Sending, DimmerRegisters
<1>9. BlinkTypeOK'
  <2>1. selector' \in 0..1
    BY <1>5, <1>7
  <2> QED BY <1>1, <1>7, <2>1 DEF BlinkTypeOK
<1>10. ASSUME <<Blinker, Dimmer>> \in calm'
       PROVE  /\ registers'[Dimmer] = [registers[Dimmer] EXCEPT ![r] = value]
              /\ selector = 1 => <<Blinker, Dimmer>> \in calm
  <2>1. ~BrokenOff(Blinker, Dimmer, <<r, value>>)
    BY <1>10 DEF BrokenOff
  <2>2. Written(Blinker, Dimmer, <<r, value>>)
    BY <1>7, <2>1 DEF Selected, Continued
  <2>3. registers'[Dimmer] = [registers[Dimmer] EXCEPT ![r] = value]
    BY <1>1, <1>4, <1>5, <2>2, ByteData
  <2>4. ASSUME selector = 1 PROVE <<Blinker, Dimmer>> \in calm
    <3>1. Continued(Blinker, Dimmer, <<r, value>>)
      BY <1>7, <2>1, <2>4
    <3> QED BY <1>10, <3>1 DEF Continued
  <2> QED BY <2>3, <2>4
<1>11. registers[Dimmer] \in [Registers -> Byte]
  BY <1>1, DimmerRegisters DEF SlaveTypeOK
<1>12. 8 \in Registers /\ 9 \in Registers
  BY DimmerRegisters
<1>13. LedsInv'
  <2>1. CASE selector = 0
    <3>1. blinkPc' = "lights" /\ turn_on' = turn_on /\ setting' = setting
      BY <1>7, <2>1
    <3>2. ASSUME <<Blinker, Dimmer>> \in calm' PROVE Held(0)' = value
      <4>1. r = 8
        BY <1>5, <2>1
      <4> QED BY <1>10, <1>11, <1>12, <3>2, <4>1 DEF Held, PCA9532_REGISTER_LS2
    <3> QED BY <1>2, <2>1, <3>1, <3>2 DEF LedsInv
  <2>2. CASE selector = 1
    <3>1. blinkPc' = "sleep" /\ turn_on' = ~turn_on /\ setting' = setting /\ selector' = 0
      BY <1>7, <2>2
    <3>2. ASSUME <<Blinker, Dimmer>> \in calm'
          PROVE  \A k \in 0..1 : Held(k)' = IF turn_on THEN SelectorValue(setting, k) ELSE 0
      <4>1. r = 9
        BY <1>5, <2>2
      <4>2. Held(1)' = value
        BY <1>10, <1>11, <1>12, <3>2, <4>1 DEF Held, PCA9532_REGISTER_LS2
      <4>3. Held(0)' = Held(0)
        BY <1>10, <1>11, <1>12, <3>2, <4>1 DEF Held, PCA9532_REGISTER_LS2
      <4>4. Held(0) = IF turn_on THEN SelectorValue(setting, 0) ELSE 0
        BY <1>7, <1>10, <2>2, <3>2 DEF IInv, LedsInv
      <4> QED BY <1>2, <2>2, <4>2, <4>3, <4>4
    <3>3. turn_on \in BOOLEAN
      BY <1>1 DEF BlinkTypeOK
    <3> QED BY <3>1, <3>2, <3>3 DEF LedsInv
  <2> QED BY <1>5, <2>1, <2>2
<1> QED BY <1>8, <1>9, <1>13

-----------------------------------------------------------------------------
(* A selection stores nothing in a device with registers numbered by two   *)
(* bytes.                                                                  *)
LEMMA SelectionsStoreNothing ==
  ASSUME IInv, NEW t \in Tools, SelectRegister(t), NEW s \in Slaves,
         PointerBytes[s] = 2
  PROVE  registers'[s] = registers[s]
<1>1. PICK a : a = params[t].address
  OBVIOUS
<1>2. PICK message : message = Selection(params[t])
  OBVIOUS
<1>3. pc[t] = "select"
  BY DEF SelectRegister, Goes, Ends
<1>4. message \in Messages /\ Len(message) = 2
  BY <1>2, <1>3, CommandMessages DEF IInv, ParamsInv
<1>5. t \in Masters /\ SlaveTypeOK
  BY ToolAssumption DEF IInv, TypeOK
<1>6. Sends(t, a, message)
  BY <1>1, <1>2 DEF SelectRegister, Sends
<1>7. /\ Touches(t, a)
      /\ a \in Slaves /\ Len(message) <= PointerBytes[a] => registers' = registers
  BY <1>4, <1>5, <1>6, Sending
<1>8. CASE a = s
  BY <1>4, <1>7, <1>8
<1>9. CASE a # s
  BY <1>7, <1>9 DEF Touches
<1> QED BY <1>8, <1>9

(* Every step keeps the invariant.                                         *)
LEMMA IndStep == IInv /\ [Next]_vars => IInv'
<1> SUFFICES ASSUME IInv, [Next]_vars PROVE IInv'
  OBVIOUS
<1>1. CASE ToolNext /\ UNCHANGED blinkVars
  <2>1. PICK t \in Tools : ToolStep(t)
    BY <1>1 DEF ToolNext
  <2>2. CASE StartRun(t)
    BY <1>1, <2>2, StartKeeps
  <2>3. CASE SelectRegister(t) \/ WriteBytes(t) \/ ReadBytes(t)
    <3>1. Proceeds(t, params[t].address)
      BY <2>3, SelectProceeds, WriteProceeds, ReadProceeds
    <3> QED BY <1>1, <3>1, ProceedsKeeps
  <2> QED BY <2>1, <2>2, <2>3 DEF ToolStep
<1>2. CASE BlinkNext /\ UNCHANGED toolVars
  BY <1>2, QuietKeeps, PrepareKeeps, SelectorKeeps, BlinkerKeeps DEF BlinkNext, BlinkStep
<1>3. CASE UNCHANGED vars
  <2>1. /\ UNCHANGED <<registers, pointer, calm>> /\ UNCHANGED <<pc, params, printed>>
        /\ UNCHANGED <<blinkPc, setting, turn_on, selector, stop>>
    BY <1>3 DEF vars, slaveVars, toolVars, blinkVars
  <2>2. TypeOK'
    BY <2>1 DEF IInv, TypeOK, SlaveTypeOK, ToolTypeOK, BlinkTypeOK
  <2>3. ParamsInv' /\ SelectionInv'
    BY <2>1 DEF IInv, ParamsInv, SelectionInv
  <2>4. LedsInv'
    BY <2>1 DEF IInv, LedsInv, Held
  <2> QED BY <2>2, <2>3, <2>4 DEF IInv
<1> QED BY <1>1, <1>2, <1>3 DEF Next

(* The invariant of the bus: whatever the tools are told to send, to       *)
(* whatever devices, and wherever a message breaks off.                    *)
THEOREM Inductive == Spec => []IInv
BY InitInv, IndStep, PTL DEF Spec

(* Registers hold bytes, pointers are in range, and a run has a command    *)
(* that was given and prints bytes (assignment2-hw/main.c:137-256).        *)
THEOREM TypeCorrect == Spec => []TypeOK
<1>1. IInv => TypeOK
  BY DEF IInv
<1> QED BY <1>1, Inductive, PTL

(* The modes of four LEDs come back from their byte.                       *)
LEMMA SelectorModes ==
  ASSUME NEW g, NEW k
  PROVE  /\ (SelectorValue(g, k) \div 1) % 4 = Mode(g, 4*k)
         /\ (SelectorValue(g, k) \div 4) % 4 = Mode(g, 4*k + 1)
         /\ (SelectorValue(g, k) \div 16) % 4 = Mode(g, 4*k + 2)
         /\ (SelectorValue(g, k) \div 64) % 4 = Mode(g, 4*k + 3)
<1>1. \A a, b, c, d \in 0..2 :
        LET v == a + 4 * b + 16 * c + 64 * d IN
        /\ (v \div 1) % 4 = a /\ (v \div 4) % 4 = b
        /\ (v \div 16) % 4 = c /\ (v \div 64) % 4 = d
  OBVIOUS
<1>2. PICK i, j, l, n : i = 4*k /\ j = 4*k + 1 /\ l = 4*k + 2 /\ n = 4*k + 3
  OBVIOUS
<1>3. SelectorValue(g, k) = Mode(g, i) + 4 * Mode(g, j) + 16 * Mode(g, l) + 64 * Mode(g, n)
  BY <1>2 DEF SelectorValue
<1> QED BY <1>1, <1>2, <1>3, ModeBits

(* Where the mode of an LED is.                                            *)
LEMMA LedPlaces ==
  ASSUME NEW led \in 0..7
  PROVE  \E k \in 0..1 :
           /\ Shown(led) = (Held(k) \div <<1, 4, 16, 64>>[(led % 4) + 1]) % 4
           /\ \/ led = 4*k     /\ <<1, 4, 16, 64>>[(led % 4) + 1] = 1
              \/ led = 4*k + 1 /\ <<1, 4, 16, 64>>[(led % 4) + 1] = 4
              \/ led = 4*k + 2 /\ <<1, 4, 16, 64>>[(led % 4) + 1] = 16
              \/ led = 4*k + 3 /\ <<1, 4, 16, 64>>[(led % 4) + 1] = 64
<1>1. led \div 4 \in 0..1
  OBVIOUS
<1>2. Shown(led) = (Held(led \div 4) \div <<1, 4, 16, 64>>[(led % 4) + 1]) % 4
  BY DEF Shown, Held
<1>3. \/ led = 4*(led \div 4)     /\ (led % 4) + 1 = 1
      \/ led = 4*(led \div 4) + 1 /\ (led % 4) + 1 = 2
      \/ led = 4*(led \div 4) + 2 /\ (led % 4) + 1 = 3
      \/ led = 4*(led \div 4) + 3 /\ (led % 4) + 1 = 4
  OBVIOUS
<1>4. /\ <<1, 4, 16, 64>>[1] = 1 /\ <<1, 4, 16, 64>>[2] = 4
      /\ <<1, 4, 16, 64>>[3] = 16 /\ <<1, 4, 16, 64>>[4] = 64
  OBVIOUS
<1>5. PICK k \in 0..1 : k = led \div 4
  BY <1>1
<1>6. PICK i : i = (led % 4) + 1
  OBVIOUS
<1>7. \/ led = 4*k     /\ <<1, 4, 16, 64>>[i] = 1
      \/ led = 4*k + 1 /\ <<1, 4, 16, 64>>[i] = 4
      \/ led = 4*k + 2 /\ <<1, 4, 16, 64>>[i] = 16
      \/ led = 4*k + 3 /\ <<1, 4, 16, 64>>[i] = 64
  BY <1>3, <1>4, <1>5, <1>6
<1> QED BY <1>2, <1>5, <1>6, <1>7

(* Between its passes and after its end, what the blinker shows on the     *)
(* LEDs is what it was asked for, or all off, unless its last pass was     *)
(* disturbed (assignment2-app/main.c:148-179, 216-237).                    *)
THEOREM LedsFollow == Spec => []LedsInStep
<1>1. IInv => LedsInStep
  <2> SUFFICES ASSUME IInv, blinkPc \in {"sleep", "idle"}, <<Blinker, Dimmer>> \in calm,
                      NEW led \in 0..7
               PROVE  Shown(led) = IF turn_on THEN 0 ELSE Mode(setting, led)
    BY DEF LedsInStep
  <2>1. \A k \in 0..1 : Held(k) = IF turn_on THEN 0 ELSE SelectorValue(setting, k)
    BY DEF IInv, LedsInv
  <2>2. PICK place : place = <<1, 4, 16, 64>>[(led % 4) + 1]
    OBVIOUS
  <2>3. PICK k \in 0..1 : /\ Shown(led) = (Held(k) \div place) % 4
                          /\ \/ led = 4*k     /\ place = 1
                             \/ led = 4*k + 1 /\ place = 4
                             \/ led = 4*k + 2 /\ place = 16
                             \/ led = 4*k + 3 /\ place = 64
    BY <2>2, LedPlaces
  <2>4. CASE turn_on
    <3>1. Held(k) = 0
      BY <2>1, <2>4
    <3>2. (0 \div 1) % 4 = 0 /\ (0 \div 4) % 4 = 0 /\ (0 \div 16) % 4 = 0 /\ (0 \div 64) % 4 = 0
      OBVIOUS
    <3> QED BY <2>3, <2>4, <3>1, <3>2
  <2>5. CASE ~turn_on
    <3>1. Held(k) = SelectorValue(setting, k)
      BY <2>1, <2>5
    <3> QED BY <2>3, <2>5, <3>1, SelectorModes
  <2> QED BY <2>4, <2>5
<1> QED BY <1>1, Inductive, PTL

(* The bytes of a selection name the register with the address's bytes     *)
(* swapped.                                                                *)
LEMMA SelectedRegister ==
  ASSUME SlaveTypeOK, NEW t \in Tools, NEW c \in Commands[t], Accepted(c),
         NEW s \in Slaves, s = c.address, PointerBytes[s] = 2,
         NEW length \in Nat
  PROVE  Content(s, Target(s, Selection(c)), length) =
           Content(s, (s % 256) * 256 + s \div 256, length)
<1>1. s \in Nat
  BY SlaveAssumption
<1>2. PICK a \in Int : a = (s % 256) * 256 + s \div 256
  <2>1. \A x \in Nat : (x % 256) * 256 + x \div 256 \in Int
    OBVIOUS
  <2> QED BY <1>1, <2>1
<1>3. Target(s, Selection(c)) = a % NumRegisters
  BY <1>2 DEF Target, Selection
<1>4. \A i \in 1..length : ((a % NumRegisters) + i - 1) % NumRegisters = (a + i - 1) % NumRegisters
  <2> TAKE i \in 1..length
  <2>1. PICK k \in Int : k = i - 1
    OBVIOUS
  <2>2. ((a % NumRegisters) + k) % NumRegisters = (a + k) % NumRegisters
    BY RemainderPlus, SlaveAssumption
  <2>3. a % NumRegisters \in Int
    BY AnyRegister
  <2>4. (a % NumRegisters) + i - 1 = (a % NumRegisters) + k /\ a + i - 1 = a + k
    BY <2>1, <2>3
  <2> QED BY <2>2, <2>4
<1>5. Content(s, a % NumRegisters, length) = Content(s, a, length)
  BY <1>4 DEF Content
<1> QED BY <1>2, <1>3, <1>5

(* A tool that nobody disturbed at a device with registers numbered by two *)
(* bytes prints what the device holds from the register on that the        *)
(* device's own address names, not the one asked for                       *)
(* (assignment2-hw/main.c:82-119, 256).                                    *)
THEOREM ReadsSelected == Spec => ReadsAtAddress
<1> DEFINE Step ==
      \A t \in Tools : LET s == params[t].address IN
        Undisturbed(t) /\ printed'[t] # <<>>
          => printed'[t] =
               Content(s, (s % 256) * 256 + s \div 256, Len(printed'[t]))
<1>1. IInv /\ [Next]_vars => [Step]_vars
  <2> SUFFICES ASSUME IInv, Next, NEW t \in Tools,
                      NEW c, c = params[t], NEW s, s = c.address,
                      pc[t] = "transfer", printed'[t] # <<>>,
                      <<t, s>> \in calm, PointerBytes[s] = 2
               PROVE  printed'[t] =
                        Content(s, (s % 256) * 256 + s \div 256, Len(printed'[t]))
    BY DEF Undisturbed
  <2>1. c \in Commands[t] /\ Accepted(c) /\ printed[t] = <<>>
    BY DEF IInv, ParamsInv
  <2>2. SlaveTypeOK /\ printed \in [Tools -> Messages] /\ s \in Slaves
    BY DEF IInv, TypeOK, SlaveTypeOK, ToolTypeOK
  <2>3. ReadBytes(t)
    <3>1. printed' # printed
      BY <2>1
    <3>2. PICK u \in Tools : ToolStep(u)
      BY <3>1 DEF Next, ToolNext, toolVars
    <3>3. StartRun(u) \/ ReadBytes(u)
      BY <3>1, <3>2 DEF ToolStep, SelectRegister, WriteBytes
    <3>4. \A v \in Tools \ {u} : printed'[v] = printed[v]
      BY <2>2, <3>3 DEF StartRun, ReadBytes
    <3>5. u = t
      BY <2>1, <3>4
    <3>6. ~StartRun(t)
      BY DEF StartRun
    <3> QED BY <3>3, <3>5, <3>6
  <2>4. printed'[t] = Content(s, pointer[s], Length(c))
    BY <2>1, <2>2, <2>3 DEF ReadBytes
  <2>5. Len(Selection(c)) = 2 /\ Length(c) \in Nat
    BY <2>1, CommandMessages
  <2>6. pointer[s] = Target(s, Selection(c))
    BY <2>5 DEF IInv, SelectionInv
  <2>7. Len(printed'[t]) = Length(c)
    BY <2>4, <2>5 DEF Content
  <2>8. printed'[t] = Content(s, (s % 256) * 256 + s \div 256, Length(c))
    BY <2>1, <2>2, <2>4, <2>5, <2>6, SelectedRegister
  <2> QED BY <2>7, <2>8
<1>2. [][Step]_vars => ReadsAtAddress
  BY DEF ReadsAtAddress
<1> HIDE DEF Step
<1> QED BY <1>1, <1>2, Inductive, PTL DEF Spec

(* Of a device with registers numbered by two bytes, only the transfer of  *)
(* a write changes any: no selection, no read, and no message that breaks  *)
(* off before (assignment2-hw/main.c:96-132).                              *)
THEOREM ChangedByWrites == Spec => OnlyWritesChange
<1> DEFINE Step ==
      \A s \in Slaves : PointerBytes[s] = 2 /\ registers'[s] # registers[s] =>
        \E t \in Tools : /\ pc[t] = "transfer" /\ pc'[t] = "idle"
                         /\ params[t].command = "w" /\ params[t].address = s
<1>1. IInv /\ [Next]_vars => [Step]_vars
  <2> SUFFICES ASSUME IInv, Next, NEW s \in Slaves,
                      PointerBytes[s] = 2, registers'[s] # registers[s]
               PROVE  \E t \in Tools :
                        /\ pc[t] = "transfer" /\ pc'[t] = "idle"
                        /\ params[t].command = "w" /\ params[t].address = s
    OBVIOUS
  <2>1. SlaveTypeOK /\ pc \in [Tools -> {"idle", "select", "transfer"}]
    BY DEF IInv, TypeOK, ToolTypeOK
  <2>2. ASSUME NEW m \in Masters, NEW a, Touches(m, a)
        PROVE  a = s
    BY <2>2 DEF Touches
  <2>3. CASE BlinkNext
    <3>1. PrepareLeds \/ WriteSelector
      BY <2>3 DEF BlinkNext, BlinkStep, StartBlinking, Wake, Inthand, slaveVars
    <3>2. Touches(Blinker, Dimmer)
      BY <3>1, PrepareTouches, SelectorKeeps
    <3> QED BY <2>2, <3>2, DimmerRegisters
  <2>4. CASE ToolNext
    <3>1. PICK t \in Tools : ToolStep(t)
      BY <2>4 DEF ToolNext
    <3>2. ~StartRun(t)
      BY DEF StartRun, slaveVars
    <3>3. ~ReadBytes(t)
      BY ReadProceeds
    <3>4. ~SelectRegister(t)
      BY SelectionsStoreNothing
    <3>5. WriteBytes(t)
      BY <3>1, <3>2, <3>3, <3>4 DEF ToolStep
    <3>6. params[t].address = s
      BY <2>2, <3>5, WriteProceeds, ToolAssumption DEF Proceeds
    <3> QED BY <2>1, <3>5, <3>6 DEF WriteBytes, Ends
  <2> QED BY <2>3, <2>4 DEF Next
<1>2. [][Step]_vars => OnlyWritesChange
  BY DEF OnlyWritesChange
<1> HIDE DEF Step
<1> QED BY <1>1, <1>2, Inductive, PTL DEF Spec
=============================================================================
