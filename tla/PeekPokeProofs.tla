--------------------------- MODULE PeekPokeProofs ----------------------------
(***************************************************************************)
(* Proofs about the peek and poke module, for any users, commands and size *)
(* of the buffer.                                                          *)
(***************************************************************************)
EXTENDS PeekPoke, SequenceTheorems, WellFoundedInduction, TLAPS

(* Every set of natural numbers has a least one.                           *)
LEMMA Least ==
  ASSUME NEW T \in SUBSET Nat, T # {}
  PROVE  \E x \in T : \A y \in T : x <= y
<1> DEFINE R == OpToRel(<, Nat)
<1>1. IsWellFoundedOn(R, Nat)
  BY NatLessThanWellFounded
<1>2. PICK x \in T : \A y \in T : ~(<<y, x>> \in R)
  BY <1>1, WFMin
<1>3. \A y \in T : ~(y < x)
  BY <1>2 DEF OpToRel
<1> QED
  BY <1>3

-----------------------------------------------------------------------------
(* The buffer.                                                             *)

(* The last cell is never written but with the end of a string.            *)
BufferInv == sysfs_buffer \in [Cells -> Texts] /\ sysfs_buffer[MaxRegisters + 1] = End

LEMMA TextTypes ==
  /\ End \in Texts
  /\ \A n \in Numbers : Number(n) \in Texts /\ Number(n) # End
  /\ Word("format error") \in Texts /\ Word("amount error") \in Texts
  /\ \A c \in Commands : CommandText(c) \in Seq(Texts) /\ Len(CommandText(c)) = 3
  /\ \A t \in Texts : t[1] = "number" => t[2] \in Numbers
<1>1. \A w \in {"r", "w", "x", "format error", "amount error", "end"} : Word(w) \in Texts
  BY DEF Texts
<1>2. \A n : Number(n) # End
  BY DEF Number, End, Word
<1>3. \A n \in Numbers : Number(n) \in Texts
  BY DEF Texts
<1>4. ASSUME NEW c \in Commands
      PROVE  CommandText(c) \in Seq(Texts) /\ Len(CommandText(c)) = 3
  <2>1. c[1] \in {"r", "w", "x"} /\ c[2] \in Numbers /\ c[3] \in Numbers
    BY PeekPokeAssumption DEF Numbers, Addresses
  <2>2. Word(c[1]) \in Texts /\ Number(c[2]) \in Texts /\ Number(c[3]) \in Texts
    BY <2>1, <1>1, <1>3
  <2> QED
    BY <2>2 DEF CommandText
<1>5. ASSUME NEW t \in Texts, t[1] = "number" PROVE t[2] \in Numbers
  <2>1. CASE t \in {Word(w) : w \in {"r", "w", "x", "format error", "amount error", "end"}}
    <3>1. PICK w \in {"r", "w", "x", "format error", "amount error", "end"} : t = Word(w)
      BY <2>1
    <3>2. t[1] = w
      BY <3>1 DEF Word
    <3> QED
      BY <1>5, <3>2
  <2>2. CASE t \in {Number(n) : n \in Numbers}
    BY <2>2 DEF Number
  <2> QED
    BY <2>1, <2>2 DEF Texts
<1> QED
  BY <1>1, <1>2, <1>3, <1>4, <1>5 DEF End

(* What a sprintf into the buffer leaves there.                            *)
LEMMA WrittenCells ==
  ASSUME BufferInv, NEW at \in Nat \ {0}, NEW cells \in Seq(Texts),
         at + Len(cells) <= MaxRegisters + 1
  PROVE  /\ Written(at, cells) \in [Cells -> Texts]
         /\ Written(at, cells)[MaxRegisters + 1] = End
         /\ \A i \in 1..Len(cells) : Written(at, cells)[at + i - 1] = cells[i]
         /\ Written(at, cells)[at + Len(cells)] = End
         /\ \A i \in 1..(at - 1) : Written(at, cells)[i] = sysfs_buffer[i]
<1>1. Len(cells) \in Nat /\ MaxRegisters \in Nat
  BY PeekPokeAssumption
<1>2. \A i \in at..(at + Len(cells) - 1) : cells[i - at + 1] \in Texts
  BY <1>1, ElementOfSeq
<1>3. \A i \in Cells : Written(at, cells)[i] \in Texts
  BY <1>1, <1>2, TextTypes DEF Written, BufferInv
<1>4. Written(at, cells) \in [Cells -> Texts]
  BY <1>3 DEF Written
<1>5. Written(at, cells)[MaxRegisters + 1] = End
  BY <1>1 DEF Written, BufferInv, Cells
<1>6. ASSUME NEW i \in 1..Len(cells) PROVE Written(at, cells)[at + i - 1] = cells[i]
  BY <1>1 DEF Written, Cells
<1>7. Written(at, cells)[at + Len(cells)] = End
  BY <1>1 DEF Written, Cells
<1>8. ASSUME NEW i \in 1..(at - 1) PROVE Written(at, cells)[i] = sysfs_buffer[i]
  BY <1>1 DEF Written, Cells
<1> QED
  BY <1>4, <1>5, <1>6, <1>7, <1>8

(* There is a string in the buffer, up to its first end.                   *)
LEMMA StringLengthType ==
  ASSUME BufferInv
  PROVE  /\ StringLength \in 0..MaxRegisters
         /\ Text \in Seq(Texts)
<1> DEFINE Ends == {n \in 0..MaxRegisters : sysfs_buffer[n + 1] = End}
<1>1. MaxRegisters \in Nat
  BY PeekPokeAssumption
<1>2. Ends \in SUBSET Nat /\ Ends # {}
  BY <1>1 DEF BufferInv
<1>3. PICK n \in Ends : \A m \in Ends : n <= m
  BY <1>2, Least
<1>4. n \in 0..MaxRegisters /\ sysfs_buffer[n + 1] = End
  OBVIOUS
<1>5. ASSUME NEW i \in 1..n PROVE sysfs_buffer[i] # End
  <2>1. i - 1 \in 0..MaxRegisters /\ (i - 1) + 1 = i /\ ~(n <= i - 1)
    BY <1>1, <1>4
  <2> QED
    BY <1>3, <2>1
<1>6. StringLength \in 0..MaxRegisters
  BY <1>4, <1>5 DEF StringLength
<1>7. \A i \in 1..StringLength : sysfs_buffer[i] \in Texts
  BY <1>1, <1>6 DEF BufferInv, Cells
<1> QED
  BY <1>6, <1>7, SubSeqProperties DEF Text

-----------------------------------------------------------------------------
(* While registers are read, what is left of them fits the buffer.         *)
LoopInv ==
  \A u \in Users : pc[u] \in {"read", "append"} =>
    /\ current_address[u] < end_address[u]
    /\ length[u] + (end_address[u] - current_address[u]) <= MaxRegisters

LEMMA EndAddressRange ==
  ASSUME NEW a \in Nat, NEW n \in Nat
  PROVE  EndAddress(a, n) \in Addresses /\ EndAddress(a, n) <= a + n
<1> DEFINE s == a + n
<1>1. NumAddresses \in Nat \ {0} /\ s \in Nat
  BY PeekPokeAssumption
<1>2. s % NumAddresses \in 0..(NumAddresses - 1) /\ s % NumAddresses <= s
  <2> HIDE DEF s
  <2>1. s % NumAddresses \in 0..(NumAddresses - 1)
    BY <1>1
  <2>2. CASE s < NumAddresses
    BY <1>1, <2>2
  <2>3. CASE s >= NumAddresses
    BY <1>1, <2>1, <2>3
  <2> QED
    BY <1>1, <2>1, <2>2, <2>3
<1> QED
  BY <1>2 DEF EndAddress, Addresses

(* What sscanf takes out of the buffer.                                    *)
LEMMA ParsedTypes ==
  ASSUME BufferInv, IsCommand
  PROVE  Address \in Numbers /\ Parameter \in Numbers
<1>1. 2 \in Cells /\ 3 \in Cells
  BY PeekPokeAssumption DEF Cells
<1>2. sysfs_buffer[2] \in Texts /\ sysfs_buffer[3] \in Texts
  BY <1>1 DEF BufferInv
<1> QED
  BY <1>2, TextTypes DEF IsCommand, Address, Parameter

LEMMA NumbersAreNatural == Numbers \subseteq Nat
<1>1. ASSUME NEW c \in Commands PROVE c[3] \in Nat
  BY PeekPokeAssumption
<1>2. Addresses \subseteq Nat /\ Words \subseteq Nat
  BY PeekPokeAssumption DEF Addresses
<1> QED
  BY <1>1, <1>2 DEF Numbers

(* A sprintf that fits keeps what is known of the buffer.                  *)
LEMMA BufferKept ==
  ASSUME BufferInv, NEW at \in Nat \ {0}, NEW cells \in Seq(Texts),
         at + Len(cells) <= MaxRegisters + 1, sysfs_buffer' = Written(at, cells)
  PROVE  BufferInv'
<1>1. /\ Written(at, cells) \in [Cells -> Texts]
      /\ Written(at, cells)[MaxRegisters + 1] = End
  BY WrittenCells
<1>2. /\ sysfs_buffer' \in [Cells -> Texts]
      /\ sysfs_buffer'[MaxRegisters + 1] = End
  BY <1>1
<1> QED
  BY <1>2 DEF BufferInv

LEMMA OneText == \A t \in Texts : <<t>> \in Seq(Texts) /\ Len(<<t>>) = 1
OBVIOUS

LEMMA EmptyTexts == <<>> \in Seq(Texts) /\ <<>> \in Seq(Words) /\ Len(<<>>) = 0
OBVIOUS

LEMMA NothingShown == NotShown \in Seq(Texts)
BY OneText, TextTypes DEF NotShown

BoundInv == TypeOK /\ BufferInv /\ LoopInv

LEMMA InitBound == Init => BoundInv
<1> SUFFICES ASSUME Init PROVE BoundInv
  OBVIOUS
<1>1. BufferInv
  <2>1. MaxRegisters + 1 \in Cells
    BY PeekPokeAssumption DEF Cells
  <2> QED
    BY <2>1, TextTypes DEF Init, BufferInv
<1>2. LoopInv
  BY DEF Init, LoopInv
<1>3. 0 \in Numbers /\ 0 \in Addresses /\ 0 \in 0..MaxRegisters
  BY PeekPokeAssumption DEF Numbers, Addresses
<1>4. <<>> \in Seq(Words) /\ NotShown \in Seq(Texts)
  BY EmptyTexts, NothingShown
<1> QED
  BY <1>1, <1>2, <1>3, <1>4 DEF Init, BoundInv, TypeOK, BufferInv, Labels

(* A step that neither prints nor moves a user into the loop.              *)
LEMMA LoopKept ==
  ASSUME LoopInv, NEW u \in Users, pc \in [Users -> Labels],
         pc' = [pc EXCEPT ![u] = "idle"] \/ pc' = [pc EXCEPT ![u] = "parse"]
           \/ pc' = [pc EXCEPT ![u] = "write"],
         \A v \in Users \ {u} : UNCHANGED <<current_address[v], end_address[v], length[v]>>
  PROVE  LoopInv'
BY DEF LoopInv

LEMMA BoundStep == BoundInv /\ [Next]_vars => BoundInv'
<1> SUFFICES ASSUME BoundInv, [Next]_vars PROVE BoundInv'
  OBVIOUS
<1> USE DEF Labels
<1>0. TypeOK /\ BufferInv /\ LoopInv /\ MaxRegisters \in Nat /\ MaxRegisters >= 3
  BY PeekPokeAssumption DEF BoundInv
<1>1. ASSUME NEW u \in Users, Store(u) PROVE BoundInv'
  <2>1. PICK c \in Commands : /\ sysfs_buffer' = Written(1, CommandText(c))
                              /\ asked' = [asked EXCEPT ![u] = c]
    BY <1>1 DEF Store
  <2>2. CommandText(c) \in Seq(Texts) /\ Len(CommandText(c)) = 3
    BY TextTypes
  <2>3. BufferInv'
    <3>1. 1 \in Nat \ {0} /\ 1 + Len(CommandText(c)) <= MaxRegisters + 1
      BY <1>0, <2>2
    <3> QED
      BY <1>0, <2>1, <2>2, <3>1, BufferKept
  <2>4. asked' \in [Users -> Commands \cup {NoCommand}]
    BY <1>0, <2>1 DEF TypeOK
  <2>5. pc' = [pc EXCEPT ![u] = "parse"] /\ UNCHANGED <<lastWrite, locals>>
    BY <1>1 DEF Store, Goes
  <2>6. LoopInv'
    BY <1>0, <2>5, LoopKept DEF locals, TypeOK
  <2>7. /\ got' \in [Users -> Seq(Words)]
        /\ alone' \in [Users -> BOOLEAN]
        /\ shown' \in [Users -> Seq(Texts)]
    <3>1. <<>> \in Seq(Words) /\ NotShown \in Seq(Texts)
      BY EmptyTexts, NothingShown
    <3>2. alone' \in [Users -> BOOLEAN]
      BY <1>1 DEF Store
    <3> QED
      BY <1>0, <1>1, <3>1, <3>2 DEF Store, TypeOK
  <2> QED
    BY <1>0, <2>3, <2>4, <2>5, <2>6, <2>7 DEF BoundInv, TypeOK, BufferInv, locals
<1>2. ASSUME NEW u \in Users, Refuse(u) PROVE BoundInv'
  <2>0. 1 \in Nat \ {0} /\ 1 + 1 <= MaxRegisters + 1
    BY <1>0
  <2>1. PICK w \in {"format error", "amount error"} : sysfs_buffer' = Written(1, <<Word(w)>>)
    BY <1>2 DEF Refuse
  <2>2. <<Word(w)>> \in Seq(Texts) /\ Len(<<Word(w)>>) = 1
    BY TextTypes, OneText
  <2>3. BufferInv'
    <3>2. 1 + Len(<<Word(w)>>) <= MaxRegisters + 1
      BY <2>0, <2>2
    <3> QED
      BY <1>0, <2>0, <2>1, <2>2, <3>2, BufferKept
  <2>4. pc' = [pc EXCEPT ![u] = "idle"] /\ UNCHANGED <<lastWrite, locals, history>>
    BY <1>2 DEF Refuse, Goes
  <2>5. LoopInv'
    BY <1>0, <2>4, LoopKept DEF locals, TypeOK
  <2> QED
    BY <1>0, <2>3, <2>4, <2>5 DEF BoundInv, TypeOK, BufferInv, locals, history
<1>3. ASSUME NEW u \in Users, ParseWrite(u) PROVE BoundInv'
  <2>1. /\ pc' = [pc EXCEPT ![u] = "write"]
        /\ current_address' = [current_address EXCEPT ![u] = Address]
        /\ value' = [value EXCEPT ![u] = Parameter]
        /\ UNCHANGED <<buffers, end_address, length, history>>
    BY <1>3 DEF ParseWrite, Goes
  <2>2. Address \in Numbers /\ Parameter \in Numbers
    BY <1>0, <1>3, ParsedTypes DEF ParseWrite
  <2>3. LoopInv'
    BY <1>0, <2>1, LoopKept DEF TypeOK
  <2> QED
    BY <1>0, <2>1, <2>2, <2>3 DEF BoundInv, TypeOK, BufferInv, buffers, history
<1>4. ASSUME NEW u \in Users, ParseRead(u) PROVE BoundInv'
  <2> DEFINE end == EndAddress(Address, Parameter)
  <2>1. /\ pc' = [pc EXCEPT ![u] = More(Address, end)]
        /\ current_address' = [current_address EXCEPT ![u] = Address]
        /\ end_address' = [end_address EXCEPT ![u] = end]
        /\ length' = [length EXCEPT ![u] = 0]
        /\ sysfs_buffer' = Written(1, <<>>)
        /\ UNCHANGED <<lastWrite, value, history>>
    BY <1>4 DEF ParseRead, Goes
  <2>2. Address \in Numbers /\ Address \in Nat /\ Parameter \in 1..MaxRegisters
    BY <1>0, <1>4, ParsedTypes, NumbersAreNatural DEF ParseRead, Fits
  <2>3. end \in Addresses /\ end <= Address + Parameter
    BY <2>2, EndAddressRange
  <2>4. BufferInv'
    <3>1. 1 \in Nat \ {0} /\ 1 + Len(<<>>) <= MaxRegisters + 1
      BY <1>0, EmptyTexts
    <3> QED
      BY <1>0, <2>1, <3>1, EmptyTexts, BufferKept
  <2>5. More(Address, end) \in {"read", "idle"} /\ (More(Address, end) = "read" => Address < end)
    BY DEF More
  <2>6. LoopInv'
    <3> SUFFICES ASSUME NEW v \in Users, pc'[v] \in {"read", "append"}
                 PROVE  /\ current_address'[v] < end_address'[v]
                        /\ length'[v] + (end_address'[v] - current_address'[v]) <= MaxRegisters
      BY DEF LoopInv
    <3>1. CASE v = u
      <4>1. /\ current_address'[u] = Address /\ end_address'[u] = end
            /\ length'[u] = 0 /\ pc'[u] = More(Address, end)
        BY <1>0, <2>1 DEF TypeOK
      <4>2. end \in Int
        BY <2>3 DEF Addresses
      <4> QED
        BY <1>0, <2>2, <2>3, <2>5, <3>1, <4>1, <4>2
    <3>2. CASE v # u
      BY <1>0, <2>1, <3>2 DEF LoopInv, TypeOK
    <3> QED
      BY <3>1, <3>2
  <2> QED
    BY <1>0, <2>1, <2>2, <2>3, <2>4, <2>5, <2>6 DEF BoundInv, TypeOK, BufferInv, history
<1>5. ASSUME NEW u \in Users, WriteRegister(u) PROVE BoundInv'
  <2>1. /\ pc' = [pc EXCEPT ![u] = "idle"]
        /\ lastWrite' \in {Operands(u), lastWrite}
        /\ UNCHANGED <<sysfs_buffer, locals, history>>
    BY <1>5 DEF WriteRegister, Goes
  <2>2. Operands(u) \in Numbers \X Numbers
    BY <1>0 DEF Operands, TypeOK
  <2>3. LoopInv'
    BY <1>0, <2>1, LoopKept DEF TypeOK, locals
  <2> QED
    BY <1>0, <2>1, <2>2, <2>3 DEF BoundInv, TypeOK, BufferInv, locals, history
<1>6. ASSUME NEW u \in Users, ReadRegister(u) PROVE BoundInv'
  <2>1. PICK w \in Words : /\ value' = [value EXCEPT ![u] = w]
                           /\ got' = [got EXCEPT ![u] = Append(got[u], w)]
    BY <1>6 DEF ReadRegister
  <2>2. /\ pc[u] = "read" /\ pc' = [pc EXCEPT ![u] = "append"]
        /\ UNCHANGED <<buffers, current_address, end_address, length, asked, alone, shown>>
    BY <1>6 DEF ReadRegister, Goes
  <2>3. w \in Numbers /\ Append(got[u], w) \in Seq(Words)
    BY <1>0 DEF Numbers, TypeOK
  <2>4. LoopInv'
    BY <1>0, <2>2 DEF LoopInv, TypeOK
  <2> QED
    BY <1>0, <2>1, <2>2, <2>3, <2>4 DEF BoundInv, TypeOK, BufferInv, buffers
<1>7. ASSUME NEW u \in Users, AppendValue(u) PROVE BoundInv'
  <2>1. /\ pc[u] = "append"
        /\ pc' = [pc EXCEPT ![u] = More(current_address[u] + 1, end_address[u])]
        /\ sysfs_buffer' = Written(length[u] + 1, <<Number(value[u])>>)
        /\ length' = [length EXCEPT ![u] = length[u] + 1]
        /\ current_address' = [current_address EXCEPT ![u] = current_address[u] + 1]
        /\ UNCHANGED <<lastWrite, end_address, value, history>>
    BY <1>7 DEF AppendValue, Goes
  <2>2. /\ current_address[u] \in Nat /\ end_address[u] \in Addresses
        /\ end_address[u] \in Nat /\ length[u] \in 0..MaxRegisters
    <3>1. current_address[u] \in Numbers /\ end_address[u] \in Addresses
      BY <1>0 DEF TypeOK
    <3>2. length[u] \in 0..MaxRegisters
      BY <1>0 DEF TypeOK
    <3>3. Addresses \subseteq Nat
      BY PeekPokeAssumption DEF Addresses
    <3> QED
      BY <3>1, <3>2, <3>3, NumbersAreNatural
  <2>3. /\ current_address[u] < end_address[u]
        /\ length[u] + (end_address[u] - current_address[u]) <= MaxRegisters
    BY <1>0, <2>1 DEF LoopInv
  <2>4. current_address[u] + 1 \in Numbers /\ length[u] + 1 \in 0..MaxRegisters
    <3>1. current_address[u] + 1 \in Addresses
      BY <2>2, <2>3, PeekPokeAssumption DEF Addresses
    <3>2. length[u] + 1 \in 0..MaxRegisters
      <4>1. end_address[u] - current_address[u] >= 1
        BY <2>2, <2>3
      <4> QED
        BY <1>0, <2>2, <2>3, <4>1
    <3> QED
      BY <3>1, <3>2 DEF Numbers
  <2>5. BufferInv'
    <3>1. <<Number(value[u])>> \in Seq(Texts) /\ Len(<<Number(value[u])>>) = 1
      BY <1>0, TextTypes, OneText DEF TypeOK
    <3>2. /\ length[u] + 1 \in Nat \ {0}
          /\ length[u] + 1 + Len(<<Number(value[u])>>) <= MaxRegisters + 1
      BY <1>0, <2>2, <2>4, <3>1
    <3> QED
      BY <1>0, <2>1, <3>1, <3>2, BufferKept
  <2>6. /\ More(current_address[u] + 1, end_address[u]) \in {"read", "idle"}
        /\ More(current_address[u] + 1, end_address[u]) = "read"
             => current_address[u] + 1 < end_address[u]
    BY DEF More
  <2>7. LoopInv'
    <3> SUFFICES ASSUME NEW v \in Users, pc'[v] \in {"read", "append"}
                 PROVE  /\ current_address'[v] < end_address'[v]
                        /\ length'[v] + (end_address'[v] - current_address'[v]) <= MaxRegisters
      BY DEF LoopInv
    <3>1. CASE v = u
      <4>1. /\ current_address'[u] = current_address[u] + 1
            /\ end_address'[u] = end_address[u]
            /\ length'[u] = length[u] + 1
            /\ pc'[u] = More(current_address[u] + 1, end_address[u])
        BY <1>0, <2>1 DEF TypeOK
      <4> QED
        BY <1>0, <2>2, <2>3, <2>6, <3>1, <4>1
    <3>2. CASE v # u
      BY <1>0, <2>1, <3>2 DEF LoopInv, TypeOK
    <3> QED
      BY <3>1, <3>2
  <2> QED
    BY <1>0, <2>1, <2>4, <2>5, <2>6, <2>7 DEF BoundInv, TypeOK, BufferInv, history
<1>8. ASSUME NEW u \in Users, Show(u) PROVE BoundInv'
  <2>1. /\ shown' = [shown EXCEPT ![u] = Text]
        /\ UNCHANGED <<buffers, pc, locals, asked, got, alone>>
    BY <1>8 DEF Show
  <2>2. Text \in Seq(Texts)
    BY <1>0, StringLengthType
  <2> QED
    BY <1>0, <2>1, <2>2 DEF BoundInv, TypeOK, BufferInv, LoopInv, buffers, locals
<1>9. CASE UNCHANGED vars
  BY <1>0, <1>9 DEF vars, BoundInv, TypeOK, BufferInv, LoopInv, buffers, locals, history
<1> QED
  BY <1>1, <1>2, <1>3, <1>4, <1>5, <1>6, <1>7, <1>8, <1>9 DEF Next

(* The answers stay inside the buffer, whoever stores and appends when:    *)
(* the count of numbers is bounded when a command is parsed, and one       *)
(* reader's count is a local of its own (KernelModule-1.c:138-156).        *)
THEOREM TypeCorrect == Spec => []TypeOK
<1>1. BoundInv => TypeOK
  BY DEF BoundInv
<1> QED
  BY <1>1, InitBound, BoundStep, PTL DEF Spec

-----------------------------------------------------------------------------
(* Who parses finds the command it stored: nobody else is in the buffer    *)
(* between memcpy and sscanf.                                              *)
ParseInv ==
  \A u \in Users : pc[u] = "parse" =>
    /\ asked[u] \in Commands
    /\ \A i \in 1..3 : sysfs_buffer[i] = CommandText(asked[u])[i]

(* What it takes from there stays in its locals until the write.           *)
OperandInv ==
  \A u \in Users : pc[u] = "write" => asked[u] = <<"w", current_address[u], value[u]>>

WriteInv == BoundInv /\ ParseInv /\ OperandInv

LEMMA Triple ==
  \A c \in Commands : /\ c = <<c[1], c[2], c[3]>>
                      /\ CommandText(c)[1][1] = c[1]
                      /\ CommandText(c)[2][2] = c[2]
                      /\ CommandText(c)[3][2] = c[3]
BY PeekPokeAssumption DEF CommandText, Word, Number

LEMMA InitWrite == Init => WriteInv
BY InitBound DEF Init, WriteInv, ParseInv, OperandInv

(* A step of a user that is not stopped by one who parses.                 *)
LEMMA OthersKept ==
  ASSUME TypeOK, ParseInv, OperandInv, NEW u \in Users, ~Preemptible, MayRun(u),
         NEW l \in Labels, pc' = [pc EXCEPT ![u] = l],
         l \notin {"parse", "write"},
         \A v \in Users \ {u} : UNCHANGED <<asked[v], current_address[v], value[v]>>
  PROVE  (ParseInv /\ OperandInv)'
<1>1. \A v \in Users \ {u} : pc'[v] = pc[v] /\ pc[v] # "parse"
  BY DEF MayRun, TypeOK
<1>2. pc'[u] = l
  BY DEF TypeOK
<1>3. \A v \in Users : pc'[v] # "parse"
  BY <1>1, <1>2
<1>4. ASSUME NEW v \in Users, pc'[v] = "write"
      PROVE  asked'[v] = <<"w", current_address'[v], value'[v]>>
  <2>1. v # u /\ pc[v] = "write"
    BY <1>1, <1>2, <1>4
  <2> QED
    BY <2>1 DEF OperandInv
<1> QED
  BY <1>3, <1>4 DEF ParseInv, OperandInv

LEMMA WriteStep == ~Preemptible /\ WriteInv /\ [Next]_vars => WriteInv'
<1> SUFFICES ASSUME ~Preemptible, WriteInv, [Next]_vars PROVE WriteInv'
  OBVIOUS
<1>0. TypeOK /\ BufferInv /\ ParseInv /\ OperandInv
  BY DEF WriteInv, BoundInv
<1>b. BoundInv'
  BY BoundStep DEF WriteInv
<1>m. MaxRegisters \in Nat /\ 1 + 3 <= MaxRegisters + 1
  BY PeekPokeAssumption
<1>1. ASSUME NEW u \in Users, Store(u) PROVE (ParseInv /\ OperandInv)'
  <2>1. PICK c \in Commands : /\ sysfs_buffer' = Written(1, CommandText(c))
                              /\ asked' = [asked EXCEPT ![u] = c]
    BY <1>1 DEF Store
  <2>2. pc' = [pc EXCEPT ![u] = "parse"] /\ MayRun(u) /\ UNCHANGED locals
    BY <1>1 DEF Store, Goes
  <2>3. /\ \A v \in Users \ {u} : pc'[v] = pc[v] /\ pc[v] # "parse" /\ asked'[v] = asked[v]
        /\ pc'[u] = "parse" /\ asked'[u] = c
    BY <1>0, <2>1, <2>2 DEF MayRun, TypeOK
  <2>4. CommandText(c) \in Seq(Texts) /\ Len(CommandText(c)) = 3
    BY TextTypes
  <2>5. \A i \in 1..3 : Written(1, CommandText(c))[1 + i - 1] = CommandText(c)[i]
    <3>1. 1 \in Nat \ {0} /\ 1 + Len(CommandText(c)) <= MaxRegisters + 1
      BY <1>m, <2>4
    <3> QED
      BY <1>0, <2>4, <3>1, WrittenCells
  <2>6. \A i \in 1..3 : sysfs_buffer'[i] = CommandText(c)[i]
    <3>1. \A i \in 1..3 : 1 + i - 1 = i
      OBVIOUS
    <3> QED
      BY <2>1, <2>5, <3>1
  <2>7. ParseInv'
    BY <2>3, <2>6 DEF ParseInv
  <2>8. OperandInv'
    BY <1>0, <2>2, <2>3 DEF OperandInv, locals
  <2> QED
    BY <2>7, <2>8
<1>2. ASSUME NEW u \in Users, Refuse(u) PROVE (ParseInv /\ OperandInv)'
  <2>1. /\ pc' = [pc EXCEPT ![u] = "idle"] /\ MayRun(u)
        /\ UNCHANGED <<asked, current_address, value>>
    BY <1>2 DEF Refuse, Goes, locals, history
  <2> QED
    BY <1>0, <2>1, OthersKept DEF Labels
<1>3. ASSUME NEW u \in Users, ParseWrite(u) PROVE (ParseInv /\ OperandInv)'
  <2>1. /\ pc[u] = "parse" /\ pc' = [pc EXCEPT ![u] = "write"] /\ MayRun(u)
        /\ current_address' = [current_address EXCEPT ![u] = Address]
        /\ value' = [value EXCEPT ![u] = Parameter]
        /\ asked' = asked /\ Mode = "w"
    BY <1>3 DEF ParseWrite, Goes, history
  <2>2. /\ \A v \in Users \ {u} : pc'[v] = pc[v] /\ pc[v] # "parse"
        /\ pc'[u] = "write"
    BY <1>0, <2>1 DEF MayRun, TypeOK
  <2>3. asked[u] \in Commands /\ \A i \in 1..3 : sysfs_buffer[i] = CommandText(asked[u])[i]
    BY <1>0, <2>1 DEF ParseInv
  <2>4. asked[u] = <<"w", Address, Parameter>>
    <3>1. Mode = asked[u][1] /\ Address = asked[u][2] /\ Parameter = asked[u][3]
      BY <2>3, Triple DEF Mode, Address, Parameter
    <3> QED
      BY <2>1, <2>3, <3>1, Triple
  <2>5. ParseInv'
    BY <2>2 DEF ParseInv
  <2>6. OperandInv'
    <3> SUFFICES ASSUME NEW v \in Users, pc'[v] = "write"
                 PROVE  asked'[v] = <<"w", current_address'[v], value'[v]>>
      BY DEF OperandInv
    <3>1. CASE v = u
      BY <1>0, <2>1, <2>4, <3>1 DEF TypeOK
    <3>2. CASE v # u
      BY <1>0, <2>1, <2>2, <3>2 DEF OperandInv, TypeOK
    <3> QED
      BY <3>1, <3>2
  <2> QED
    BY <2>5, <2>6
<1>4. ASSUME NEW u \in Users, ParseRead(u) PROVE (ParseInv /\ OperandInv)'
  <2> DEFINE l == More(Address, EndAddress(Address, Parameter))
  <2>1. /\ pc' = [pc EXCEPT ![u] = l] /\ MayRun(u)
        /\ current_address' = [current_address EXCEPT ![u] = Address]
        /\ UNCHANGED <<asked, value>>
    BY <1>4 DEF ParseRead, Goes, history
  <2>2. l \in {"read", "idle"}
    BY DEF More
  <2>3. \A v \in Users \ {u} : UNCHANGED <<asked[v], current_address[v], value[v]>>
    BY <1>0, <2>1 DEF TypeOK
  <2> HIDE DEF l
  <2> QED
    BY <1>0, <2>1, <2>2, <2>3, OthersKept DEF Labels
<1>5. ASSUME NEW u \in Users, WriteRegister(u) PROVE (ParseInv /\ OperandInv)'
  <2>1. /\ pc' = [pc EXCEPT ![u] = "idle"] /\ MayRun(u)
        /\ UNCHANGED <<asked, current_address, value>>
    BY <1>5 DEF WriteRegister, Goes, locals, history
  <2> QED
    BY <1>0, <2>1, OthersKept DEF Labels
<1>6. ASSUME NEW u \in Users, ReadRegister(u) PROVE (ParseInv /\ OperandInv)'
  <2>1. /\ pc' = [pc EXCEPT ![u] = "append"] /\ MayRun(u)
        /\ \E w \in Words : value' = [value EXCEPT ![u] = w]
        /\ UNCHANGED <<asked, current_address>>
    BY <1>6 DEF ReadRegister, Goes
  <2>2. \A v \in Users \ {u} : UNCHANGED <<asked[v], current_address[v], value[v]>>
    BY <1>0, <2>1 DEF TypeOK
  <2> QED
    BY <1>0, <2>1, <2>2, OthersKept DEF Labels
<1>7. ASSUME NEW u \in Users, AppendValue(u) PROVE (ParseInv /\ OperandInv)'
  <2> DEFINE l == More(current_address[u] + 1, end_address[u])
  <2>1. /\ pc' = [pc EXCEPT ![u] = l] /\ MayRun(u)
        /\ current_address' = [current_address EXCEPT ![u] = current_address[u] + 1]
        /\ UNCHANGED <<asked, value>>
    BY <1>7 DEF AppendValue, Goes, history
  <2>2. l \in {"read", "idle"}
    BY DEF More
  <2>3. \A v \in Users \ {u} : UNCHANGED <<asked[v], current_address[v], value[v]>>
    BY <1>0, <2>1 DEF TypeOK
  <2> HIDE DEF l
  <2> QED
    BY <1>0, <2>1, <2>2, <2>3, OthersKept DEF Labels
<1>8. ASSUME NEW u \in Users, Show(u) PROVE (ParseInv /\ OperandInv)'
  BY <1>0, <1>8 DEF Show, ParseInv, OperandInv, buffers, locals
<1>9. CASE UNCHANGED vars
  <2>1. UNCHANGED <<pc, asked, sysfs_buffer, current_address, value>>
    BY <1>9 DEF vars, buffers, locals, history
  <2>2. ParseInv'
    BY <1>0, <2>1 DEF ParseInv
  <2>3. OperandInv'
    BY <1>0, <2>1 DEF OperandInv
  <2> QED
    BY <1>b, <2>2, <2>3 DEF WriteInv
<1> QED
  BY <1>b, <1>1, <1>2, <1>3, <1>4, <1>5, <1>6, <1>7, <1>8, <1>9 DEF Next, WriteInv

LEMMA WriteText == \A a, b : <<"w">> \o <<a, b>> = <<"w", a, b>>
<1> TAKE a, b
<1> DEFINE S == {"w", a, b}
<1>1. <<"w">> \in Seq(S) /\ <<a, b>> \in Seq(S) /\ <<"w", a, b>> \in Seq(S)
  OBVIOUS
<1>2. Len(<<"w">>) = 1 /\ Len(<<a, b>>) = 2 /\ Len(<<"w", a, b>>) = 3
  OBVIOUS
<1> HIDE DEF S
<1>3. /\ <<"w">> \o <<a, b>> \in Seq(S) /\ Len(<<"w">> \o <<a, b>>) = 3
  BY <1>1, <1>2, ConcatProperties
<1>4. \A i \in 1..3 : (<<"w">> \o <<a, b>>)[i] = IF i <= 1 THEN <<"w">>[i] ELSE <<a, b>>[i-1]
  BY <1>1, <1>2, ConcatProperties
<1>5. \A i \in 1..3 : (<<"w">> \o <<a, b>>)[i] = <<"w", a, b>>[i]
  BY <1>4
<1> QED
  BY <1>1, <1>2, <1>3, <1>5, SeqEqual

LEMMA WriteAsked ==
  WriteInv /\ [Next]_vars =>
    [lastWrite' # lastWrite =>
       \E u \in Users : pc[u] = "write" /\ asked[u] = <<"w">> \o lastWrite']_vars
<1> SUFFICES ASSUME WriteInv, Next, lastWrite' # lastWrite
             PROVE  \E u \in Users : pc[u] = "write" /\ asked[u] = <<"w">> \o lastWrite'
  BY DEF vars, buffers
<1>1. PICK u \in Users : WriteRegister(u)
  BY DEF Next, Store, Refuse, ParseWrite, ParseRead, ReadRegister, AppendValue, Show, buffers
<1>2. pc[u] = "write" /\ lastWrite' = <<current_address[u], value[u]>>
  BY <1>1 DEF WriteRegister, Goes, Operands
<1>3. asked[u] = <<"w", current_address[u], value[u]>>
  BY <1>2 DEF WriteInv, OperandInv
<1>4. <<"w">> \o <<current_address[u], value[u]>> = <<"w", current_address[u], value[u]>>
  BY WriteText
<1> QED
  BY <1>2, <1>3, <1>4

(* A register is only ever written as its user's own command says, as long *)
(* as the kernel does not preempt a process inside sysfs_store: for any    *)
(* number of users and whatever the others store while ioremap sleeps      *)
(* (KernelModule-1.c:120-136, 171-174).                                    *)
THEOREM WritesCommanded == ~Preemptible /\ Spec => OnlyCommandedWrites
<1> SUFFICES ASSUME ~Preemptible PROVE Spec => OnlyCommandedWrites
  OBVIOUS
<1>0. WriteInv /\ [Next]_vars => WriteInv'
  BY WriteStep
<1>1. Spec => []WriteInv
  BY InitWrite, <1>0, PTL DEF Spec
<1> QED
  BY <1>1, WriteAsked, PTL DEF Spec, OnlyCommandedWrites

-----------------------------------------------------------------------------
(* What the buffer holds: a string with nothing but its end behind it.     *)
Holds(s) ==
  /\ s \in Seq(Texts) /\ Len(s) <= MaxRegisters
  /\ \A i \in 1..Len(s) : sysfs_buffer[i] = s[i] /\ s[i] # End
  /\ sysfs_buffer[Len(s) + 1] = End

LEMMA HeldText ==
  ASSUME BufferInv, NEW s, Holds(s)
  PROVE  StringLength = Len(s) /\ Text = s
<1>1. s \in Seq(Texts) /\ Len(s) \in 0..MaxRegisters /\ MaxRegisters \in Nat
  BY PeekPokeAssumption DEF Holds
<1>2. /\ sysfs_buffer[Len(s) + 1] = End
      /\ \A i \in 1..Len(s) : sysfs_buffer[i] # End
  BY DEF Holds
<1>3. ASSUME NEW n \in 0..MaxRegisters, sysfs_buffer[n + 1] = End,
             \A i \in 1..n : sysfs_buffer[i] # End
      PROVE  n = Len(s)
  <2>1. CASE n < Len(s)
    <3>1. n + 1 \in 1..Len(s)
      BY <1>1, <2>1
    <3> QED
      BY <1>2, <1>3, <3>1
  <2>2. CASE n > Len(s)
    <3>1. Len(s) + 1 \in 1..n
      BY <1>1, <2>2
    <3> QED
      BY <1>2, <1>3, <3>1
  <2> QED
    BY <1>1, <2>1, <2>2
<1>4. StringLength = Len(s)
  BY <1>1, <1>2, <1>3 DEF StringLength
<1>5. sysfs_buffer \in [Cells -> Texts] /\ 1..Len(s) \subseteq Cells
  BY <1>1 DEF BufferInv, Cells
<1>6. Text = [i \in 1..Len(s) |-> sysfs_buffer[i]]
  <2>1. Text = SubSeq(sysfs_buffer, 1, Len(s))
    BY <1>4 DEF Text
  <2>2. sysfs_buffer \in Seq(Texts) /\ Len(sysfs_buffer) = MaxRegisters + 1
    BY <1>1, <1>5 DEF Cells
  <2> QED
    BY <1>1, <2>1, <2>2
<1>7. s = [i \in 1..Len(s) |-> s[i]]
  BY <1>1
<1>8. \A i \in 1..Len(s) : sysfs_buffer[i] = s[i]
  BY DEF Holds
<1> QED
  BY <1>4, <1>6, <1>7, <1>8

(* A sprintf at the start of the buffer.                                   *)
LEMMA HoldsWritten ==
  ASSUME BufferInv, NEW s \in Seq(Texts), Len(s) <= MaxRegisters,
         \A i \in 1..Len(s) : s[i] # End, sysfs_buffer' = Written(1, s)
  PROVE  Holds(s)'
<1>1. 1 + Len(s) <= MaxRegisters + 1 /\ 1 \in Nat \ {0} /\ Len(s) \in Nat
  BY PeekPokeAssumption
<1>2. /\ \A i \in 1..Len(s) : Written(1, s)[1 + i - 1] = s[i]
      /\ Written(1, s)[1 + Len(s)] = End
  BY <1>1, WrittenCells
<1>3. /\ \A i \in 1..Len(s) : 1 + i - 1 = i
      /\ 1 + Len(s) = Len(s) + 1
  BY <1>1
<1>4. \A i \in 1..Len(s) : sysfs_buffer'[i] = s[i]
  BY <1>2, <1>3
<1>5. sysfs_buffer'[Len(s) + 1] = End
  BY <1>2, <1>3
<1> QED
  BY <1>4, <1>5 DEF Holds

(* One number more, behind the string.                                     *)
LEMMA HoldsOneMore ==
  ASSUME BufferInv, NEW s, Holds(s), Len(s) + 1 <= MaxRegisters, NEW x \in Texts, x # End,
         sysfs_buffer' = Written(Len(s) + 1, <<x>>)
  PROVE  Holds(Append(s, x))'
<1>1. s \in Seq(Texts) /\ Len(s) \in Nat /\ MaxRegisters \in Nat
  BY PeekPokeAssumption DEF Holds
<1>2. <<x>> \in Seq(Texts) /\ Len(<<x>>) = 1 /\ <<x>>[1] = x
  BY OneText
<1>3. /\ Append(s, x) \in Seq(Texts) /\ Len(Append(s, x)) = Len(s) + 1
      /\ \A i \in 1..Len(s) : Append(s, x)[i] = s[i]
      /\ Append(s, x)[Len(s) + 1] = x
  BY <1>1, AppendProperties
<1>4. DEFINE b == Written(Len(s) + 1, <<x>>)
<1>5. /\ \A i \in 1..1 : b[(Len(s) + 1) + i - 1] = <<x>>[i]
      /\ b[(Len(s) + 1) + 1] = End
      /\ \A i \in 1..((Len(s) + 1) - 1) : b[i] = sysfs_buffer[i]
  <2>1. Len(s) + 1 \in Nat \ {0} /\ (Len(s) + 1) + Len(<<x>>) <= MaxRegisters + 1
    BY <1>1, <1>2
  <2> QED
    BY <1>2, <2>1, WrittenCells
<1> HIDE DEF b
<1>6. b[Len(s) + 1] = x
  <2>1. (Len(s) + 1) + 1 - 1 = Len(s) + 1 /\ 1 \in 1..1
    BY <1>1
  <2> QED
    BY <1>2, <1>5, <2>1
<1>7. \A i \in 1..Len(s) : b[i] = s[i] /\ s[i] # End
  <2>1. (Len(s) + 1) - 1 = Len(s)
    BY <1>1
  <2> QED
    BY <1>5, <2>1 DEF Holds
<1>8. sysfs_buffer' = b
  BY DEF b
<1>9. \A i \in 1..(Len(s) + 1) : sysfs_buffer'[i] = Append(s, x)[i] /\ Append(s, x)[i] # End
  <2> SUFFICES ASSUME NEW i \in 1..(Len(s) + 1)
               PROVE  b[i] = Append(s, x)[i] /\ Append(s, x)[i] # End
    BY <1>8
  <2>1. CASE i = Len(s) + 1
    BY <1>3, <1>6, <2>1
  <2>2. CASE i # Len(s) + 1
    <3>1. i \in 1..Len(s)
      BY <1>1, <2>2
    <3> QED
      BY <1>3, <1>7, <3>1
  <2> QED
    BY <2>1, <2>2
<1>10. sysfs_buffer'[Len(Append(s, x)) + 1] = End
  BY <1>3, <1>5, <1>8
<1> QED
  BY <1>3, <1>9, <1>10 DEF Holds

LEMMA CommandWords ==
  \A c \in Commands : \A i \in 1..3 : CommandText(c)[i] # End
<1> SUFFICES ASSUME NEW c \in Commands, NEW i \in 1..3 PROVE CommandText(c)[i] # End
  OBVIOUS
<1>1. c[1] # "end"
  BY PeekPokeAssumption
<1>2. CommandText(c)[1] # End /\ CommandText(c)[2] # End /\ CommandText(c)[3] # End
  BY <1>1 DEF CommandText, Word, Number, End
<1> QED
  BY <1>2

(* What sscanf finds when the buffer holds a command.                      *)
LEMMA Parsed ==
  ASSUME BufferInv, NEW c \in Commands, Holds(CommandText(c))
  PROVE  /\ IsCommand <=> c[1] \in {"r", "w"}
         /\ Mode = c[1] /\ Address = c[2] /\ Parameter = c[3]
<1>1. StringLength = 3
  BY HeldText, TextTypes
<1>2. \A i \in 1..3 : sysfs_buffer[i] = CommandText(c)[i]
  BY TextTypes DEF Holds
<1>3. /\ sysfs_buffer[1] = Word(c[1])
      /\ sysfs_buffer[2] = Number(c[2]) /\ sysfs_buffer[3] = Number(c[3])
  BY <1>2 DEF CommandText
<1>4. Mode = c[1] /\ Address = c[2] /\ Parameter = c[3]
  BY <1>3 DEF Mode, Address, Parameter, Word, Number
<1>5. sysfs_buffer[1] \in {Word("r"), Word("w")} <=> c[1] \in {"r", "w"}
  BY <1>3 DEF Word
<1>6. \A i \in {2, 3} : sysfs_buffer[i][1] = "number"
  BY <1>3 DEF Number
<1> QED
  BY <1>1, <1>4, <1>5, <1>6 DEF IsCommand

-----------------------------------------------------------------------------
(* What the command that user stored is to be answered with.               *)
Answers(u, s) ==
  LET mode == asked[u][1]  address == asked[u][2]  amount == asked[u][3] IN
  /\ mode = "x" => s = <<Word("format error")>>
  /\ mode = "w" => s = CommandText(asked[u])
  /\ mode = "r" /\ ~(amount \in 1..MaxRegisters) => s = <<Word("amount error")>>
  /\ mode = "r" /\ amount \in 1..MaxRegisters =>
       /\ s = [i \in DOMAIN got[u] |-> Number(got[u][i])]
       /\ Len(got[u]) = IF address + amount < NumAddresses THEN amount ELSE 0

Printed(u, n) == [i \in 1..n |-> Number(got[u][i])]

(* Between two registers, or one register into the answer.                 *)
Reading(u) ==
  LET address == asked[u][2]  amount == asked[u][3] IN
  /\ asked[u][1] = "r" /\ amount \in 1..MaxRegisters
  /\ address + amount < NumAddresses /\ end_address[u] = address + amount
  /\ current_address[u] = address + length[u]
  /\ Len(got[u]) = length[u] + (IF pc[u] = "append" THEN 1 ELSE 0)
  /\ pc[u] = "append" => value[u] = got[u][Len(got[u])]
  /\ Holds(Printed(u, length[u]))

(* A user who is alone finds in the buffer what it left there.             *)
AloneInv(u) ==
  /\ \A v \in Users \ {u} : pc[v] = "idle"
  /\ asked[u] \in Commands
  /\ pc[u] \in {"parse", "write"} => Holds(CommandText(asked[u]))
  /\ pc[u] = "parse" => got[u] = <<>>
  /\ pc[u] = "write" => asked[u][1] = "w"
  /\ pc[u] \in {"read", "append"} => Reading(u)
  /\ pc[u] = "idle" => \E s : Holds(s) /\ Answers(u, s)
  /\ shown[u] # NotShown => pc[u] = "idle" /\ Answers(u, shown[u])

AnswerInv == BoundInv /\ \A u \in Users : alone[u] => AloneInv(u)

LEMMA InitAnswer == Init => AnswerInv
BY InitBound DEF Init, AnswerInv

(* A step that leaves the buffer alone.                                    *)
LEMMA HoldsKept ==
  ASSUME NEW s, Holds(s), sysfs_buffer' = sysfs_buffer
  PROVE  Holds(s)'
BY DEF Holds

LEMMA PrintedText ==
  ASSUME NEW u \in Users, NEW n \in Nat, got[u] \in Seq(Words), n <= Len(got[u])
  PROVE  /\ Printed(u, n) \in Seq(Texts) /\ Len(Printed(u, n)) = n
         /\ \A i \in 1..n : Printed(u, n)[i] = Number(got[u][i]) /\ Printed(u, n)[i] # End
<1>1. \A i \in 1..n : got[u][i] \in Numbers
  <2>1. \A i \in 1..n : i \in 1..Len(got[u])
    OBVIOUS
  <2>2. \A i \in 1..Len(got[u]) : got[u][i] \in Words
    BY ElementOfSeq
  <2> QED
    BY <2>1, <2>2 DEF Numbers
<1>2. \A i \in 1..n : Number(got[u][i]) \in Texts /\ Number(got[u][i]) # End
  BY <1>1, TextTypes
<1>3. Printed(u, n) \in [1..n -> Texts]
  BY <1>2 DEF Printed
<1>4. Printed(u, n) \in Seq(Texts) /\ Len(Printed(u, n)) = n
  BY <1>3 DEF Printed
<1> QED
  BY <1>2, <1>4 DEF Printed

LEMMA AnswerStep == AnswerInv /\ [Next]_vars => AnswerInv'
<1> SUFFICES ASSUME AnswerInv, [Next]_vars, NEW u \in Users, alone'[u]
             PROVE  AloneInv(u)'
  BY BoundStep DEF AnswerInv
<1>t. /\ TypeOK /\ BufferInv /\ LoopInv /\ TypeOK' /\ BufferInv'
      /\ MaxRegisters \in Nat
  BY BoundStep, PeekPokeAssumption DEF AnswerInv, BoundInv
<1>m. 0 <= MaxRegisters /\ 1 <= MaxRegisters /\ 3 <= MaxRegisters /\ \A i \in 1..1 : i = 1
  BY PeekPokeAssumption
<1>1. ASSUME NEW w \in Users, Store(w) PROVE AloneInv(u)'
  <2>1. PICK c \in Commands : /\ sysfs_buffer' = Written(1, CommandText(c))
                              /\ asked' = [asked EXCEPT ![w] = c]
    BY <1>1 DEF Store
  <2>2. w = u /\ \A v \in Users \ {u} : pc[v] = "idle"
    BY <1>1 DEF Store
  <2>3. /\ pc' = [pc EXCEPT ![u] = "parse"] /\ got' = [got EXCEPT ![u] = <<>>]
        /\ shown' = [shown EXCEPT ![u] = NotShown]
    BY <1>1, <2>2 DEF Store, Goes
  <2>4. /\ pc'[u] = "parse" /\ got'[u] = <<>> /\ shown'[u] = NotShown /\ asked'[u] = c
        /\ \A v \in Users \ {u} : pc'[v] = "idle"
    BY <1>t, <2>1, <2>2, <2>3 DEF TypeOK
  <2>5. PICK s : s = CommandText(c)
    OBVIOUS
  <2>6. s \in Seq(Texts) /\ Len(s) = 3 /\ \A i \in 1..3 : s[i] # End
    BY <2>5, TextTypes, CommandWords
  <2>7. Holds(s)'
    <3>1. Len(s) <= MaxRegisters /\ sysfs_buffer' = Written(1, s)
      BY <1>m, <2>1, <2>5, <2>6
    <3> QED
      BY <1>t, <2>6, <3>1, HoldsWritten
  <2>8. Holds(CommandText(asked[u]))'
    BY <2>4, <2>5, <2>7 DEF Holds
  <2> QED
    BY <2>4, <2>8 DEF AloneInv
<1>a. ASSUME NEW w \in Users, alone' = alone, pc[w] # "idle"
      PROVE  w = u /\ AloneInv(u)
  BY <1>a DEF AnswerInv, AloneInv
<1>i. ASSUME NEW l, AloneInv(u), pc' = [pc EXCEPT ![u] = l]
      PROVE  pc'[u] = l /\ \A v \in Users \ {u} : pc'[v] = "idle"
  BY <1>t, <1>i DEF AloneInv, TypeOK
<1>2. ASSUME NEW w \in Users, Refuse(w) PROVE AloneInv(u)'
  <2>1. pc[w] = "parse" /\ pc' = [pc EXCEPT ![w] = "idle"] /\ UNCHANGED history
    BY <1>2 DEF Refuse, Goes
  <2>2. w = u /\ AloneInv(u)
    BY <1>a, <2>1 DEF history
  <2>3. PICK c \in Commands : c = asked[u] /\ Holds(CommandText(c))
    BY <2>1, <2>2 DEF AloneInv
  <2>4. /\ IsCommand <=> c[1] \in {"r", "w"}
        /\ Mode = c[1] /\ Parameter = c[3] /\ c[1] \in {"r", "w", "x"}
    BY <1>t, <2>3, Parsed, PeekPokeAssumption
  <2>5. PICK e \in {"format error", "amount error"} :
          /\ sysfs_buffer' = Written(1, <<Word(e)>>)
          /\ e = "format error" => c[1] = "x"
          /\ e = "amount error" => c[1] = "r" /\ ~(c[3] \in 1..MaxRegisters)
    BY <1>2, <2>2, <2>4 DEF Refuse, Fits
  <2>6. PICK s : s = <<Word(e)>>
    OBVIOUS
  <2>7. s \in Seq(Texts) /\ Len(s) = 1 /\ s[1] # End
    <3>1. Word(e) \in Texts /\ Word(e) # End
      BY TextTypes DEF Word, End
    <3> QED
      BY <2>6, <3>1, OneText
  <2>8. Holds(s)'
    <3>1. Len(s) <= MaxRegisters
      BY <1>m, <2>7
    <3>2. \A i \in 1..Len(s) : s[i] # End
      BY <1>m, <2>7
    <3> QED
      BY <1>t, <2>5, <2>6, <2>7, <3>1, <3>2, HoldsWritten
  <2>9. Answers(u, s)'
    BY <2>1, <2>3, <2>5, <2>6 DEF Answers, history
  <2> QED
    BY <1>i, <2>1, <2>2, <2>8, <2>9 DEF AloneInv, history
<1>3. ASSUME NEW w \in Users, ParseWrite(w) PROVE AloneInv(u)'
  <2>1. /\ pc[w] = "parse" /\ pc' = [pc EXCEPT ![w] = "write"] /\ Mode = "w"
        /\ UNCHANGED <<sysfs_buffer, history>>
    BY <1>3 DEF ParseWrite, Goes, buffers
  <2>2. w = u /\ AloneInv(u)
    BY <1>a, <2>1 DEF history
  <2>3. PICK c \in Commands : c = asked[u] /\ Holds(CommandText(c))
    BY <2>1, <2>2 DEF AloneInv
  <2>4. c[1] = "w"
    BY <1>t, <2>1, <2>3, Parsed
  <2>5. Holds(CommandText(c))'
    BY <2>1, <2>3, HoldsKept
  <2>6. Holds(CommandText(asked[u]))'
    BY <2>1, <2>3, <2>5 DEF Holds, history
  <2> QED
    BY <1>i, <2>1, <2>2, <2>3, <2>4, <2>6 DEF AloneInv, history
<1>4. ASSUME NEW w \in Users, ParseRead(w) PROVE AloneInv(u)'
  <2>1. /\ pc[w] = "parse" /\ IsCommand /\ Mode = "r" /\ Fits(Parameter)
        /\ pc' = [pc EXCEPT ![w] = More(Address, EndAddress(Address, Parameter))]
        /\ current_address' = [current_address EXCEPT ![w] = Address]
        /\ end_address' = [end_address EXCEPT ![w] = EndAddress(Address, Parameter)]
        /\ length' = [length EXCEPT ![w] = 0]
        /\ sysfs_buffer' = Written(1, <<>>) /\ UNCHANGED history
    BY <1>4 DEF ParseRead, Goes
  <2>2. w = u /\ AloneInv(u)
    BY <1>a, <2>1 DEF history
  <2>3. PICK c \in Commands : c = asked[u] /\ Holds(CommandText(c))
    BY <2>1, <2>2 DEF AloneInv
  <2>4. Mode = c[1] /\ Address = c[2] /\ Parameter = c[3]
    BY <1>t, <2>3, Parsed
  <2>5. /\ c[1] = "r" /\ c[3] \in 1..MaxRegisters /\ c[2] \in 0..(NumAddresses - 1)
        /\ NumAddresses \in Nat /\ MaxRegisters <= NumAddresses
    BY <2>1, <2>4, PeekPokeAssumption DEF Fits
  <2>6. got[u] = <<>> /\ shown[u] = NotShown
    BY <2>1, <2>2 DEF AloneInv
  <2>7. Holds(<<>>)'
    <3>1. PICK s : s = <<>>
      OBVIOUS
    <3>2. s \in Seq(Texts) /\ Len(s) = 0
      BY <3>1
    <3>3. Len(s) <= MaxRegisters /\ \A i \in 1..Len(s) : s[i] # End
      BY <1>m, <3>2
    <3>4. sysfs_buffer' = Written(1, s)
      BY <2>1, <3>1
    <3>5. Holds(s)'
      BY <1>t, <3>2, <3>3, <3>4, HoldsWritten
    <3> QED
      BY <3>1, <3>5
  <2>8. /\ pc' = [pc EXCEPT ![u] = More(c[2], EndAddress(c[2], c[3]))]
        /\ current_address'[u] = c[2] /\ length'[u] = 0
        /\ end_address'[u] = EndAddress(c[2], c[3])
        /\ asked'[u] = c /\ got'[u] = <<>> /\ shown'[u] = NotShown
    BY <1>t, <2>1, <2>2, <2>3, <2>4, <2>6 DEF TypeOK, history
  <2>9. CASE c[2] + c[3] < NumAddresses
    <3>1. EndAddress(c[2], c[3]) = c[2] + c[3]
      BY <2>5, <2>9 DEF EndAddress
    <3>2. pc' = [pc EXCEPT ![u] = "read"]
      <4>1. c[2] < c[2] + c[3]
        BY <1>t, <2>5
      <4>2. More(c[2], EndAddress(c[2], c[3])) = "read"
        BY <3>1, <4>1 DEF More
      <4> QED
        BY <2>8, <4>2
    <3>3. pc'[u] = "read" /\ \A v \in Users \ {u} : pc'[v] = "idle"
      BY <1>i, <2>2, <3>2
    <3>4. Printed(u, length[u])' = <<>>
      BY <2>8 DEF Printed
    <3>5. Holds(Printed(u, length[u]))'
      BY <2>7, <3>4 DEF Holds
    <3>6. current_address'[u] = c[2] + length'[u] /\ Len(got'[u]) = length'[u] + 0
      BY <2>5, <2>8
    <3>7. Reading(u)'
      BY <2>5, <2>8, <2>9, <3>1, <3>3, <3>5, <3>6 DEF Reading
    <3> QED
      BY <2>3, <2>8, <3>3, <3>7 DEF AloneInv
  <2>10. CASE ~(c[2] + c[3] < NumAddresses)
    <3>1. EndAddress(c[2], c[3]) = c[2] + c[3] - NumAddresses
      <4>1. c[2] + c[3] - NumAddresses \in 0..(NumAddresses - 1)
        BY <1>t, <2>5, <2>10
      <4> QED
        BY <2>5, <2>10, <4>1 DEF EndAddress
    <3>2. ~(c[2] < EndAddress(c[2], c[3]))
      BY <1>t, <2>5, <3>1
    <3>3. pc' = [pc EXCEPT ![u] = "idle"]
      BY <2>8, <3>2 DEF More
    <3>4. pc'[u] = "idle" /\ \A v \in Users \ {u} : pc'[v] = "idle"
      BY <1>i, <2>2, <3>3
    <3>5. <<>> = [i \in DOMAIN got'[u] |-> Number(got'[u][i])] /\ Len(got'[u]) = 0
      BY <2>8
    <3>6. Answers(u, <<>>)'
      BY <2>5, <2>8, <2>10, <3>5 DEF Answers
    <3> QED
      BY <2>3, <2>7, <2>8, <3>4, <3>6 DEF AloneInv
  <2> QED
    BY <2>9, <2>10
<1>5. ASSUME NEW w \in Users, WriteRegister(w) PROVE AloneInv(u)'
  <2>1. /\ pc[w] = "write" /\ pc' = [pc EXCEPT ![w] = "idle"]
        /\ UNCHANGED <<sysfs_buffer, history>>
    BY <1>5 DEF WriteRegister, Goes
  <2>2. w = u /\ AloneInv(u)
    BY <1>a, <2>1 DEF history
  <2>3. PICK c \in Commands : c = asked[u] /\ c[1] = "w" /\ Holds(CommandText(c))
    BY <2>1, <2>2 DEF AloneInv
  <2>4. PICK s : s = CommandText(c)
    OBVIOUS
  <2>5. Holds(s)'
    BY <2>1, <2>3, <2>4, HoldsKept
  <2>6. Answers(u, s)'
    BY <2>1, <2>3, <2>4 DEF Answers, history
  <2> QED
    BY <1>i, <2>1, <2>2, <2>5, <2>6 DEF AloneInv, history
<1>6. ASSUME NEW w \in Users, ReadRegister(w) PROVE AloneInv(u)'
  <2>1. PICK n \in Words : /\ value' = [value EXCEPT ![w] = n]
                           /\ got' = [got EXCEPT ![w] = Append(got[w], n)]
    BY <1>6 DEF ReadRegister
  <2>2. /\ pc[w] = "read" /\ pc' = [pc EXCEPT ![w] = "append"]
        /\ UNCHANGED <<sysfs_buffer, current_address, end_address, length, asked, alone, shown>>
    BY <1>6 DEF ReadRegister, Goes, buffers
  <2>3. w = u /\ AloneInv(u) /\ Reading(u)
    BY <1>a, <2>2 DEF AloneInv
  <2>4. got[u] \in Seq(Words) /\ length[u] \in Nat /\ Len(got[u]) = length[u]
    BY <1>t, <2>2, <2>3 DEF TypeOK, Reading
  <2>5. /\ value'[u] = n /\ got'[u] = Append(got[u], n)
        /\ Len(got'[u]) = length[u] + 1 /\ got'[u][length[u] + 1] = n
        /\ \A i \in 1..length[u] : got'[u][i] = got[u][i]
    BY <1>t, <2>1, <2>3, <2>4, AppendProperties DEF TypeOK
  <2>6. Holds(Printed(u, length[u]))'
    <3>1. PICK s : s = Printed(u, length[u])
      OBVIOUS
    <3>2. Holds(s)'
      BY <2>2, <2>3, <3>1, HoldsKept DEF Reading
    <3>3. Printed(u, length[u])' = s
      BY <2>2, <2>5, <3>1 DEF Printed
    <3> QED
      BY <3>2, <3>3 DEF Holds
  <2>7. pc'[u] = "append" /\ \A v \in Users \ {u} : pc'[v] = "idle"
    BY <1>i, <2>2, <2>3
  <2>8. Reading(u)'
    BY <2>2, <2>3, <2>5, <2>6, <2>7 DEF Reading
  <2> QED
    BY <2>2, <2>3, <2>7, <2>8 DEF AloneInv
<1>7. ASSUME NEW w \in Users, AppendValue(w) PROVE AloneInv(u)'
  <2>1. /\ pc[w] = "append" /\ UNCHANGED <<end_address, value, history>>
        /\ pc' = [pc EXCEPT ![w] = More(current_address[w] + 1, end_address[w])]
        /\ sysfs_buffer' = Written(length[w] + 1, <<Number(value[w])>>)
        /\ length' = [length EXCEPT ![w] = length[w] + 1]
        /\ current_address' = [current_address EXCEPT ![w] = current_address[w] + 1]
    BY <1>7 DEF AppendValue, Goes
  <2>2. w = u /\ AloneInv(u) /\ Reading(u)
    BY <1>a, <2>1 DEF AloneInv, history
  <2>3. PICK c \in Commands : c = asked[u]
    BY <2>2 DEF AloneInv
  <2>4. PICK k \in Nat : k = length[u]
    BY <1>t DEF TypeOK
  <2>5. /\ c[1] = "r" /\ c[3] \in 1..MaxRegisters /\ c[2] + c[3] < NumAddresses
        /\ end_address[u] = c[2] + c[3] /\ current_address[u] = c[2] + k
        /\ Len(got[u]) = k + 1 /\ value[u] = got[u][k + 1] /\ Holds(Printed(u, k))
    BY <2>1, <2>2, <2>3, <2>4 DEF Reading
  <2>6. c[2] \in Nat /\ c[2] + k < c[2] + c[3] /\ k < c[3] /\ k + 1 <= MaxRegisters
    <3>1. c[2] \in Nat
      BY PeekPokeAssumption
    <3>2. c[2] + k < c[2] + c[3]
      BY <1>t, <2>1, <2>2, <2>5 DEF LoopInv
    <3> QED
      BY <1>t, <2>5, <3>1, <3>2
  <2>7. got[u] \in Seq(Words) /\ value[u] = got[u][k + 1]
    BY <1>t, <2>5 DEF TypeOK
  <2>8. PICK s, x : s = Printed(u, k) /\ x = Number(value[u])
    OBVIOUS
  <2>9. s \in Seq(Texts) /\ Len(s) = k /\ \A i \in 1..k : s[i] = Number(got[u][i])
    BY <2>5, <2>7, <2>8, PrintedText
  <2>10. x \in Texts /\ x # End
    BY <1>t, <2>8, TextTypes DEF TypeOK
  <2>11. Holds(Append(s, x))'
    BY <1>t, <2>1, <2>2, <2>4, <2>5, <2>6, <2>8, <2>9, <2>10, HoldsOneMore
  <2>12. Append(s, x) = Printed(u, k + 1)
    <3>1. /\ Printed(u, k + 1) \in Seq(Texts) /\ Len(Printed(u, k + 1)) = k + 1
          /\ \A i \in 1..(k + 1) : Printed(u, k + 1)[i] = Number(got[u][i])
      BY <2>5, <2>7, PrintedText
    <3>2. /\ Append(s, x) \in Seq(Texts) /\ Len(Append(s, x)) = k + 1
          /\ \A i \in 1..k : Append(s, x)[i] = s[i]
          /\ Append(s, x)[k + 1] = x
      BY <2>9, <2>10, AppendProperties
    <3>3. \A i \in 1..(k + 1) : Append(s, x)[i] = Printed(u, k + 1)[i]
      <4> SUFFICES ASSUME NEW i \in 1..(k + 1) PROVE Append(s, x)[i] = Printed(u, k + 1)[i]
        OBVIOUS
      <4>1. CASE i = k + 1
        BY <2>5, <2>8, <3>1, <3>2, <4>1
      <4>2. CASE i # k + 1
        <5>1. i \in 1..k
          BY <4>2
        <5> QED
          BY <2>9, <3>1, <3>2, <5>1
      <4> QED
        BY <4>1, <4>2
    <3> QED
      BY <3>1, <3>2, <3>3, SeqEqual
  <2>13. /\ length'[u] = k + 1 /\ current_address'[u] = c[2] + (k + 1)
         /\ end_address'[u] = c[2] + c[3] /\ asked'[u] = c /\ got'[u] = got[u]
         /\ shown'[u] = NotShown
    <3>1. /\ length'[u] = k + 1 /\ current_address'[u] = (c[2] + k) + 1
      BY <1>t, <2>1, <2>2, <2>4, <2>5 DEF TypeOK
    <3>2. (c[2] + k) + 1 = c[2] + (k + 1)
      BY <2>6
    <3>3. shown[u] = NotShown
      BY <2>1, <2>2 DEF AloneInv
    <3> QED
      BY <2>1, <2>3, <2>5, <3>1, <3>2, <3>3 DEF history
  <2>14. pc' = [pc EXCEPT ![u] = More(c[2] + k + 1, c[2] + c[3])]
    BY <2>1, <2>2, <2>5
  <2>15. CASE k + 1 < c[3]
    <3>1. More(c[2] + k + 1, c[2] + c[3]) = "read"
      BY <2>5, <2>6, <2>15 DEF More
    <3>2. pc'[u] = "read" /\ \A v \in Users \ {u} : pc'[v] = "idle"
      BY <1>i, <2>2, <2>14, <3>1
    <3>3. Printed(u, length[u])' = Append(s, x)
      BY <2>12, <2>13 DEF Printed
    <3>4. Holds(Printed(u, length[u]))'
      BY <2>11, <3>3 DEF Holds
    <3>5. Len(got'[u]) = length'[u] + 0
      BY <2>5, <2>13
    <3>6. Reading(u)'
      BY <2>5, <2>13, <3>2, <3>4, <3>5 DEF Reading
    <3> QED
      BY <2>3, <2>13, <3>2, <3>6 DEF AloneInv
  <2>16. CASE ~(k + 1 < c[3])
    <3>1. k + 1 = c[3]
      BY <2>5, <2>6, <2>16
    <3>2. More(c[2] + k + 1, c[2] + c[3]) = "idle"
      BY <2>5, <2>6, <3>1 DEF More
    <3>3. pc'[u] = "idle" /\ \A v \in Users \ {u} : pc'[v] = "idle"
      BY <1>i, <2>2, <2>14, <3>2
    <3>4. DOMAIN got[u] = 1..(k + 1)
      BY <2>5, <2>7
    <3>5. Append(s, x) = [i \in DOMAIN got'[u] |-> Number(got'[u][i])]
      BY <2>12, <2>13, <3>4 DEF Printed
    <3>6. PICK t : t = Append(s, x)
      OBVIOUS
    <3>7. Answers(u, t)'
      BY <2>5, <2>13, <3>1, <3>5, <3>6 DEF Answers
    <3>8. Holds(t)'
      BY <2>11, <3>6
    <3> QED
      BY <2>3, <2>13, <3>3, <3>7, <3>8 DEF AloneInv
  <2> QED
    BY <2>15, <2>16
<1>8. ASSUME NEW w \in Users, Show(w) PROVE AloneInv(u)'
  <2>1. /\ pc[w] = "idle" /\ shown' = [shown EXCEPT ![w] = Text]
        /\ UNCHANGED <<buffers, pc, locals, asked, got, alone>>
    BY <1>8 DEF Show
  <2>2. AloneInv(u)
    BY <2>1 DEF AnswerInv
  <2>3. \A s : Holds(s) => Holds(s)'
    BY <2>1, HoldsKept DEF buffers
  <2>4. \A s : Answers(u, s) => Answers(u, s)'
    BY <2>1 DEF Answers
  <2>5. Reading(u) => Reading(u)'
    BY <2>1 DEF Reading, Holds, Printed, locals, buffers
  <2>6. Holds(CommandText(asked[u])) => Holds(CommandText(asked[u]))'
    BY <2>1 DEF Holds, buffers
  <2>7. shown'[u] # NotShown => pc'[u] = "idle" /\ Answers(u, shown[u])'
    <3>1. CASE w = u
      <4>1. PICK s : Holds(s) /\ Answers(u, s)
        BY <2>1, <2>2, <3>1 DEF AloneInv
      <4>2. shown'[u] = s
        BY <1>t, <2>1, <3>1, <4>1, HeldText DEF TypeOK
      <4> QED
        BY <2>1, <3>1, <4>1, <4>2 DEF Answers
    <3>2. CASE w # u
      <4>1. shown'[u] = shown[u]
        BY <1>t, <2>1, <3>2 DEF TypeOK
      <4> QED
        BY <2>1, <2>2, <4>1 DEF AloneInv, Answers
    <3> QED
      BY <3>1, <3>2
  <2> QED
    BY <2>1, <2>2, <2>3, <2>4, <2>5, <2>6, <2>7 DEF AloneInv
<1>9. CASE UNCHANGED vars
  <2>1. UNCHANGED <<buffers, pc, locals, asked, got, alone, shown>>
    BY <1>9 DEF vars, history
  <2>2. AloneInv(u)
    BY <2>1 DEF AnswerInv
  <2>3. \A s : Holds(s) => Holds(s)'
    BY <2>1, HoldsKept DEF buffers
  <2>4. \A s : Answers(u, s) => Answers(u, s)'
    BY <2>1 DEF Answers
  <2>5. Reading(u) => Reading(u)'
    BY <2>1 DEF Reading, Holds, Printed, locals, buffers
  <2>6. Holds(CommandText(asked[u])) => Holds(CommandText(asked[u]))'
    BY <2>1 DEF Holds, buffers
  <2>7. Answers(u, shown[u]) => Answers(u, shown[u])'
    BY <2>1 DEF Answers
  <2> QED
    BY <2>1, <2>2, <2>3, <2>4, <2>5, <2>6, <2>7 DEF AloneInv
<1> QED
  BY <1>1, <1>2, <1>3, <1>4, <1>5, <1>6, <1>7, <1>8, <1>9 DEF Next

LEMMA AnswerShown == AnswerInv => AloneAnswered
<1> SUFFICES ASSUME AnswerInv PROVE AloneAnswered
  OBVIOUS
<1>1. ASSUME NEW u \in Users, alone[u], shown[u] # NotShown
      PROVE  asked[u][1] \in {"r", "w", "x"} /\ Answers(u, shown[u])
  BY <1>1, PeekPokeAssumption DEF AnswerInv, AloneInv
<1> QED
  BY <1>1 DEF AloneAnswered, Answers

(* A user who stores and shows with nobody in between is shown what the    *)
(* command asked for, for any command, size of the buffer and number of    *)
(* other users, preempted or not; whatever the answer before it left in    *)
(* the buffer, and to the end of the address space                         *)
(* (KernelModule-1.c:104-159, 171-174, 97-101).                            *)
THEOREM AnsweredAlone == Spec => []AloneAnswered
<1> QED
  BY InitAnswer, AnswerStep, AnswerShown, PTL DEF Spec
=============================================================================
