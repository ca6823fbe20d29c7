---------------------- MODULE ActionPrimitives_proofs ----------------------
(* The fields of a packet's registers do not disturb each other, and what  *)
(* the action primitives of a P4 program may do to its packet.             *)
EXTENDS ActionPrimitives, TLAPS

-----------------------------------------------------------------------------
(* The registers (PacketRegisters). *)

Lane == {v \in Nat : v < Width16}
Word(l0, l1, l2, l3) == l0 + Bits16 * l1 + Bits32 * l2 + Bits48 * l3

(* A value of 16 bits is its own remainder. *)
LEMMA Fits == \A v \in Lane : v % Width16 = v
BY SMT DEF Lane, Width16

LEMMA Cut == \A v \in Nat : v % Width16 \in Lane
BY SMT DEF Lane, Width16

(* A register is made up of its four fields ... *)
LEMMA Divided ==
  ASSUME NEW rv \in Register
  PROVE  /\ \A s \in Shifts : Field(rv, s) \in Lane
         /\ rv = Word(Field(rv, Bits0), Field(rv, Bits16), Field(rv, Bits32), Field(rv, Bits48))
<1>1. rv \in Nat /\ rv \div Bits48 < Width16
  BY DEF Register
<1>2. /\ rv \div Bits0 \in Nat /\ rv \div Bits16 \in Nat
      /\ rv \div Bits32 \in Nat /\ rv \div Bits48 \in Nat
  BY <1>1, SMT DEF Bits0, Bits16, Bits32, Bits48
<1>3. \A s \in Shifts : Field(rv, s) \in Lane
  BY <1>2, Cut DEF Field, Shifts
<1>4. rv = Bits16 * (rv \div Bits16) + Field(rv, Bits0)
  BY <1>1, SMT DEF Field, Bits0, Bits16, Width16
<1>5. rv \div Bits16 = Bits16 * (rv \div Bits32) + Field(rv, Bits16)
  BY <1>1, SMT DEF Field, Bits16, Bits32, Width16
<1>6. rv \div Bits32 = Bits16 * (rv \div Bits48) + Field(rv, Bits32)
  BY <1>1, SMT DEF Field, Bits16, Bits32, Bits48, Width16
<1>7. rv \div Bits48 = Field(rv, Bits48)
  BY <1>1, <1>2, Fits DEF Field, Lane, Width16
<1>8. /\ Field(rv, Bits0) \in Nat /\ Field(rv, Bits16) \in Nat
      /\ Field(rv, Bits32) \in Nat /\ Field(rv, Bits48) \in Nat
  BY <1>3 DEF Shifts, Lane, Width16
<1> QED BY <1>2, <1>3, <1>4, <1>5, <1>6, <1>7, <1>8, SMT DEF Word, Bits16, Bits32, Bits48

(* ... and whatever four fields it is made up of are read back. *)
LEMMA Composed ==
  ASSUME NEW l0 \in Lane, NEW l1 \in Lane, NEW l2 \in Lane, NEW l3 \in Lane
  PROVE  /\ Word(l0, l1, l2, l3) \in Register
         /\ Field(Word(l0, l1, l2, l3), Bits0) = l0
         /\ Field(Word(l0, l1, l2, l3), Bits16) = l1
         /\ Field(Word(l0, l1, l2, l3), Bits32) = l2
         /\ Field(Word(l0, l1, l2, l3), Bits48) = l3
<1> DEFINE w == Word(l0, l1, l2, l3)
<1>1. /\ w \in Nat
      /\ w \div Bits0 = w
      /\ w \div Bits16 = l1 + Bits16 * l2 + Bits32 * l3
      /\ w \div Bits32 = l2 + Bits16 * l3
      /\ w \div Bits48 = l3
  BY SMT DEF Word, Lane, Width16, Bits0, Bits16, Bits32, Bits48
<1>2. w % Width16 = l0
  BY SMT DEF Word, Lane, Width16, Bits16, Bits32, Bits48
<1>3. (l1 + Bits16 * l2 + Bits32 * l3) % Width16 = l1
  BY SMT DEF Lane, Width16, Bits16, Bits32
<1>4. (l2 + Bits16 * l3) % Width16 = l2
  BY SMT DEF Lane, Width16, Bits16
<1>5. l3 < Width16
  BY DEF Lane, Width16
<1> HIDE DEF w
<1>6. w \in Register
  BY <1>1, <1>5 DEF Register
<1>7. l3 % Width16 = l3
  BY Fits
<1> QED BY <1>1, <1>2, <1>3, <1>4, <1>6, <1>7 DEF Field, w

(* Writing a field replaces it and keeps the other fields of the register. *)
LEMMA FieldWritten ==
  ASSUME NEW rv \in Register, NEW shift \in Shifts, NEW value \in Nat
  PROVE  /\ WithField(rv, shift, value) \in Register
         /\ Field(WithField(rv, shift, value), shift) = value % Width16
         /\ \A s \in Shifts \ {shift} :
              Field(WithField(rv, shift, value), s) = Field(rv, s)
<1> DEFINE l0 == Field(rv, Bits0)
           l1 == Field(rv, Bits16)
           l2 == Field(rv, Bits32)
           l3 == Field(rv, Bits48)
           new == value % Width16
<1>1. /\ l0 \in Lane /\ l1 \in Lane /\ l2 \in Lane /\ l3 \in Lane
      /\ rv = Word(l0, l1, l2, l3)
  BY Divided DEF Shifts
<1>2. new \in Lane
  BY Cut
<1>3. \A f \in Lane : f \in Int
  BY SMT DEF Lane, Width16
<1>4. CASE shift = Bits0
  <2>1. WithField(rv, shift, value) = Word(new, l1, l2, l3)
    <3>1. WithField(rv, shift, value) = rv - l0 * Bits0 + new * Bits0
      BY <1>4 DEF WithField
    <3> HIDE DEF new, l0, l1, l2, l3
    <3> QED BY <1>1, <1>2, <1>3, <3>1, SMT DEF Word, Bits0, Bits16, Bits32, Bits48
  <2> HIDE DEF new
  <2>2. /\ Word(new, l1, l2, l3) \in Register
        /\ Field(Word(new, l1, l2, l3), Bits0) = new
        /\ Field(Word(new, l1, l2, l3), Bits16) = l1
        /\ Field(Word(new, l1, l2, l3), Bits32) = l2
        /\ Field(Word(new, l1, l2, l3), Bits48) = l3
    BY <1>1, <1>2, Composed
  <2> QED BY <1>4, <2>1, <2>2 DEF Shifts, new
<1>5. CASE shift = Bits16
  <2>1. WithField(rv, shift, value) = Word(l0, new, l2, l3)
    <3>1. WithField(rv, shift, value) = rv - l1 * Bits16 + new * Bits16
      BY <1>5 DEF WithField
    <3> HIDE DEF new, l0, l1, l2, l3
    <3> QED BY <1>1, <1>2, <1>3, <3>1, SMT DEF Word, Bits0, Bits16, Bits32, Bits48
  <2> HIDE DEF new
  <2>2. /\ Word(l0, new, l2, l3) \in Register
        /\ Field(Word(l0, new, l2, l3), Bits0) = l0
        /\ Field(Word(l0, new, l2, l3), Bits16) = new
        /\ Field(Word(l0, new, l2, l3), Bits32) = l2
        /\ Field(Word(l0, new, l2, l3), Bits48) = l3
    BY <1>1, <1>2, Composed
  <2> QED BY <1>5, <2>1, <2>2 DEF Shifts, new
<1>6. CASE shift = Bits32
  <2>1. WithField(rv, shift, value) = Word(l0, l1, new, l3)
    <3>1. WithField(rv, shift, value) = rv - l2 * Bits32 + new * Bits32
      BY <1>6 DEF WithField
    <3> HIDE DEF new, l0, l1, l2, l3
    <3> QED BY <1>1, <1>2, <1>3, <3>1, SMT DEF Word, Bits0, Bits16, Bits32, Bits48
  <2> HIDE DEF new
  <2>2. /\ Word(l0, l1, new, l3) \in Register
        /\ Field(Word(l0, l1, new, l3), Bits0) = l0
        /\ Field(Word(l0, l1, new, l3), Bits16) = l1
        /\ Field(Word(l0, l1, new, l3), Bits32) = new
        /\ Field(Word(l0, l1, new, l3), Bits48) = l3
    BY <1>1, <1>2, Composed
  <2> QED BY <1>6, <2>1, <2>2 DEF Shifts, new
<1>7. CASE shift = Bits48
  <2>1. WithField(rv, shift, value) = Word(l0, l1, l2, new)
    <3>1. WithField(rv, shift, value) = rv - l3 * Bits48 + new * Bits48
      BY <1>7 DEF WithField
    <3> HIDE DEF new, l0, l1, l2, l3
    <3> QED BY <1>1, <1>2, <1>3, <3>1, SMT DEF Word, Bits0, Bits16, Bits32, Bits48
  <2> HIDE DEF new
  <2>2. /\ Word(l0, l1, l2, new) \in Register
        /\ Field(Word(l0, l1, l2, new), Bits0) = l0
        /\ Field(Word(l0, l1, l2, new), Bits16) = l1
        /\ Field(Word(l0, l1, l2, new), Bits32) = l2
        /\ Field(Word(l0, l1, l2, new), Bits48) = new
    BY <1>1, <1>2, Composed
  <2> QED BY <1>7, <2>1, <2>2 DEF Shifts, new
<1> QED BY <1>4, <1>5, <1>6, <1>7 DEF Shifts

(* A setter of RegisterAccess changes the field it names, to the 16 low    *)
(* bits of its argument, and no other field of any register.               *)
THEOREM SettersIndependent ==
  ASSUME NEW regs \in Registers, NEW index \in 1 .. 2, NEW shift \in Shifts,
         NEW value \in Nat
  PROVE  /\ Set(regs, index, shift, value) \in Registers
         /\ Get(Set(regs, index, shift, value), index, shift) = value % Width16
         /\ \A i \in 0 .. 2, s \in Shifts :
              (i # index \/ s # shift) =>
                Get(Set(regs, index, shift, value), i, s) = Get(regs, i, s)
<1> DEFINE rv == regs[index]
           new == WithField(rv, shift, value)
           after == [regs EXCEPT ![index] = new]
<1>1. rv \in Register /\ new \in Register
  BY FieldWritten DEF Registers
<1>2. Field(new, shift) = value % Width16
  BY <1>1, FieldWritten
<1>3. \A s \in Shifts \ {shift} : Field(new, s) = Field(rv, s)
  BY <1>1, FieldWritten
<1>4. Set(regs, index, shift, value) = after
  BY DEF Set
<1> HIDE DEF new
<1>5. after \in Registers /\ after[index] = new
  BY <1>1 DEF Registers
<1>6. \A i \in 0 .. 2 : i # index => after[i] = regs[i]
  BY DEF Registers
<1> HIDE DEF after
<1>7. Get(after, index, shift) = value % Width16
  BY <1>2, <1>5 DEF Get
<1>8. ASSUME NEW i \in 0 .. 2, NEW s \in Shifts, i # index \/ s # shift
      PROVE  Get(after, i, s) = Get(regs, i, s)
  <2>1. CASE i = index
    BY <1>3, <1>5, <1>8, <2>1 DEF Get
  <2>2. CASE i # index
    BY <1>6, <2>2 DEF Get
  <2> QED BY <2>1, <2>2
<1> QED BY <1>4, <1>5, <1>7, <1>8

(* clear_all leaves no field: neither a request of the pipeline nor the    *)
(* ns-3 protocol and address.                                              *)
THEOREM ClearAllClears ==
  ASSUME NEW regs \in Registers
  PROVE  /\ clear_all(regs) \in Registers
         /\ clear_all(regs)[0] = regs[0]
         /\ \A i \in 1 .. 2, s \in Shifts : Get(clear_all(regs), i, s) = 0
<1>1. 0 \in Register
  BY SMT DEF Register, Width16, Bits48
<1>2. /\ clear_all(regs) \in Registers
      /\ clear_all(regs)[0] = regs[0]
      /\ clear_all(regs)[1] = 0
      /\ clear_all(regs)[2] = 0
  BY <1>1 DEF clear_all, Registers
<1>3. \A s \in Shifts : Field(0, s) = 0
  BY SMT DEF Field, Shifts, Width16, Bits0, Bits16, Bits32, Bits48
<1>4. ASSUME NEW i \in 1 .. 2, NEW s \in Shifts
      PROVE  Get(clear_all(regs), i, s) = 0
  BY <1>2, <1>3, i = 1 \/ i = 2 DEF Get
<1> QED BY <1>2, <1>4

(* When the pipeline starts, the core reads back the protocol and, as long *)
(* as it fits, the address index of the packet it received, and no request *)
(* of an earlier packet.                                                   *)
THEOREM ReceivedRetrieved ==
  ASSUME NEW regs \in Registers, NEW length \in Register,
         NEW protocol \in Lane, NEW addr_index \in Nat
  PROVE  LET after == Received(regs, length, protocol, addr_index)
         IN /\ after \in Registers
            /\ get_ns_protocol(after) = protocol
            /\ get_ns_address(after) = addr_index % Width16
            /\ \A s \in Shifts : Get(after, 1, s) = 0
            /\ get_recirculate_flag(after) = 0
<1> DEFINE zero == [clear_all(regs) EXCEPT ![0] = length]
           one == set_ns_protocol(zero, protocol)
           after == set_ns_address(one, addr_index)
<1>1. /\ zero \in Registers
      /\ \A i \in 1 .. 2, s \in Shifts : Get(zero, i, s) = 0
  <2>1. zero \in Registers /\ zero[1] = clear_all(regs)[1] /\ zero[2] = clear_all(regs)[2]
    BY ClearAllClears DEF Registers
  <2>2. ASSUME NEW i \in 1 .. 2, NEW s \in Shifts
        PROVE  Get(zero, i, s) = 0
    <3>1. Get(zero, i, s) = Get(clear_all(regs), i, s)
      BY <2>1, i = 1 \/ i = 2 DEF Get
    <3> QED BY <3>1, ClearAllClears
  <2> QED BY <2>1, <2>2
<1> HIDE DEF zero
<1>2. /\ one \in Registers
      /\ Get(one, 2, Bits16) = protocol % Width16
      /\ \A i \in 0 .. 2, s \in Shifts : (i # 2 \/ s # Bits16) => Get(one, i, s) = Get(zero, i, s)
  <2>1. protocol \in Nat /\ Bits16 \in Shifts /\ 2 \in 1 .. 2
    BY DEF Shifts, Lane

  <2> QED BY <1>1, <2>1, SettersIndependent DEF set_ns_protocol
<1> HIDE DEF one
<1>3. /\ after \in Registers
      /\ Get(after, 2, Bits32) = addr_index % Width16
      /\ \A i \in 0 .. 2, s \in Shifts : (i # 2 \/ s # Bits32) => Get(after, i, s) = Get(one, i, s)
  <2>1. Bits32 \in Shifts /\ 2 \in 1 .. 2
    BY DEF Shifts
  <2> QED BY <1>2, <2>1, SettersIndependent DEF set_ns_address
<1>4. Received(regs, length, protocol, addr_index) = after
  BY DEF Received, zero, one
<1> HIDE DEF after
<1>5. /\ Bits0 \in Shifts /\ Bits16 \in Shifts
      /\ Bits0 # Bits16 /\ Bits0 # Bits32 /\ Bits16 # Bits32
      /\ protocol % Width16 = protocol
  <2>1. Bits0 \in Shifts /\ Bits16 \in Shifts
    BY DEF Shifts
  <2>2. Bits0 # Bits16 /\ Bits0 # Bits32 /\ Bits16 # Bits32
    BY DEF Bits0, Bits16, Bits32
  <2>3. protocol % Width16 = protocol
    BY Fits DEF Lane
  <2> QED BY <2>1, <2>2, <2>3
<1>6. get_ns_protocol(after) = protocol
  BY <1>2, <1>3, <1>5 DEF get_ns_protocol
<1>7. get_recirculate_flag(after) = 0
  BY <1>1, <1>2, <1>3, <1>5 DEF get_recirculate_flag
<1>8. \A s \in Shifts : Get(after, 1, s) = 0
  BY <1>1, <1>2, <1>3
<1>9. get_ns_address(after) = addr_index % Width16
  BY <1>3 DEF get_ns_address
<1> QED BY <1>3, <1>4, <1>6, <1>7, <1>8, <1>9

-----------------------------------------------------------------------------
(* The primitives. *)

(* A remainder is less than what divides. *)
LEMMA Remainder == \A v \in Int, m \in Nat \ {0} : v % m \in Nat /\ v % m < m
BY SMT

LEMMA Modulus64 == Width16 * Bits48 \in Nat \ {0}
<1>1. Width16 \in Nat \ {0}
  BY SMT DEF Width16
<1>2. Bits48 \in Nat \ {0}
  BY SMT DEF Bits48
<1>3. \A a, b \in Nat \ {0} : a * b \in Nat \ {0}
  BY SMT
<1> QED BY <1>1, <1>2, <1>3

LEMMA Division ==
  ASSUME NEW y \in Int, NEW m \in Nat, m > 0
  PROVE  y = m * (y \div m) + (y % m)
BY SMT

LEMMA Quotient ==
  ASSUME NEW y \in Int, NEW m \in Nat, m > 0
  PROVE  y \div m \in Int /\ y % m \in Nat /\ y % m < m
BY SMT

(* Multiples of the divisor do not change a remainder. *)
LEMMA Multiples ==
  ASSUME NEW m \in Nat, m > 0, NEW x \in Nat, x < m, NEW q \in Int
  PROVE  (x - m * q) % m = x
<1> DEFINE y == x - m * q
           p == y \div m
           r == y % m
<1>1. y \in Int
  BY SMT
<1> HIDE DEF y
<1>2. y = m * p + r
  BY <1>1, Division
<1>3. p \in Int /\ r \in Nat /\ r < m
  BY <1>1, Quotient
<1> HIDE DEF p, r
<1>4. x - r = m * (p + q)
  BY <1>2, <1>3, SMT DEF y
<1>5. p + q < 1
  BY <1>3, <1>4, SMT
<1>6. p + q > -1
  BY <1>3, <1>4, SMT
<1>7. p + q = 0
  BY <1>3, <1>5, <1>6, SMT
<1>8. r = x
  BY <1>3, <1>4, <1>7, SMT
<1> QED BY <1>8 DEF r, y

(* A 64-bit result is a register. *)
LEMMA CutIsRegister == \A v \in Int : Cut64(v) \in Register
<1> SUFFICES ASSUME NEW v \in Int PROVE Cut64(v) \in Register
  OBVIOUS
<1>1. Cut64(v) \in Nat /\ Cut64(v) < Width16 * Bits48
  BY Remainder, Modulus64 DEF Cut64
<1>2. Cut64(v) \div Bits48 < Width16
  BY <1>1, SMT DEF Width16, Bits48
<1> QED BY <1>1, <1>2 DEF Register

(* Changing the length leaves the other registers alone. *)
LEMMA LengthIsRegister0 ==
  ASSUME NEW regs \in Registers, NEW bytes \in Nat
  PROVE  /\ Lengthened(regs, bytes) \in Registers
         /\ Shortened(regs, bytes) \in Registers
         /\ Lengthened(regs, bytes)[1] = regs[1] /\ Lengthened(regs, bytes)[2] = regs[2]
         /\ Shortened(regs, bytes)[1] = regs[1] /\ Shortened(regs, bytes)[2] = regs[2]
<1>1. regs[0] \in Nat
  BY DEF Registers, Register
<1>2. regs[0] + bytes \in Int /\ regs[0] - bytes \in Int
  BY <1>1, SMT
<1>3. Cut64(regs[0] + bytes) \in Register /\ Cut64(regs[0] - bytes) \in Register
  BY <1>2, CutIsRegister
<1> QED BY <1>3 DEF Registers, Lengthened, Shortened

(* What is assigned is cut to the width of the field. *)
LEMMA CutToWidth ==
  ASSUME Layout, NEW f \in Fields, NEW v \in Int,
         field \in [Fields -> Nat], \A g \in Fields : field[g] < Modulus[g]
  PROVE  /\ Assigned(field, f, v) \in [Fields -> Nat]
         /\ \A g \in Fields : Assigned(field, f, v)[g] < Modulus[g]
<1>1. Modulus[f] \in Nat /\ Modulus[f] > 0
  BY SMT DEF Layout
<1>2. v % Modulus[f] \in Nat /\ v % Modulus[f] < Modulus[f]
  BY <1>1, SMT
<1> QED BY <1>2 DEF Assigned

(* A primitive that assigns one value to one field ... *)
LEMMA PutType ==
  ASSUME Layout, TypeOK, NEW f, NEW v \in Int, Put(f, v)
  PROVE  TypeOK' /\ registers' = registers
<1>1. f \in Fields /\ field' = Assigned(field, f, v)
  BY DEF Put
<1>2. field' \in [Fields -> Nat] /\ \A g \in Fields : field'[g] < Modulus[g]
  BY <1>1, CutToWidth DEF TypeOK
<1> QED BY <1>2 DEF Put, TypeOK, packet, arrays

(* ... and one that crashes instead when there is no such field. *)
LEMMA PutOrCrashType ==
  ASSUME Layout, TypeOK, NEW f, NEW v \in Int, PutOrCrash(f, v)
  PROVE  TypeOK' /\ registers' = registers
<1>1. CASE Put(f, v)
  BY <1>1, PutType
<1>2. CASE ~Put(f, v)
  BY <1>2 DEF PutOrCrash, TypeOK, arrays
<1> QED BY <1>1, <1>2

LEMMA PutIfPresentType ==
  ASSUME Layout, TypeOK, NEW f, NEW v \in Int, PutIfPresent(f, v)
  PROVE  TypeOK' /\ registers' = registers
<1>1. CASE Put(f, v)
  BY <1>1, PutType
<1>2. CASE UNCHANGED vars
  BY <1>2 DEF TypeOK, vars
<1> QED BY <1>1, <1>2 DEF PutIfPresent

(* Every primitive that computes a field puts some integer into it. *)
LEMMA FieldStepPuts ==
  ASSUME Layout, TypeOK, FieldStep
  PROVE  \/ \E f \in Fields, v \in Int : Put(f, v)
         \/ /\ status' = "crashed"
            /\ UNCHANGED <<registers, field, valid, exit, truncated, arrays>>
<1>1. PICK f \in Fields, a \in Nat, b \in Nat :
        \/ modify_field(f, a) \/ modify_field_rng_uniform(f, a, b)
        \/ add_to_field(f, a) \/ subtract_from_field(f, a)
        \/ add(f, a, b) \/ subtract(f, a, b)
        \/ shift_left(f, a, b) \/ (b # 0 /\ shift_right(f, a, b))
        \/ bit_and(f, a, b) \/ bit_or(f, a, b) \/ bit_xor(f, a, b)
        \/ modify_field_with_hash_based_offset(f, a, b)
        \/ execute_meter(f) \/ (\E idx \in Cells : register_read(f, idx))
  BY DEF FieldStep
<1>2. field[f] \in Nat
  BY DEF TypeOK
<1>3. /\ field[f] + a \in Int /\ field[f] - a \in Int
      /\ a + b \in Int /\ a - b \in Int /\ a * b \in Int /\ a \in Int
  BY <1>2, SMT
<1>4. b # 0 => a \div b \in Int
  BY SMT
<1>5. CASE modify_field(f, a) \/ add_to_field(f, a) \/ subtract_from_field(f, a)
           \/ add(f, a, b) \/ subtract(f, a, b) \/ shift_left(f, a, b)
  BY <1>3, <1>5
     DEF modify_field, add_to_field, subtract_from_field, add, subtract, shift_left
<1>6. CASE b # 0 /\ shift_right(f, a, b)
  BY <1>4, <1>6 DEF shift_right
<1>7. CASE modify_field_rng_uniform(f, a, b) \/ bit_and(f, a, b)
           \/ bit_or(f, a, b) \/ bit_xor(f, a, b)
  BY <1>7, SMT DEF modify_field_rng_uniform, bit_and, bit_or, bit_xor
<1>8. CASE modify_field_with_hash_based_offset(f, a, b)
  <2>1. CASE b = 0
    BY <1>8, <2>1 DEF modify_field_with_hash_based_offset
  <2>2. CASE b # 0
    <3>1. PICK v \in 0 .. b - 1 : Put(f, Cut64(v + a))
      BY <1>8, <2>2 DEF modify_field_with_hash_based_offset
    <3>2. Cut64(v + a) \in Int
      <4>1. v + a \in Int
        BY SMT
      <4> QED BY <4>1, CutIsRegister DEF Register
    <3> QED BY <3>1, <3>2
  <2> QED BY <2>1, <2>2
<1>9. CASE execute_meter(f)
  BY <1>9, SMT DEF execute_meter
<1>10. CASE \E idx \in Cells : register_read(f, idx)
  <2>1. PICK idx \in Cells : register_read(f, idx)
    BY <1>10
  <2>2. cell[idx] \in Int
    BY SMT DEF TypeOK
  <2> QED BY <2>1, <2>2 DEF register_read
<1> QED BY <1>1, <1>5, <1>6, <1>7, <1>8, <1>9, <1>10

LEMMA FieldStepType ==
  ASSUME Layout, TypeOK, FieldStep
  PROVE  TypeOK' /\ registers' = registers
<1>1. CASE \E f \in Fields, v \in Int : Put(f, v)
  BY <1>1, PutType
<1>2. CASE /\ status' = "crashed"
           /\ UNCHANGED <<registers, field, valid, exit, truncated, arrays>>
  BY <1>2 DEF TypeOK, arrays
<1> QED BY <1>1, <1>2, FieldStepPuts

LEMMA DropType ==
  ASSUME Layout, TypeOK, drop
  PROVE  TypeOK' /\ registers' = registers
<1>1. CASE "egress_spec" \notin Fields
  BY <1>1 DEF drop, TypeOK, arrays
<1>2. CASE "egress_spec" \in Fields
  <2> DEFINE dropped == Assigned(field, "egress_spec", 511)
  <2>1. /\ dropped \in [Fields -> Nat]
        /\ \A g \in Fields : dropped[g] < Modulus[g]
    BY <1>2, CutToWidth DEF TypeOK
  <2>2. "mcast_grp" \in Fields =>
          Modulus["mcast_grp"] \in Nat /\ Modulus["mcast_grp"] > 0
    BY SMT DEF Layout
  <2>3. "mcast_grp" \in Fields =>
          0 % Modulus["mcast_grp"] \in Nat /\ 0 % Modulus["mcast_grp"] < Modulus["mcast_grp"]
    BY <2>2, SMT
  <2>4. "mcast_grp" \in Fields =>
          /\ Assigned(dropped, "mcast_grp", 0) \in [Fields -> Nat]
          /\ \A g \in Fields : Assigned(dropped, "mcast_grp", 0)[g] < Modulus[g]
    <3> HIDE DEF dropped
    <3> QED BY <2>1, <2>3 DEF Assigned
  <2>5. /\ field' = IF "mcast_grp" \in Fields
                    THEN Assigned(dropped, "mcast_grp", 0) ELSE dropped
        /\ UNCHANGED <<status, packet, arrays>>
    BY <1>2 DEF drop
  <2> HIDE DEF dropped
  <2>6. field' \in [Fields -> Nat] /\ \A g \in Fields : field'[g] < Modulus[g]
    BY <2>1, <2>4, <2>5
  <2> QED BY <2>5, <2>6 DEF TypeOK, packet, arrays
<1> QED BY <1>1, <1>2

LEMMA RequestStepType ==
  ASSUME Layout, TypeOK, RequestStep
  PROVE  TypeOK' /\ registers' = registers
<1>1. CASE drop
  BY <1>1, DropType
<1>2. CASE exit_ \/ no_op
  BY <1>2 DEF exit_, no_op, TypeOK, vars, arrays
<1>3. CASE \E a, b \in Nat :
             \/ generate_digest(a) \/ resubmit(a) \/ recirculate(a) \/ truncate_(a)
             \/ clone_ingress_pkt_to_egress(a, b) \/ clone_egress_pkt_to_egress(a, b)
  <2>1. PICK a \in Nat, b \in Nat :
             \/ generate_digest(a) \/ resubmit(a) \/ recirculate(a) \/ truncate_(a)
             \/ clone_ingress_pkt_to_egress(a, b) \/ clone_egress_pkt_to_egress(a, b)
    BY <1>3
  <2>2. a \in Int /\ CloneSpec(a, b) \in Int
    BY SMT DEF CloneSpec, Bits16
  <2>3. CASE generate_digest(a) \/ clone_ingress_pkt_to_egress(a, b)
             \/ clone_egress_pkt_to_egress(a, b)
    BY <2>2, <2>3, PutOrCrashType
       DEF generate_digest, clone_ingress_pkt_to_egress, clone_egress_pkt_to_egress
  <2>4. CASE resubmit(a) \/ recirculate(a)
    BY <2>2, <2>4, PutIfPresentType DEF resubmit, recirculate
  <2>5. CASE truncate_(a)
    BY <2>5 DEF truncate_, TypeOK, arrays
  <2> QED BY <2>1, <2>3, <2>4, <2>5
<1> QED BY <1>1, <1>2, <1>3 DEF RequestStep

(* The primitives on headers change register 0 at most, and with it the    *)
(* set of valid headers.                                                   *)
LEMMA HeaderStepType ==
  ASSUME Layout, TypeOK, HeaderStep
  PROVE  TypeOK' /\ RequestsUntouched /\ LengthFollowsHeaders
<1>1. PICK hdr \in Headers, src \in Headers :
        \/ add_header(hdr) \/ add_header_fast(hdr) \/ remove_header(hdr)
        \/ copy_header(hdr, src)
  BY DEF HeaderStep
<1>2. Size[hdr] \in Nat
  BY DEF Layout
<1>3. registers \in Registers
  BY DEF TypeOK
<1>4. CASE UNCHANGED vars
  BY <1>4 DEF TypeOK, RequestsUntouched, LengthFollowsHeaders, vars
<1>5. CASE add_header(hdr) /\ hdr \notin valid
  <2>1. registers' = Lengthened(registers, Size[hdr]) /\ valid' = valid \cup {hdr}
    BY <1>5 DEF add_header
  <2>2. registers' \in Registers /\ registers'[1] = registers[1] /\ registers'[2] = registers[2]
    BY <1>2, <1>3, <2>1, LengthIsRegister0
  <2>3. TypeOK'
    BY <1>5, <2>1, <2>2 DEF add_header, Rewritten, TypeOK, arrays
  <2> QED BY <1>5, <2>1, <2>2, <2>3 DEF RequestsUntouched, LengthFollowsHeaders
<1>6. CASE remove_header(hdr) /\ hdr \in valid
  <2>1. registers' = Shortened(registers, Size[hdr]) /\ valid' = valid \ {hdr}
    BY <1>6 DEF remove_header
  <2>2. registers' \in Registers /\ registers'[1] = registers[1] /\ registers'[2] = registers[2]
    BY <1>2, <1>3, <2>1, LengthIsRegister0
  <2>3. TypeOK'
    BY <1>6, <2>1, <2>2 DEF remove_header, TypeOK, arrays
  <2> QED BY <1>6, <2>1, <2>2, <2>3 DEF RequestsUntouched, LengthFollowsHeaders
<1>7. CASE add_header_fast(hdr)
  BY <1>7 DEF add_header_fast, TypeOK, RequestsUntouched, LengthFollowsHeaders, arrays
<1>8. CASE copy_header(hdr, src)
  BY <1>8 DEF copy_header, Rewritten, TypeOK, RequestsUntouched, LengthFollowsHeaders, arrays
<1>9. add_header(hdr) => hdr \notin valid \/ UNCHANGED vars
  BY DEF add_header
<1>10. remove_header(hdr) => hdr \in valid \/ UNCHANGED vars
  BY DEF remove_header
<1> QED BY <1>1, <1>4, <1>5, <1>6, <1>7, <1>8, <1>9, <1>10

LEMMA ArrayStepType ==
  ASSUME Layout, TypeOK, ArrayStep
  PROVE  TypeOK' /\ registers' = registers
<1>1. CASE \E idx \in Counters : count(idx)
  <2>1. PICK idx \in Counters : count(idx)
    BY <1>1
  <2>2. counter[idx] + 1 \in Nat
    BY SMT DEF TypeOK
  <2> QED BY <2>1, <2>2 DEF count, TypeOK, packet
<1>2. CASE \E idx \in Cells, v \in Nat : register_write(idx, v)
  <2>1. PICK idx \in Cells, v \in Nat : register_write(idx, v)
    BY <1>2
  <2>2. CellModulus[idx] \in Nat /\ CellModulus[idx] > 0
    BY SMT DEF Layout
  <2>3. v % CellModulus[idx] \in Nat /\ v % CellModulus[idx] < CellModulus[idx]
    BY <2>2, SMT
  <2> QED BY <2>1, <2>3 DEF register_write, TypeOK, packet
<1> QED BY <1>1, <1>2 DEF ArrayStep

LEMMA StepType ==
  ASSUME Layout, TypeOK, [Next]_vars
  PROVE  TypeOK' /\ RequestsUntouched /\ LengthFollowsHeaders
<1>1. CASE UNCHANGED vars
  BY <1>1 DEF TypeOK, RequestsUntouched, LengthFollowsHeaders, vars
<1>2. CASE FieldStep \/ RequestStep \/ ArrayStep
  BY <1>2, FieldStepType, RequestStepType, ArrayStepType
     DEF RequestsUntouched, LengthFollowsHeaders
<1>3. CASE HeaderStep
  BY <1>3, HeaderStepType
<1> QED BY <1>1, <1>2, <1>3 DEF Next

(* Fields and array cells keep their widths and registers their 64 bits    *)
(* under every sequence of primitives.                                     *)
THEOREM PrimitivesTyped == ASSUME Layout PROVE Spec => []TypeOK
<1>1. Init => TypeOK
  BY DEF Init, TypeOK
<1>2. TypeOK /\ [Next]_vars => TypeOK'
  BY StepType
<1> QED BY <1>1, <1>2, PTL DEF Spec

(* No primitive reaches the registers that carry requests to the core and  *)
(* ns-3's protocol and address: a program that clones, resubmits,          *)
(* recirculates or learns through them asks in vain.                       *)
THEOREM PrimitivesKeepRequests == ASSUME Layout PROVE Spec => [][RequestsUntouched]_vars
<1>1. Init => TypeOK
  BY DEF Init, TypeOK
<1>2. TypeOK /\ [Next]_vars => TypeOK'
  BY StepType
<1>3. TypeOK /\ [Next]_vars => [RequestsUntouched]_vars
  BY StepType
<1> QED BY <1>1, <1>2, <1>3, PTL DEF Spec

(* The length in register 0 changes only with the set of valid headers.    *)
THEOREM LengthOnlyWithHeaders == ASSUME Layout PROVE Spec => [][LengthFollowsHeaders]_vars
<1>1. Init => TypeOK
  BY DEF Init, TypeOK
<1>2. TypeOK /\ [Next]_vars => TypeOK'
  BY StepType
<1>3. TypeOK /\ [Next]_vars => [LengthFollowsHeaders]_vars
  BY StepType
<1> QED BY <1>1, <1>2, <1>3, PTL DEF Spec

(* A header that add_header added and remove_header removes again leaves   *)
(* the length as it was, whether or not the sum exceeded 64 bits.          *)
THEOREM LengthRestored ==
  ASSUME NEW regs \in Registers, NEW bytes \in Nat
  PROVE  Shortened(Lengthened(regs, bytes), bytes) = regs
<1> DEFINE M == Width16 * Bits48
<1>1. regs[0] \in Nat /\ regs[0] \div Bits48 < Width16
  BY DEF Registers, Register
<1>2. regs[0] < M
  <2>1. Bits48 \in Nat \ {0} /\ Width16 \in Nat
    BY SMT DEF Bits48, Width16
  <2>2. \A x, w \in Nat, b \in Nat \ {0} : x \div b < w => x < w * b
    BY SMT
  <2> QED BY <1>1, <2>1, <2>2
<1> DEFINE q == (regs[0] + bytes) \div M
<1>3. M \in Nat /\ M > 0
  BY Modulus64, SMT
<1> HIDE DEF M
<1>4. /\ q \in Int
      /\ (regs[0] + bytes) % M = (regs[0] + bytes) - M * q
  <2>1. regs[0] + bytes \in Int
    BY <1>1, SMT
  <2>2. q \in Int /\ (regs[0] + bytes) % M \in Nat
    BY <1>3, <2>1, Quotient
  <2>3. regs[0] + bytes = M * q + ((regs[0] + bytes) % M)
    BY <1>3, <2>1, Division
  <2> QED BY <1>3, <2>1, <2>2, <2>3, SMT
<1> HIDE DEF q
<1>5. ((regs[0] + bytes) % M) - bytes = regs[0] - M * q
  BY <1>1, <1>3, <1>4, SMT
<1>6. (regs[0] - M * q) % M = regs[0]
  BY <1>1, <1>2, <1>3, <1>4, Multiples
<1>7. Cut64(Cut64(regs[0] + bytes) - bytes) = regs[0]
  BY <1>5, <1>6 DEF Cut64, M
<1> QED BY <1>7 DEF Lengthened, Shortened, Registers

(* The mirror id and the field list that the two clone primitives pack     *)
(* into clone_spec can be told apart again if the id has 16 bits.          *)
THEOREM CloneSpecUnpacked ==
  ASSUME NEW clone_spec \in Nat, clone_spec < Width16, NEW field_list_id \in Nat
  PROVE  /\ CloneSpec(clone_spec, field_list_id) % Bits16 = clone_spec
         /\ CloneSpec(clone_spec, field_list_id) \div Bits16 = field_list_id
BY SMT DEF CloneSpec, Width16, Bits16
=============================================================================
