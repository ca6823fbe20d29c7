-------------------------- MODULE PacketRegisters --------------------------
(***************************************************************************)
(* The 64-bit registers of a packet, as RegisterAccess                     *)
(* (utils/register-access-v1model.h) divides them: register 0 is the       *)
(* length of the packet, registers 1 and 2 hold fields of 16 bits, each    *)
(* with a mask and a shift.                                                *)
(*                                                                         *)
(* A register is a number below 2^64, a shift is the power of two it       *)
(* multiplies by.  Since a mask covers exactly the 16 bits above its       *)
(* shift, masking and shifting are remainders and quotients, and an `or'   *)
(* into bits that were cleared is a sum.                                   *)
(***************************************************************************)
EXTENDS Integers

Width16 == 65536                  \* 2^16
Bits0 == 1                        \* <<  0
Bits16 == 65536                   \* << 16
Bits32 == 4294967296              \* << 32
Bits48 == 281474976710656         \* << 48
Shifts == {Bits0, Bits16, Bits32, Bits48}
Register == {rv \in Nat : rv \div Bits48 < Width16}
Registers == [0 .. 2 -> Register]

(* (rv & mask) >> shift *)
Field(rv, shift) == (rv \div shift) % Width16

(* (rv & ~mask) | (uint64(value) << shift), of a uint16_t value *)
WithField(rv, shift, value) ==
  rv - Field(rv, shift) * shift + (value % Width16) * shift

Get(regs, index, shift) == Field(regs[index], shift)
Set(regs, index, shift, value) == [regs EXCEPT ![index] = WithField(@, shift, value)]

(* The length of the packet stays. *)
clear_all(regs) == [regs EXCEPT ![1] = 0, ![2] = 0]

get_clone_mirror_session_id(regs) == Get(regs, 1, Bits0)
set_clone_mirror_session_id(regs, mirror_session_id) == Set(regs, 1, Bits0, mirror_session_id)
get_clone_field_list(regs) == Get(regs, 1, Bits16)
set_clone_field_list(regs, field_list_id) == Set(regs, 1, Bits16, field_list_id)
get_lf_field_list(regs) == Get(regs, 1, Bits32)
set_lf_field_list(regs, field_list_id) == Set(regs, 1, Bits32, field_list_id)
get_resubmit_flag(regs) == Get(regs, 1, Bits48)
set_resubmit_flag(regs, field_list_id) == Set(regs, 1, Bits48, field_list_id)

get_recirculate_flag(regs) == Get(regs, 2, Bits0)
set_recirculate_flag(regs, field_list_id) == Set(regs, 2, Bits0, field_list_id)
get_ns_protocol(regs) == Get(regs, 2, Bits16)
set_ns_protocol(regs, protocol) == Set(regs, 2, Bits16, protocol)
get_ns_address(regs) == Get(regs, 2, Bits32)
set_ns_address(regs, addr_index) == Set(regs, 2, Bits32, addr_index)

(* What ReceivePacket writes before the ingress pipeline starts. *)
Received(regs, length, protocol, addr_index) ==
  set_ns_address(set_ns_protocol([clear_all(regs) EXCEPT ![0] = length], protocol), addr_index)
=============================================================================
