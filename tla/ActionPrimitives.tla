-------------------------- MODULE ActionPrimitives --------------------------
(***************************************************************************)
(* The action primitives of utils/primitives-v1model.h, which a P4 program *)
(* of the v1model core calls while a packet is in one of its pipelines: a  *)
(* state machine over one packet, an action for each primitive.            *)
(*                                                                         *)
(* A field of w bits is a number below Modulus[f] = 2^w, and BMv2 cuts     *)
(* what is assigned to it to that width.  The operands of a primitive (the *)
(* fields, constants and parameters the program reads) are any naturals.   *)
(***************************************************************************)
EXTENDS PacketRegisters

CONSTANTS
  Fields,     \* the fields of the program's PHV
  Modulus,    \* field |-> 2^width
  Headers,    \* the headers of the program
  Size,       \* header |-> get_nbytes_packet()
  Cells,      \* the cells of the program's register arrays
  CellModulus,
  Counters    \* the cells of its counter arrays

(* What the compiler guarantees of these constants. *)
Layout ==
  /\ Modulus \in [Fields -> Nat \ {0}]
  /\ Size \in [Headers -> Nat]
  /\ CellModulus \in [Cells -> Nat \ {0}]

VARIABLES
  status,      \* "running", or "crashed"
  registers,   \* the packet registers
  field,       \* the values of the fields
  valid,       \* the valid headers
  exit,        \* mark_for_exit was called
  truncated,   \* the length the packet is cut to ({} : not cut)
  cell,        \* the register arrays
  counter      \* the counter arrays, in packets

vars == <<status, registers, field, valid, exit, truncated, cell, counter>>
packet == <<registers, valid, exit, truncated>>
arrays == <<cell, counter>>

(* 64-bit unsigned arithmetic. *)
Cut64(v) == v % (Width16 * Bits48)
Lengthened(regs, bytes) == [regs EXCEPT ![0] = Cut64(@ + bytes)]
Shortened(regs, bytes) == [regs EXCEPT ![0] = Cut64(@ - bytes)]

Assigned(fields, f, v) == [fields EXCEPT ![f] = v % Modulus[f]]

(* The mirror id in the 16 low bits, the field list above it. *)
CloneSpec(clone_spec, field_list_id) == field_list_id * Bits16 + clone_spec

Init ==
  /\ status = "running"
  /\ registers \in Registers
  /\ field \in {v \in [Fields -> Nat] : \A f \in Fields : v[f] < Modulus[f]}
  /\ valid \in SUBSET Headers
  /\ exit = FALSE
  /\ truncated = {}
  /\ cell \in {v \in [Cells -> Nat] : \A c \in Cells : v[c] < CellModulus[c]}
  /\ counter \in [Counters -> Nat]

-----------------------------------------------------------------------------
(* Assignments to a field.                                                 *)

Put(f, v) ==
  /\ f \in Fields
  /\ field' = Assigned(field, f, v)
  /\ UNCHANGED <<status, packet, arrays>>

(* get_field throws for a field the program does not have. *)
PutOrCrash(f, v) ==
  \/ Put(f, v)
  \/ /\ f \notin Fields
     /\ status' = "crashed"
     /\ UNCHANGED <<registers, field, valid, exit, truncated, arrays>>

(* A field that the primitive asks has_field about first. *)
PutIfPresent(f, v) ==
  \/ Put(f, v)
  \/ f \notin Fields /\ UNCHANGED vars

modify_field(f, src) == Put(f, src)

(* b > e is undefined for the distribution: any value of the field. *)
modify_field_rng_uniform(f, b, e) ==
  \E v \in Nat : (b <= e => v \in b .. e) /\ Put(f, v)

add_to_field(f, d) == f \in Fields /\ Put(f, field[f] + d)
subtract_from_field(f, d) == f \in Fields /\ Put(f, field[f] - d)
add(f, d1, d2) == Put(f, d1 + d2)
subtract(f, d1, d2) == Put(f, d1 - d2)
shift_left(f, d1, shift) == Put(f, d1 * shift)      \* by a power of two
shift_right(f, d1, shift) == Put(f, d1 \div shift)

(* A bitwise operation sets no bit above those of its operands. *)
bit_and(f, d1, d2) == \E v \in 0 .. d1 : v <= d2 /\ Put(f, v)
bit_or(f, d1, d2) == \E v \in 0 .. d1 + d2 : v >= d1 /\ v >= d2 /\ Put(f, v)
bit_xor(f, d1, d2) == \E v \in 0 .. d1 + d2 : Put(f, v)

(* `hash % size' stops the process when size is 0. *)
modify_field_with_hash_based_offset(f, base, size) ==
  \/ size # 0 /\ \E v \in 0 .. size - 1 : Put(f, Cut64(v + base))
  \/ /\ size = 0
     /\ status' = "crashed"
     /\ UNCHANGED <<registers, field, valid, exit, truncated, arrays>>

execute_meter(f) == \E colour \in 0 .. 2 : Put(f, colour)
register_read(f, idx) == idx \in Cells /\ Put(f, cell[idx])

-----------------------------------------------------------------------------
(* Requests to the core.                                                   *)

drop ==
  LET dropped == Assigned(field, "egress_spec", 511)
  IN  \/ /\ "egress_spec" \in Fields
         /\ field' = IF "mcast_grp" \in Fields
                     THEN Assigned(dropped, "mcast_grp", 0)
                     ELSE dropped
         /\ UNCHANGED <<status, packet, arrays>>
      \/ /\ "egress_spec" \notin Fields
         /\ status' = "crashed"
         /\ UNCHANGED <<registers, field, valid, exit, truncated, arrays>>

generate_digest(learn_id) == PutOrCrash("lf_field_list", learn_id)

(* Both directions do the same. *)
clone_ingress_pkt_to_egress(clone_spec, field_list_id) ==
  PutOrCrash("clone_spec", CloneSpec(clone_spec, field_list_id))
clone_egress_pkt_to_egress(clone_spec, field_list_id) ==
  PutOrCrash("clone_spec", CloneSpec(clone_spec, field_list_id))

resubmit(field_list_id) == PutIfPresent("resubmit_flag", field_list_id)
recirculate(field_list_id) == PutIfPresent("recirculate_flag", field_list_id)

exit_ ==
  /\ exit' = TRUE
  /\ UNCHANGED <<status, registers, field, valid, truncated, arrays>>

truncate_(truncated_length) ==
  /\ truncated' = {truncated_length}
  /\ UNCHANGED <<status, registers, field, valid, exit, arrays>>

no_op == UNCHANGED vars

-----------------------------------------------------------------------------
(* Headers.  The fields of a header that is reset or copied are any values *)
(* of their widths: which fields belong to it is the program's affair.     *)

Rewritten ==
  field' \in {v \in [Fields -> Nat] : \A f \in Fields : v[f] < Modulus[f]}

add_header(hdr) ==
  \/ hdr \in valid /\ UNCHANGED vars
  \/ /\ hdr \in Headers \ valid
     /\ Rewritten
     /\ valid' = valid \cup {hdr}
     /\ registers' = Lengthened(registers, Size[hdr])
     /\ UNCHANGED <<status, exit, truncated, arrays>>

(* Neither resets the header nor counts it. *)
add_header_fast(hdr) ==
  /\ hdr \in Headers
  /\ valid' = valid \cup {hdr}
  /\ UNCHANGED <<status, registers, field, exit, truncated, arrays>>

remove_header(hdr) ==
  \/ hdr \in Headers \ valid /\ UNCHANGED vars
  \/ /\ hdr \in valid
     /\ registers' = Shortened(registers, Size[hdr])
     /\ valid' = valid \ {hdr}
     /\ UNCHANGED <<status, field, exit, truncated, arrays>>

(* The validity is copied with the fields, the length is not updated. *)
copy_header(dst, src) ==
  /\ dst \in Headers /\ src \in Headers
  /\ Rewritten
  /\ valid' = IF src \in valid THEN valid \cup {dst} ELSE valid \ {dst}
  /\ UNCHANGED <<status, registers, exit, truncated, arrays>>

-----------------------------------------------------------------------------
(* Arrays.                                                                 *)

count(idx) ==
  /\ idx \in Counters
  /\ counter' = [counter EXCEPT ![idx] = @ + 1]
  /\ UNCHANGED <<status, packet, field, cell>>

register_write(idx, src) ==
  /\ idx \in Cells
  /\ cell' = [cell EXCEPT ![idx] = src % CellModulus[idx]]
  /\ UNCHANGED <<status, packet, field, counter>>

-----------------------------------------------------------------------------

FieldStep ==
  \E f \in Fields, a, b \in Nat :
    \/ modify_field(f, a) \/ modify_field_rng_uniform(f, a, b)
    \/ add_to_field(f, a) \/ subtract_from_field(f, a)
    \/ add(f, a, b) \/ subtract(f, a, b)
    \/ shift_left(f, a, b) \/ (b # 0 /\ shift_right(f, a, b))
    \/ bit_and(f, a, b) \/ bit_or(f, a, b) \/ bit_xor(f, a, b)
    \/ modify_field_with_hash_based_offset(f, a, b)
    \/ execute_meter(f) \/ (\E idx \in Cells : register_read(f, idx))

RequestStep ==
  \/ drop \/ exit_ \/ no_op
  \/ \E a, b \in Nat :
       \/ generate_digest(a) \/ resubmit(a) \/ recirculate(a) \/ truncate_(a)
       \/ clone_ingress_pkt_to_egress(a, b) \/ clone_egress_pkt_to_egress(a, b)

HeaderStep ==
  \E hdr, src \in Headers :
    \/ add_header(hdr) \/ add_header_fast(hdr) \/ remove_header(hdr)
    \/ copy_header(hdr, src)

ArrayStep ==
  \/ \E idx \in Counters : count(idx)
  \/ \E idx \in Cells, v \in Nat : register_write(idx, v)

Next ==
  status = "running" /\ (FieldStep \/ RequestStep \/ HeaderStep \/ ArrayStep)

Spec == Init /\ [][Next]_vars

-----------------------------------------------------------------------------
(* Properties, proved in ActionPrimitives_proofs.                          *)

(* Fields and cells keep their widths, registers stay 64 bits wide. *)
TypeOK ==
  /\ status \in {"running", "crashed"}
  /\ registers \in Registers
  /\ field \in [Fields -> Nat]
  /\ \A f \in Fields : field[f] < Modulus[f]
  /\ valid \subseteq Headers
  /\ exit \in BOOLEAN
  /\ truncated \in SUBSET Nat
  /\ cell \in [Cells -> Nat]
  /\ \A c \in Cells : cell[c] < CellModulus[c]
  /\ counter \in [Counters -> Nat]

(* Whatever primitives a program calls, the registers from which the core  *)
(* reads clone, learn, resubmit and recirculate requests, and the protocol *)
(* and address it stored for ns-3, stay as ReceivePacket left them: the    *)
(* primitives write their requests into fields of the PHV.                 *)
RequestsUntouched == registers'[1] = registers[1] /\ registers'[2] = registers[2]

(* Only add_header and remove_header change the length that the core will  *)
(* report, and only together with the validity of a header.                *)
LengthFollowsHeaders == registers'[0] # registers[0] => valid' # valid
=============================================================================
