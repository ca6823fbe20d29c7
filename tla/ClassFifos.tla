----------------------------- MODULE ClassFifos -----------------------------
(***************************************************************************)
(* What the egress buffer of a switch promises its users: one FIFO queue   *)
(* per traffic class (an egress port and a priority).  Every packet that   *)
(* is accepted gets the next ticket of the buffer; a class gives its       *)
(* packets back in ticket order, each one once.  When a packet leaves, and *)
(* which class is served, is left open: that is what the rates and the     *)
(* priorities of EgressBuffer decide.                                      *)
(***************************************************************************)
EXTENDS Naturals

CONSTANT Classes    \* the (port, priority) pairs

VARIABLES
  waiting,          \* the tickets waiting in each class
  ticket            \* the next ticket

vars == <<waiting, ticket>>

-----------------------------------------------------------------------------

Init ==
  /\ waiting = [c \in Classes |-> {}]
  /\ ticket = 0

(* A packet is accepted into class c. *)
Accept(c) ==
  /\ waiting' = [waiting EXCEPT ![c] = @ \cup {ticket}]
  /\ ticket' = ticket + 1

(* The packet that has waited longest in class c leaves. *)
Release(c) ==
  \E t \in waiting[c] :
    /\ \A u \in waiting[c] : t <= u
    /\ waiting' = [waiting EXCEPT ![c] = @ \ {t}]
    /\ UNCHANGED ticket

Next == \E c \in Classes : Accept(c) \/ Release(c)

Spec == Init /\ [][Next]_vars
=============================================================================
