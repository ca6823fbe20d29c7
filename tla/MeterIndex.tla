----------------------------- MODULE MeterIndex -----------------------------
(***************************************************************************)
(* A program that registers switches with a P4Controller and uses the      *)
(* three calls that take a meter's name and an index: SetMeterRates,       *)
(* GetMeterRates and ResetMeterRates, in p4-controller.cc 1491-1562.  What *)
(* it asked for is kept and compared with what the header documents.       *)
(***************************************************************************)
EXTENDS Controller

VARIABLE request  \* history: the last of the three calls, {} before it

Request(operation, i, x, v) ==
  {[operation |-> operation, switch |-> i, meterIndex |-> x, rates |-> v]}

MeterInit == Init /\ request = {}

(* The overload that each of the three reaches in the core is the one that *)
(* takes the name of a table.                                              *)
SetMeterRatesAt(i, x, v) ==
  /\ Call(i, SetMeterRates(State(i), FALSE, x, v))
  /\ request' = Request("set", i, x, v)

GetMeterRatesAt(i, x) ==
  /\ Call(i, GetMeterRates(State(i), FALSE, x))
  /\ request' = Request("get", i, x, 0)

ResetMeterRatesAt(i, x) ==
  /\ Call(i, ResetMeterRates(State(i), FALSE, x))
  /\ request' = Request("reset", i, x, 0)

MeterNext ==
  \/ (Start \/ \E d \in Switches : RegisterSwitch(d)) /\ UNCHANGED request
  \/ \E i \in Indexes, x \in Indices :
       \/ \E v \in Values : SetMeterRatesAt(i, x, v)
       \/ GetMeterRatesAt(i, x)
       \/ ResetMeterRatesAt(i, x)

meterVars == <<vars, request>>

MeterSpec == MeterInit /\ [][MeterNext]_meterVars

-----------------------------------------------------------------------------

(* What the header says a request does to the state s of a switch: the     *)
(* core has a function for each, which no call of the controller reaches.  *)
Documented(s, r) ==
  CASE r.operation = "set"   -> MeterSetRates(s, r.meterIndex, r.rates)
    [] r.operation = "get"   -> MeterGetRates(s, r.meterIndex)
    [] r.operation = "reset" -> MeterResetRates(s, r.meterIndex)

(* The three calls "set", "get" and "reset meter rates for a specific      *)
(* meter index", the "index within the meter array" (model/p4-controller.h *)
(* 598-625): made of a switch that has a core, each has the outcome and    *)
(* leaves the state of the call on that one cell.                          *)
OneCellAddressed == [][
  calls' # calls => \A r \in request' :
    r.switch < Len(connected) /\ pointer[Device(r.switch)] = "core" =>
      LET documented == Documented(State(r.switch), r)
      IN /\ last'.rc = documented.rc
         /\ runtime'[Device(r.switch)] = documented.state]_meterVars
=============================================================================
