----------------------------- MODULE Providers ------------------------------
(***************************************************************************)
(* What the models of the state providers (linuxautomaton/sp.py) share:    *)
(* the CPUs, Python's None and the date of the last event, which the       *)
(* automaton hands to one provider after another.                          *)
(***************************************************************************)
CONSTANTS Cpus, None

VARIABLE now              \* timestamp of the last event
=============================================================================
