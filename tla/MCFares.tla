------------------------------ MODULE MCFares ------------------------------
(***************************************************************************)
(* A ride of seven seconds in ticks of half a second, two seconds to a      *)
(* minute, one minute free, and one car that may break down.               *)
(***************************************************************************)
EXTENDS Fares
=============================================================================
