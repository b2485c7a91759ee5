------------------------------- MODULE MCGate -------------------------------
(***************************************************************************)
(* A small instance of Gate: the passenger and one driver share a thread,  *)
(* the other driver has one of his own.  Each driver reports that nobody   *)
(* came out; one of them later marks the debt as paid.                     *)
(***************************************************************************)
EXTENDS Gate

MCShardOf(u) == IF u = "carol" THEN "second" ELSE "first"

Log == <<
  [by |-> "alice", does |-> "pay",    on |-> 0],
  [by |-> "bob",   does |-> "noshow", on |-> 11],
  [by |-> "carol", does |-> "noshow", on |-> 12],
  [by |-> "carol", does |-> "paid",   on |-> 12] >>

MCBy(e) == Log[e].by
MCDoes(e) == Log[e].does
MCOn(e) == Log[e].on
MCEvent == DOMAIN Log
=============================================================================
