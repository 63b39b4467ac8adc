---------------------------- MODULE MCScheduler ----------------------------
(* Finite instances of Scheduler: a day of three hours. *)
EXTENDS Scheduler

\* Hourly, and once a day with a blackout, both in UTC.
UtcCrons == {[at |-> {0, 1, 2}, zone |-> 0, out |-> {}], [at |-> {0}, zone |-> 0, out |-> {1}]}
=============================================================================
