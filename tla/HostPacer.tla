------------------------------ MODULE HostPacer ------------------------------
(***************************************************************************)
(* The pacing of discovery: probes running side by side claim departure    *)
(* slots one interval apart, each under the lock, and then sleep until     *)
(* their own.  A sleep may last longer than asked.  Time is counted in     *)
(* units small enough for claims to fall between slots.                    *)
(***************************************************************************)
EXTENDS Integers, FiniteSetsExt

CONSTANTS
    Probe,
    Interval,       \* time between departures
    Burst,          \* hosts an idle pacer lets go at once
    MaxPaceTime     \* bound: time

ASSUME PacerAssumption == Interval \in Nat \ {0} /\ Burst \in Nat \ {0}

VARIABLES
    paceClock,
    next_slot,      \* initially as far back as no claim can reach
    slot,           \* what each probe claimed, -1 before
    asked,          \* history: when it did
    departed        \* history: when it went, -1 before

pacerVars == <<paceClock, next_slot, slot, asked, departed>>

Tolerance == (Burst - 1) * Interval
Never == -1 - Tolerance

PacerInit == /\ paceClock = 0 /\ next_slot = Never
             /\ slot = [p \in Probe |-> Never] /\ asked = [p \in Probe |-> Never] /\ departed = [p \in Probe |-> Never]

PaceTick == /\ paceClock < MaxPaceTime /\ paceClock' = paceClock + 1
            /\ UNCHANGED <<next_slot, slot, asked, departed>>

\* Mutant: an idle pacer saves up every slot it did not use.
SlotFor_Saved == Max({next_slot, 0})

\* A slot may lie in the past as far as the burst allows, and no further.
SlotFor == Max({next_slot, paceClock - Tolerance})

Acquire(p) ==
    /\ asked[p] = Never
    /\ slot' = [slot EXCEPT ![p] = SlotFor] /\ next_slot' = SlotFor + Interval
    /\ asked' = [asked EXCEPT ![p] = paceClock]
    /\ UNCHANGED <<paceClock, departed>>

Depart(p) ==
    /\ asked[p] # Never /\ departed[p] = Never /\ slot[p] <= paceClock
    /\ departed' = [departed EXCEPT ![p] = paceClock]
    /\ UNCHANGED <<paceClock, next_slot, slot, asked>>

PacerNext == PaceTick \/ \E p \in Probe : Acquire(p) \/ Depart(p)

PacerSpec == PacerInit /\ [][PacerNext]_pacerVars
-----------------------------------------------------------------------------
\* From any moment on, the hosts that ask for their turn leave no faster than
\* one per interval beyond the burst, however the probes interleave and however
\* long the pacer was idle.  (Sleeps that last too long can bring together
\* hosts that asked before.)
PaceIsKept ==
    \A s \in 0 .. paceClock :
        Cardinality({p \in Probe : asked[p] >= s /\ departed[p] # Never}) <= Burst + (paceClock - s) \div Interval
=============================================================================
