----------------------------- MODULE SyncGovernor -----------------------------
(***************************************************************************)
(* server/sync_latency.py: how long the input of each player is held back, *)
(* so that everybody is as late as the slowest.  A player is given by its  *)
(* way, half the round trip: what a press takes to reach the server.       *)
(***************************************************************************)
EXTENDS Integers, FiniteSets, FiniteSetsExt

CONSTANTS Clients,
          Deadband,     \* DEADBAND_MS
          Caps,         \* ceilings the operator may choose
          None

ASSUME GovernorAssumption ==
    /\ IsFiniteSet(Clients)
    /\ Deadband \in Nat
    /\ Caps \subseteq Nat
    /\ None \notin Nat

VARIABLES
    cap,       \* cap_ms
    applied    \* _applied_ms: the delay in force, None for a client that has none

governor == <<cap, applied>>

\* The ceiling is configured; here it is the highest, and the operator may lower it.
InitGovernor == cap = Max(Caps) /\ applied = [c \in Clients |-> None]

Verdict(delay, state) == [delay |-> delay, state |-> state]

\* A playing field is a function from the clients that play to their measurements.
\* Only those with samples enough may set the pace.
Qualified(field) == {c \in DOMAIN field : field[c].ready}
Pace(field) == Max({field[c].way : c \in Qualified(field)})

Raw(field, c) == Pace(field) - field[c].way
Wanted(field, c) == IF Raw(field, c) > cap THEN cap ELSE Raw(field, c)

Distance(a, b) == IF a > b THEN a - b ELSE b - a

\* Mutant: a residual delay below the deadband is never cleared.
SettleTwitchless(c, wanted) ==
    IF applied[c] # None /\ Distance(wanted, applied[c]) < Deadband THEN applied[c]
    ELSE wanted

\* _settle: a small move is not made, except to zero.
Settle(c, wanted) ==
    IF applied[c] # None /\ wanted # 0 /\ Distance(wanted, applied[c]) < Deadband
    THEN applied[c]
    ELSE wanted

\* What compute leaves in force.
Settled(field, enabled) ==
    IF ~ enabled THEN [c \in Clients |-> None]
    ELSE IF Cardinality(Qualified(field)) < 2 THEN applied
    ELSE [c \in Clients |-> IF c \in Qualified(field) THEN Settle(c, Wanted(field, c))
                            ELSE applied[c]]

\* The verdicts of compute.
Verdicts(field, enabled) ==
    LET level == enabled /\ Cardinality(Qualified(field)) >= 2
        settled == Settled(field, enabled)
    IN  [c \in DOMAIN field |->
            IF enabled /\ ~ field[c].ready THEN Verdict(0, "measuring")
            ELSE IF ~ level THEN Verdict(0, "off")
            ELSE Verdict(settled[c], IF Raw(field, c) > cap THEN "capped" ELSE "levelled")]
=============================================================================
