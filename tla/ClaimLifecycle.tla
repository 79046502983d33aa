---------------------------- MODULE ClaimLifecycle ----------------------------
(***************************************************************************)
(* What the pool promises, without dates, caps, roles, points or tokens: a *)
(* wallet's principal is held or forfeited, the cover of an incident goes  *)
(* through its phases, and the two pool-wide figures `reserve` and `staked`*)
(* move exactly with them.  A wallet has at most one live cover.           *)
(***************************************************************************)
EXTENDS Integers

CONSTANTS
    Wallets, Incidents,
    Entitlements,       \* what a cover may promise
    Principals          \* what a wallet may deposit

VARIABLES
    principal,  \* per wallet: [phase, amount]
    cover,      \* per wallet and incident: [phase, owed, paid]
    reserve,    \* promised to live covers and not yet paid
    staked      \* principal held

lifecycle_vars == <<principal, cover, reserve, staked>>

Covers == Wallets \X Incidents

LivePhases == {"pending", "awaiting", "streaming"}
OpenPhases == LivePhases \cup {"queued"}

live(c) == cover[c].phase \in LivePhases
no_other_live(c) == \A d \in Covers : d[1] = c[1] /\ live(d) => d = c

\* What a cover still reserves.
due(c) == IF live(c) THEN cover[c].owed - cover[c].paid ELSE 0

enter(c, phase) == cover' = [cover EXCEPT ![c].phase = phase]

\* The wallet's principal is given up for a cover, or given back.
\* A principal forfeited to an earlier, lapsed cover is deducted once more.
forfeit(w) ==
    /\ staked' = staked - principal[w].amount
    /\ principal' = [principal EXCEPT ![w].phase = IF @ = "none" THEN @ ELSE "forfeited"]

restore(w) ==
    /\ staked' = staked + principal[w].amount
    /\ principal' = [principal EXCEPT ![w].phase = IF @ = "none" THEN @ ELSE "held"]

-----------------------------------------------------------------------------
LifecycleInit ==
    /\ principal = [w \in Wallets |-> [phase |-> "none", amount |-> 0]]
    /\ cover = [c \in Covers |-> [phase |-> "none", owed |-> 0, paid |-> 0]]
    /\ reserve = 0 /\ staked = 0

Deposit(w) ==
    /\ principal[w].phase # "held"
    /\ \E a \in Principals :
          /\ staked' = staked + a
          /\ principal' = [principal EXCEPT ![w] = [phase |-> "held", amount |-> a]]
    /\ \A c \in Covers : c[1] = w => cover[c].phase \notin OpenPhases
    /\ UNCHANGED <<cover, reserve>>

Withdraw(w) ==
    /\ principal[w].phase = "held"
    /\ staked' = staked - principal[w].amount
    /\ principal' = [principal EXCEPT ![w] = [phase |-> "none", amount |-> 0]]
    /\ \A c \in Covers : c[1] = w => ~live(c)
    /\ UNCHANGED <<cover, reserve>>

\* A vault loss lowers the figure and no principal.
Writedown == staked' < staked /\ UNCHANGED <<principal, cover, reserve>>

-----------------------------------------------------------------------------
fresh(c, phase, e) ==
    cover' = [cover EXCEPT ![c] = [phase |-> phase, owed |-> e, paid |-> 0]]

Queue(c) ==
    /\ cover[c].phase = "none"
    /\ principal[c[1]].phase = "held"
    /\ \A d \in Covers : d[1] = c[1] => cover[d].phase \notin OpenPhases
    /\ \E e \in Entitlements : fresh(c, "queued", e)
    /\ UNCHANGED <<principal, reserve, staked>>

\* A queued cover is admitted on the terms it was queued with.
Admit(c) ==
    /\ cover[c].phase = "queued" \/ (cover[c].phase = "none" /\ principal[c[1]].phase = "held")
    /\ \A d \in Covers : d[1] = c[1] => ~live(d)
    /\ \E e \in IF cover[c].phase = "queued" THEN {cover[c].owed} ELSE Entitlements :
          /\ reserve + e <= staked
          /\ reserve' = reserve + e
          /\ \E phase \in {"pending", "awaiting"} : fresh(c, phase, e)
    /\ UNCHANGED <<principal, staked>>

Ripen(c) ==
    /\ cover[c].phase = "pending"
    /\ enter(c, "awaiting")
    /\ UNCHANGED <<principal, reserve, staked>>

Approve(c) ==
    /\ cover[c].phase = "awaiting"
    /\ forfeit(c[1])
    /\ enter(c, "streaming")
    /\ UNCHANGED reserve

Pay(c) ==
    /\ cover[c].phase = "streaming"
    /\ \E a \in 1..(cover[c].owed - cover[c].paid) :
          /\ reserve' = reserve - a
          /\ cover' = [cover EXCEPT ![c] =
                          [phase |-> IF cover[c].paid + a = cover[c].owed
                                     THEN "paid" ELSE "streaming",
                           owed |-> cover[c].owed, paid |-> cover[c].paid + a]]
    /\ UNCHANGED <<principal, staked>>

\* Time runs out for a cover nobody took up or collected.
Lapse(c) ==
    /\ cover[c].phase \in {"queued", "awaiting", "streaming"}
    /\ cover[c].paid < cover[c].owed
    /\ reserve' = reserve - due(c)
    /\ enter(c, "ended")
    /\ UNCHANGED <<principal, staked>>

\* A false positive is reversed; a principal forfeited to it is given back.
Cancel(c) ==
    /\ live(c)
    /\ reserve' = reserve - due(c)
    /\ enter(c, "ended")
    /\ IF cover[c].phase = "streaming" THEN restore(c[1])
       ELSE UNCHANGED <<principal, staked>>

\* New terms for a cover that has not been paid in full, whatever its phase.
Override(c) ==
    /\ cover[c].phase # "paid"
    /\ principal[c[1]].phase # "none"
    /\ no_other_live(c)
    /\ \E e \in Entitlements :
          /\ reserve' = reserve - due(c) + e
          /\ cover' = [cover EXCEPT ![c] =
                          [phase |-> "streaming", owed |-> e,
                           paid |-> IF cover[c].phase = "streaming" THEN cover[c].paid ELSE 0]]
    /\ IF principal[c[1]].phase = "held"
       THEN forfeit(c[1]) /\ reserve' <= staked
       ELSE UNCHANGED <<principal, staked>> /\ reserve' <= staked + principal[c[1]].amount

-----------------------------------------------------------------------------
LifecycleNext ==
    \/ \E w \in Wallets : Deposit(w) \/ Withdraw(w)
    \/ Writedown
    \/ \E c \in Covers :
          \/ Queue(c) \/ Admit(c) \/ Ripen(c) \/ Approve(c)
          \/ Pay(c) \/ Lapse(c) \/ Cancel(c) \/ Override(c)

LifecycleSpec == LifecycleInit /\ [][LifecycleNext]_lifecycle_vars
=============================================================================
