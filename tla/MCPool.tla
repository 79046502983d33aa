-------------------------------- MODULE MCPool --------------------------------
(***************************************************************************)
(* Values of the structured CONSTANTS for the model-checking runs.         *)
(***************************************************************************)
EXTENDS DocClaims

CONSTANTS adm, orc, cos, adm2, w1, w2, ben, ben2, k1, k2, t1, t2, vlt

\* A pool cap of 16000 makes 200 the largest stake and 3 the smallest.
OneDeployment ==
    {[admin |-> adm, oracle |-> orc, oracle_pubkey |-> k1, co_signer |-> cos,
      pool_cap |-> 16000]}

VerdictOn(w, t, e, tier, at) ==
    [wallet |-> w, tx_hash |-> t, entitlement |-> e, tier |-> tier, hack_timestamp |-> at]

\* A small and a large incident; the large one is queued until w1 has staked too.
TwoIncidents == {VerdictOn(w1, t1, 10, 3, 1), VerdictOn(w2, t1, 30, 1, 1)}

OneIncident == {VerdictOn(w1, t1, 20, 1, 1)}

\* An incident for a stake of 10, and one that a stake of 20 has to queue until
\* another staker makes room.
SmallIncident == {VerdictOn(w1, t1, 2, 1, 0)}
ModestQueued == {VerdictOn(w1, t2, 6, 1, 0)}

\* Two incidents of one wallet, the second after the first.
SuccessiveIncidents == {VerdictOn(w1, t1, 10, 1, 1), VerdictOn(w1, t2, 10, 1, 2)}

\* For a stake of 100: one incident that is admitted and one that has to queue.
QueuedOnly == {VerdictOn(w1, t2, 30, 1, 0)}
AdmittedAndQueued == {VerdictOn(w1, t1, 20, 1, 1), VerdictOn(w1, t2, 30, 1, 1)}

NoTerms == {}

TermsOn(w, t, e, tier) == [wallet |-> w, tx_hash |-> t, entitlement |-> e, tier |-> tier]

\* A correction below what may have been paid and one upwards.
CorrectedTerms == {TermsOn(w1, t1, 2, 1), TermsOn(w1, t1, 90, 1)}

\* The same for a stake of 20, where a day's outflow is at most 1, and an
\* override of another incident.
ModestTerms == {TermsOn(w1, t1, 1, 1), TermsOn(w1, t1, 18, 1), TermsOn(w1, t2, 3, 1)}

OtherTerms == {TermsOn(w1, t1, 20, 1)}
=============================================================================
