--------------------------- MODULE AdmissionSpec ---------------------------
(***************************************************************************)
(* What the shared budget promises the pipeline: admission decides         *)
(* atomically. A record enters when it fits together with everything in    *)
(* flight and the count limit is not spent; records leave in batches.      *)
(***************************************************************************)
EXTENDS AdmissionBase

VARIABLES
    inFlight,  \* records admitted and not yet released
    done       \* records released

specVars == <<inFlight, done>>

Admitted == inFlight \union done

Init == inFlight = {} /\ done = {}

Admit(r) ==
    /\ r \notin Admitted
    /\ Fits(inFlight \union {r})
    /\ Cardinality(inFlight \union {r}) <= MaxRecords
    /\ HasLimit => Cardinality(Admitted) < CountLimit
    /\ inFlight' = inFlight \union {r}
    /\ UNCHANGED done

Release(S) ==
    /\ S # {}
    /\ inFlight' = inFlight \ S
    /\ done' = done \union S

Next ==
    \/ \E r \in Records : Admit(r)
    \/ \E S \in SUBSET inFlight : Release(S)

Spec == Init /\ [][Next]_specVars
=============================================================================
