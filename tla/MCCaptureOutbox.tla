-------------------------- MODULE MCCaptureOutbox ---------------------------
(***************************************************************************)
(* Small instances of CaptureOutbox: two captures and two runs of retries  *)
(* at a time.                                                              *)
(***************************************************************************)
EXTENDS CaptureOutbox

CONSTANTS c1, c2, s1, s2

\* One capture was submitted while the browser was offline.
OfflineInit ==
    /\ outbox = {c1}
    /\ stored = {}
    /\ form = [c \in Captures |-> IF c = c1 THEN "told" ELSE "new"]
    /\ sync = [s \in Syncs |-> NoSync]
    /\ flying = {}
    /\ processed = {}
    /\ session = TRUE

OfflineSpec == OfflineInit /\ [][Next]_vars /\ Fairness
=============================================================================
