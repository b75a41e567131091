-------------------------- MODULE MCWalletFunding --------------------------
EXTENDS WalletFunding

CONSTANTS f1, f2, h1, h2

(* Two handlers race over f1, or one sweep at a time deals with f1 and f2. *)
RaceOrSweep ==
    row[f2] # NoRow =>
        /\ row[f1] # NoRow
        /\ \A c \in Calls : call[c].kind \in SweepKinds \cup {"idle", "initiate"}
        /\ \A c, d \in Calls : call[c].kind # "idle" /\ call[d].kind # "idle" => c = d
============================================================================
