----------------------------- MODULE MCLossyMap -----------------------------
(* Small instances of LossyMap for TLC. *)
EXTENDS LossyMap

CONSTANTS k1, k2, k3

(* Probe sequences that cross, and one that revisits an index. *)
CrossingHash ==
    [k \in Keys \cup {NoKey} |-> [a \in Attempts |->
        CASE k = k1 -> a % 3
          [] k = k2 -> (2 * a) % 3
          [] OTHER -> 1 - (a % 2)]]
=============================================================================
