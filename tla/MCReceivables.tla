---------------------------- MODULE MCReceivables ----------------------------
(* Small instances of Receivables for TLC.                                   *)
EXTENDS Receivables, TLC

(* Every draft belongs to the period that TLC chooses first.                 *)
MCDraftPeriod == [d \in Draft |-> CHOOSE p \in Period: TRUE]
MCAmount == 1..2
MCTotal  == 2

Interchangeable == Permutations(Invoice) \cup Permutations(Promise)
=============================================================================
