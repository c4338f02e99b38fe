-------------------------- MODULE MCSourcesAudit --------------------------
(* Constants for the run of SourcesAudit. *)
EXTENDS SourcesAudit

(* "10.parquet" sorts before "2.parquet": the order of decimal strings.     *)
DecimalStrings ==
    [i \in 0..MaxBatch |-> IF i < 10 THEN 11 * i ELSE 11 * (i \div 10) + 1 + (i % 10)]
=============================================================================
