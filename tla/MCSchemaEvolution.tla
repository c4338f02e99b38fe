------------------------- MODULE MCSchemaEvolution -------------------------
(* Constants for the run of SchemaEvolution: a partition column, whose type *)
(* no model changes, and a value that may be declared in two spellings of   *)
(* one type, as another type, as one the adapter does not know, or not.     *)
EXTENDS SchemaEvolution

MCColumns == {"day", "value"}
MCPartition == {"day"}
MCTypes == {"string", "long", "bigint", "guid"}
MCCanonical == [string |-> "STRING", long |-> "INT64", bigint |-> "INT64", guid |-> Unknown]
MCModels == {[day |-> "string", value |-> t] : t \in MCTypes \cup {Absent}}
=============================================================================
