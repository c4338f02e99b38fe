-------------------------- MODULE MCJobSubmission --------------------------
(* Constants for the run of JobSubmission. *)
EXTENDS JobSubmission

AllFaults == {"putFails", "putLost", "jobFails", "giveUp", "listFails",
              "cancelFails", "cancelTimesOut"}
=============================================================================
