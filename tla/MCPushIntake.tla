---------------------------- MODULE MCPushIntake ----------------------------
(* Instances of PushIntake for TLC: any combination of requests is sent. *)
EXTENDS PushIntake, TLC

Interchangeable == Permutations(Requests) \cup Permutations(Processes)
                   \cup Permutations(Bodies \ (Malformed \cup Scalars)) \cup Permutations(PushConnectors)
=============================================================================
