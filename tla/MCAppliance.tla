---------------------------- MODULE MCAppliance ----------------------------
(***************************************************************************)
(* Appliance for TLC: every public command line, the adapter's lifecycle   *)
(* request forms, and a backend build for each kind of contract-version    *)
(* answer.                                                                 *)
(***************************************************************************)
EXTENDS Appliance

MCCommands == PublicCommands \cup LifecycleRequests

Contract(major, commands) == [wellFormed |-> TRUE, major |-> major, commands |-> commands]
Build(exit, kind, body)   == [exit |-> exit, kind |-> kind, body |-> body]

\* A build whose matrix marks a mutating command read-only.
Drifted == [ContractCommands EXCEPT ![3].readOnly = TRUE]

MCImages ==
  {Build(0, "contract", Contract(1, ContractCommands)),
   Build(0, "contract", Contract(1, SubSeq(ContractCommands, 1, 10))),
   Build(0, "contract", Contract(1, SubSeq(ContractCommands, 1, 11))),
   Build(0, "contract", Contract(2, ContractCommands)),
   Build(0, "contract", Contract(1, Drifted)),
   Build(5, "typed", [exit |-> 5, comp |-> "BACKEND_HANDSHAKE_UNAVAILABLE", retryable |-> TRUE]),
   Build(4, "typed", [exit |-> 5, comp |-> "BACKEND_HANDSHAKE_UNAVAILABLE", retryable |-> TRUE])}

=============================================================================
