---------------------------- MODULE MCHostSigner ----------------------------
(* HostSigner for TLC.                                                     *)
EXTENDS HostSigner, TLC

\* Tasks, keys, envelopes and the PCR values of one kind are interchangeable.
Symmetry == Permutations(Workers) \cup Permutations(HostKeys)
            \cup Permutations(Slots) \cup Permutations(OnStates)
=============================================================================
