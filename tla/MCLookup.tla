------------------------------ MODULE MCLookup ------------------------------
(* Instances of Lookup for TLC.                                            *)
EXTENDS Lookup

\* Peers are numbered by their distance to the target.
ByNumber == [p \in Peer |-> p]
=============================================================================
