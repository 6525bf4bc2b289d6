------------------------------- MODULE MCChan -------------------------------
(* TLC's instances of Chan: reader r1 reads chan c1, another reader reads c2. *)
EXTENDS Chan

CONSTANTS c1, c2, r1

MCReadsFrom == [t \in Readers |-> IF t = r1 THEN c1 ELSE c2]

\* Every write() ends, and every read() of a chan that has something (chan.h).
CallsEnd == WritesEnd /\ ReadsEnd
=============================================================================
