---------------------------- MODULE MCRxFraming ----------------------------
(* Values for RxFraming: a byte is its value and, in a CRC, what it was computed from. *)
EXTENDS RxFraming

MCMessage == {[id |-> 0, payload |-> << >>], [id |-> 1, payload |-> <<2>>],
              [id |-> 2, payload |-> <<0>>]}

MCValue(b) == b.v
MCPlain(v) == [v |-> v, of |-> << >>]
MCOrigin(b) == b.of

Covered(m) == <<Start, m.id, Len(m.payload)>> \o m.payload
MCByte == [v : 0..MaxLen, of : {<< >>} \cup {Covered(m) : m \in MCMessage}]

\* The low byte looks like a start byte, and the high byte like the identifier.
MCCrcLow(s) == [v |-> Start, of |-> Values(s)]
MCCrcHigh(s) == [v |-> s[2].v, of |-> Values(s)]
=============================================================================
