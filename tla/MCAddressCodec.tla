---------------------------- MODULE MCAddressCodec -----------------------------
EXTENDS AddressCodec

\* Height and index bytes: zero or not, at both ends of the region, so that
\* String's trimming of trailing zeros reaches into it or not.  Base bytes:
\* zero or not.  Tail bytes: zero, the base value, and the two values that
\* give "_" after the XOR with a base byte of 0 or 1.
MCByteVals ==
  [i \in 1..AddressSize |->
     CASE i = 1 \/ i = 6  -> {0, 1}
       [] i \in 2..5      -> {0}
       [] i \in 7..8      -> {0, 1}
       [] OTHER           -> {0, 1, 94, 95}]

=============================================================================
