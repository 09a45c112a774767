--------------------------- MODULE MCIRReception ---------------------------
\* An instance of IRReception with frames of five bytes of two bits.  The signature
\* has the property of the real one that the codec relies on: it does not fit
\* itself at another bit.
EXTENDS IRReception

\* The state with these bytes.
StateOf(bytes) ==
  {b \in Bits : (bytes[(b \div ByteBits) + 1] \div 2 ^ (b % ByteBits)) % 2 = 1}

SmallSignature == {b \in 0 .. 5 : (<<1, 3, 2>>[(b \div 2) + 1] \div 2 ^ (b % 2)) % 2 = 1}

\* Supported states, and one of another signature whose checksum is right.
Cool == StateOf(<<1, 3, 2, 1, 3>>)
Heat == StateOf(<<1, 3, 2, 2, 0>>)
Foreign == StateOf(<<3, 3, 2, 1, 1>>)

MCTransmissions == {<<Cool, Cool>>, <<Heat>>, <<Cool, Heat>>, <<Foreign, Foreign>>}

\* The real signature 23 CB 26 01 01 satisfies SignatureAssumption too.
RealSignatureBits == {b \in 0 .. 39 : (<<35, 203, 38, 1, 1>>[(b \div 8) + 1] \div 2 ^ (b % 8)) % 2 = 1}
ASSUME RealSignature ==
  \A early \in 0 .. 7 :
    \E a, b \in 8 .. 39 : /\ a # b
                          /\ (a \in RealSignatureBits) # (a - 8 + early \in RealSignatureBits)
                          /\ (b \in RealSignatureBits) # (b - 8 + early \in RealSignatureBits)
=============================================================================
