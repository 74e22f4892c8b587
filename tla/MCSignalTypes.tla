--------------------------- MODULE MCSignalTypes ---------------------------
(* Files and frames for checking SignalTypes with TLC.                     *)
EXTENDS SignalTypes

Bits == 0..(FrameBytes * ByteBits - 1)

(* Every signal that lies in the frame.                                    *)
InFrame(name) ==
  {sg \in {SG(name, s, n, i, g) :
             s \in Bits, n \in 1..Cardinality(Bits), i \in BOOLEAN, g \in BOOLEAN} :
     BitsOf(sg) \subseteq Bits}
Whole(name) == {sg \in InFrame(name) : PlainInteger(sg)}

(* Neighbours, which may not be decoded: up to three bits of either kind.  *)
Short(name) == {sg \in InFrame(name) : sg.length <= 3 /\ ~sg.signed}

(* Each alone, and beside others in every layout of the lines.             *)
MCFiles ==
  {<<BO(1), sg>> : sg \in InFrame("a")}
    \cup {<<Other, BO(1), sg, Blank, BO(2), SG("b", 0, ByteBits, TRUE, TRUE), l>> :
            sg \in Whole("a"), l \in {Blank, Indented, Other}}
    \cup {<<BO(2), l, sg, m, n, Other>> :
            sg \in Whole("a"), l, m \in {Blank, Indented}, n \in Short("b")}

(* Every byte value at every place, and neighbours that differ.            *)
MCPayloads ==
  {[k \in 1..FrameBytes |-> (a + b * k) % 2^ByteBits] : a, b \in 0..(2^ByteBits - 1)}
=============================================================================
