---------------------------- MODULE MCFlowPair -----------------------------
EXTENDS FlowPair

CONSTANTS StreamA, StreamB, SeqA, SeqB

MCStream == [e \in {"a", "b"} |-> IF e = "a" THEN StreamA ELSE StreamB]
MCInitSeq == [e \in {"a", "b"} |-> IF e = "a" THEN SeqA ELSE SeqB]
=============================================================================
