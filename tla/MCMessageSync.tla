--------------------------- MODULE MCMessageSync ---------------------------
EXTENDS MessageSync
ForwardOnly == {1}
WithCorrection == {1, -2}
=============================================================================
