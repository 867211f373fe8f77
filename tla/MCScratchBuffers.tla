-------------------------- MODULE MCScratchBuffers --------------------------
EXTENDS ScratchBuffers, TLC

CONSTANTS alice, longName, longNameCut

\* One user id does not fit its buffer and is cut to a prefix.
ClipLong == [s \in Strings |-> IF s = longName THEN longNameCut ELSE s]

============================================================================
