----------------------------- MODULE MCRefresh -----------------------------
EXTENDS Refresh

\* A stick, one of another make of the same capacity, and one that answers with
\* the serial of the first but holds more.
MCDisk == {"stick", "other", "twin"}
MCDevice == [d \in MCDisk |-> d]
MCSerial == [stick |-> "s1", other |-> "s2", twin |-> "s1"]
MCLun == [d \in MCDisk |-> 0]
MCSize == [stick |-> 1, other |-> 1, twin |-> 2]
=============================================================================
