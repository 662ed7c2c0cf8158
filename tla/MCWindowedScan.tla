--------------------------- MODULE MCWindowedScan ---------------------------
EXTENDS WindowedScan

CONSTANTS MaxLen

\* Every log of at most MaxLen bytes, with a signature anywhere or nowhere.
AllLogs ==
    {l \in [len : 0 .. MaxLen, end : {"eof", "error"}, opens : BOOLEAN,
            sig : 0 .. MaxLen] :
        /\ l.sig > 0 => l.sig + SigLen - 1 <= l.len
        /\ ~l.opens => l.len = 0 /\ l.end = "eof"}
=============================================================================
