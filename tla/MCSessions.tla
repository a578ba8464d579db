----------------------------- MODULE MCSessions -----------------------------
EXTENDS WebAttach
CONSTANTS s1, s2
MCSessions == {s1, s2}
MCKinds(s) == IF s = s1 THEN {"managed", "pty"} ELSE {"attached"}
=============================================================================
