------------------------------- MODULE MCLan -------------------------------
EXTENDS Lan
CONSTANTS a, b
MCIP == {a, b}
MCEthernet == {<<h, n>> : h \in MCIP, n \in 0 .. MaxRestart}
MCRoute == {<<a, b>>, <<b, a>>}
=============================================================================
