------------------------------- MODULE MCLanLive ------------------------------
EXTENDS LanLive

CONSTANTS p1, p2

MCClient == {p1, p2}
MCOneClient == {p1}

=============================================================================
