----------------------------- MODULE MCKeyScan -----------------------------
\* Three of the four keys - one active high at rest low, the active-low KEY0, and
\* KEY1, active while idle - with counters that wrap at four instead of 65536.
EXTENDS KeyScan

MCKeys == {KEY_UP_DOWN, KEY0_DOWN, KEY1_DOWN}

=============================================================================
