------------------------------ MODULE MCWreTree ------------------------------
EXTENDS WreTree

MCHalf == {<<1, 2>>}
MCRatios == {<<0, 1>>, <<1, 4>>, <<1, 2>>, <<2, 3>>, <<1, 1>>}
=============================================================================
