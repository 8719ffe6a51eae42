---------------------------- MODULE MCMatchMaker ----------------------------
\* Both neighbours of a bucket compete for its tickets; and a bucket fills up
\* around a ticket of another one.
EXTENDS MatchMaker

MCMixes == {<<1, 0, 1, 2>>, <<0, 0, 1, 0>>}
=============================================================================
