------------------------------- MODULE MCGarden -------------------------------
EXTENDS Garden, TLC

Symmetry == Permutations(Runs)

Both(edges) == edges \cup {<<e[2], e[1]>> : e \in edges}

\* A chain that the start nodes enter at an end or in the middle, two pairs, a
\* star with more hits than a search returns, and chains with a one-sided link.
Chain == Both({<<1, 2>>, <<2, 3>>, <<3, 4>>})
Twisted == Both({<<1, 4>>, <<4, 2>>, <<2, 3>>})
Shapes == {Chain, Twisted, Both({<<1, 3>>, <<2, 4>>}), Both({<<1, 4>>, <<2, 4>>, <<3, 4>>}),
           Chain \ {<<2, 3>>}, Twisted \ {<<4, 2>>}}
=============================================================================
