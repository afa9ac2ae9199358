--------------------------- MODULE MCTunnelAdmin ---------------------------
(* TunnelAdmin with a range, a tunnel without a port, and requests whose    *)
(* lists of ports do not fit or are empty.  The requests are alike.         *)
EXTENDS TunnelAdmin, TLC

MCSpecs == {[local |-> 2, public |-> <<1, 2>>], [local |-> 1, public |-> <<0>>],
            [local |-> 2, public |-> <<1>>],
            [local |-> 0, public |-> <<>>]}
Symmetry == Permutations(Editors)
=============================================================================
