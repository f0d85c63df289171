------------------------------ MODULE MCFatDir ------------------------------
(* A volume with a few names, for TLC *)
EXTENDS FatDir

CONSTANTS na, nb, np, nd, base

Names3 == {na, nb, np, nd}
TwoParts == [n \in Names3 |-> IF n = nb THEN 2 ELSE 1]
SameBase == (na :> base) @@ (nb :> base)
Directory == {<<nd>>}
Files3 == {<<na>>, <<nb>>, <<nd, na>>}
AsFound == {[fat32 |-> FALSE, entries |-> <<>>],
            [fat32 |-> TRUE, entries |-> <<Label(nb), Sfn(np, FALSE, None)>>],
            [fat32 |-> TRUE, entries |-> <<Sfn([base |-> base, seq |-> 1], FALSE, None), Deleted,
                                           Sfn([base |-> base, seq |-> 2], FALSE, None)>>]}

=============================================================================
