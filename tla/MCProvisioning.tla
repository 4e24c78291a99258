--------------------------- MODULE MCProvisioning ---------------------------
(* Images as the provisioning guide has them flashed, one after another.   *)
EXTENDS Provisioning

Image(cert, key, jitp, force) == [cert |-> cert, key |-> key, jitp |-> jitp, force |-> force]

Flashed == {Image(None, FALSE, FALSE, TRUE), Image("fits", FALSE, TRUE, FALSE),
            Image("fits", TRUE, FALSE, FALSE), Image("edge", TRUE, FALSE, FALSE),
            Image("large", FALSE, FALSE, FALSE), Image("edge", FALSE, FALSE, FALSE),
            Image("edge", TRUE, TRUE, TRUE)}
=============================================================================
