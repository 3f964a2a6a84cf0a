------------------------- MODULE MCTemplateUploads -------------------------
(* The hash of k1 is the sha256 of c1; that of k2 is no sha256.            *)
EXTENDS TemplateUploads, TLC

CONSTANTS p1, p2, p3, t1, t2, k1, k2, c1, c2, bad, b1

MCExpected == (k1 :> {c1}) @@ (k2 :> Contents)
===========================================================================
