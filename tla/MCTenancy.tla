----------------------------- MODULE MCTenancy -----------------------------
(* An instance of Tenancy: a tenant with two providers and a tenant with    *)
(* one, whose pix key 2 was filed under a provider of the first.            *)
EXTENDS Tenancy

CONSTANTS t1, t2, a1, a2, p1, p2, p3

OwnerOfKey      == [k \in {a1, a2} |-> IF k = a1 THEN t1 ELSE t2]
OwnerOfProvider == [p \in {p1, p2, p3} |-> IF p = p3 THEN t2 ELSE t1]
OwnerOfPix      == <<t1, t2, t1>>
AccountOfPix    == <<p1, p1, p1>>
=============================================================================
