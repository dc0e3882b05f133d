------------------------- MODULE MCCertificateChecks -------------------------
EXTENDS CertificateChecks
\* Two roots; an intermediate, and the same one cross-signed by the other root; a leaf,
\* and an expired one.
CONSTANTS leaf, old, mid, cross, root, other
MCIssuedBy ==
    {<<leaf, mid>>, <<leaf, cross>>, <<old, mid>>, <<old, cross>>,
     <<mid, root>>, <<cross, other>>, <<root, root>>, <<other, other>>}
MCKey == [c \in Certs |-> CASE c \in {mid, cross} -> "midKey"
                            [] c = leaf -> "leafKey" [] c = old -> "oldKey"
                            [] c = root -> "rootKey" [] OTHER -> "otherKey"]
MCChains == {<<c>> : c \in Certs} \cup {<<c, d>> : c \in {leaf, old, mid}, d \in Certs}
            \cup [1..3 -> {leaf, mid, cross, root}]
            \cup {<<leaf>> \o s : s \in [1..3 -> {mid, cross, root}]}
MCTrusts == {<<root>>, <<mid>>, <<leaf>>, <<other, root>>}
=============================================================================
