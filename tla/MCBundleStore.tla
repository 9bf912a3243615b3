---------------------------- MODULE MCBundleStore ----------------------------
(* Two bundles, the second with a file the first does not have.              *)
EXTENDS BundleStore

CONSTANTS A, B

MCEntries == [c \in Content |-> IF c = A THEN {"shared"} ELSE {"shared", "only in B"}]
=============================================================================
