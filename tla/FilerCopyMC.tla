---------------------------- MODULE FilerCopyMC ----------------------------
EXTENDS FilerCopy

D == [of |-> NoFile, whole |-> TRUE]
F(i) == [of |-> i, whole |-> TRUE]

\* Two devices; on the first a folder with a file in it and a loose file, on
\* the second, in one of the trees, a folder of the same name with its own file.
Roots == <<"mass">> :> D @@ <<"mmce">> :> D
Save  == <<"mass", "A">> :> D @@ <<"mass", "A", "f">> :> F("f1") @@ <<"mass", "g">> :> F("f2")
Old   == <<"mmce", "A">> :> D @@ <<"mmce", "A", "f">> :> F("f3")
OldTree == {Roots @@ Save @@ Old}
NewTree == {Roots @@ Save}
SameNames == [d \in {"mass", "mmce"} |-> [n \in {"A", "f", "g"} |-> n]]

=============================================================================
