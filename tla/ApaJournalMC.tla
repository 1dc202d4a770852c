---------------------------- MODULE ApaJournalMC -----------------------------
(* Small instances of ApaJournal for TLC. *)
EXTENDS ApaJournal, TLC

CONSTANTS s1, s2, s3, h1, h2

MCSectors == {s1, s2, s3}
TwoSectors == {s1, s2}
MCHeaders == {h1, h2}
OneHeader == {h1}

Symmetric == Permutations(MCSectors) \cup Permutations(MCHeaders)
SymmetricTwo == Permutations(TwoSectors)
=============================================================================
