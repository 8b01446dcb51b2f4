----------------------------- MODULE MCCatalog -----------------------------
(* Two sessions created here, which are interchangeable, and one that comes *)
(* with an archive.                                                         *)
EXTENDS Catalog

Symmetry == Permutations(Sessions \ {Guest})

\* A turn began or ended between the list of the archive and its copy of the log.  A session
\* of an archive that agrees with itself is what a restart makes of such a one.
Disagreeing == {ForeignArchive("idle", "busy"), ForeignArchive("busy", "idle")}

DisagreeingInit == Init /\ \E a \in Disagreeing : archives = {a}

DisagreeingSpec == DisagreeingInit /\ [][Next]_vars
=============================================================================
