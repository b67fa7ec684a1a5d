---- MODULE MCDocumentPurge ----
(* Bounds: two versions, two workers and two calls of purge, so that two   *)
(* workers can share a version and a second call can race the first or     *)
(* resume it; one conversation about the document and one about anything.  *)
EXTENDS TLC, DocumentPurge
CONSTANTS v1, v2, w1, w2, p1, p2, about, other
Versions == {v1, v2}
Workers == {w1, w2}
Calls == {p1, p2}
Conversations == {about, other}
ScopedToDocument == {about}
PurgeSymmetry == Permutations(Versions) \cup Permutations(Workers) \cup Permutations(Calls)
====
