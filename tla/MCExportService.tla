---------------------------- MODULE MCExportService ----------------------------
(* Two requests at a time, two workers, two jobs and two shares. *)
EXTENDS ExportService
CONSTANTS c1, c2, w1, w2, j1, j2, s1, s2
const_Clients == {c1, c2}
const_Workers == {w1, w2}
const_Jobs == {j1, j2}
const_Shares == {s1, s2}
=============================================================================
