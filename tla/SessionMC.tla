------------------------------ MODULE SessionMC ------------------------------
(***************************************************************************)
(* Small instances of Session for TLC.  Screens are 5 pixels wide where    *)
(* the real ones are thousands, so the wall band (1), the entry inset (2)  *)
(* and the snapping tolerance (1) are scaled down with their order kept:   *)
(* a band on each side leaves an interior, the inset lands beyond the band,*)
(* and ticks keep the order of the thresholds 40 ms < 120 ms < 150 ms.     *)
(***************************************************************************)
EXTENDS Session

Row(name, x) == [name |-> name, rect |-> [x |-> x, y |-> 0, w |-> 5, h |-> 4]]

\* The server with one configured client, and a desktop that pins another
\* client first, so that the ids of the screens shift on reload.
RowConfigs == {<<Row("server", 0), Row("a", 5)>>,
               <<Row("server", 0), Row("b", -5), Row("a", 5)>>}
\* An unrelated client is added to the configuration.
GrowingConfigs == {<<Row("server", 0), Row("a", 5)>>,
                   <<Row("server", 0), Row("a", 5), Row("c", 10)>>}

RowSizes == {[w |-> 5, h |-> 4]}
Sweeps == {[dx |-> -5, dy |-> 0], [dx |-> 5, dy |-> 0]}
Ends == {[x |-> 0, y |-> 2], [x |-> 2, y |-> 2], [x |-> 4, y |-> 2]}
=============================================================================
