----------------------------- MODULE MCDBStore -----------------------------
(***************************************************************************)
(* Small instances of DBStore.                                             *)
(***************************************************************************)
EXTENDS DBStore

WholeRange == {<<NULL, NULL>>}

Budget(w, s, r, m, e) ==
  [writes |-> w, snapshots |-> s, reads |-> r, manuals |-> m, errors |-> e]

\* Each budget lets other features meet.
Mixed ==
  {Budget(4, 0, 0, 0, 0), Budget(3, 1, 0, 0, 0), Budget(3, 0, 1, 0, 0), Budget(3, 0, 0, 1, 0),
   Budget(2, 1, 0, 1, 0), Budget(2, 0, 0, 1, 1), Budget(1, 0, 1, 1, 0)}

\* Three writes, a snapshot and one CompactRange
OneManual == {Budget(3, 1, 0, 1, 0)}

\* Five writes around one CompactRange
FiveWrites == {Budget(5, 0, 0, 1, 0)}
=============================================================================
