------------------------------ MODULE MCParts ------------------------------
(***************************************************************************)
(* Small instances of the parts below leveldb's DBImpl, and of nanopb.     *)
(* The parts do not meet here: a behaviour is one of its part, while all   *)
(* others stay in an initial state.                                        *)
(***************************************************************************)
EXTENDS LogFormat, LRUCache, MemTable, PosixEnv, Descriptor, Table, Iterators, MCMessages

VARIABLE part     \* the part that this behaviour is about

\* Of the threads that lock the LOCK file, two are of the same process.
TwoProcesses == <<"p", "p", "q">>

\* Each budget lets other features of the descriptor meet.
Budget(w, s, c, f, r, m, reuse) ==
  [writes |-> w, stops |-> s, crashes |-> c, faults |-> f, repairs |-> r, merges |-> m,
   reuse |-> reuse]
MCDescBudgets ==
  {Budget(1, 0, 2, 0, 0, 0, FALSE), Budget(1, 0, 1, 1, 0, 0, FALSE), Budget(1, 0, 1, 0, 1, 0, FALSE),
   Budget(1, 0, 1, 0, 0, 1, FALSE), Budget(1, 1, 0, 0, 0, 1, FALSE), Budget(1, 2, 0, 1, 0, 0, TRUE)}

\* Internal keys of four user keys, two of which have two entries
FourUserKeys == {<<0>>, <<0, 1>>, <<1>>, <<2>>}
MCTableKeys ==
  {Append(u, NoTag + 2) : u \in FourUserKeys} \cup {Append(u, NoTag + 4) : u \in {<<0, 1>>, <<1>>}}
MCSeekKeys ==
  {Append(u, t) : u \in FourUserKeys, t \in {NoTag + 3, MaxTag}} \cup {Append(<<2>>, NoTag + 1)}

PartsInit ==
  /\ part \in {"log", "cache", "memtable", "lock", "limit", "queue", "descriptor", "table",
               "iterator", "nanopb"}
  /\ LogInit /\ CacheInit /\ MemInit /\ LockInit /\ LimitInit /\ QueueInit /\ TableInit
  /\ IF part = "descriptor" THEN DescInit
     ELSE DescInit /\ left_ = Budget(1, 0, 2, 0, 0, 0, FALSE)
  /\ IF part = "iterator" THEN IterInit
     ELSE /\ IterInit
          /\ contents = [c \in Children |-> IF c = 1 THEN {Key(1, s) : s \in 1..OldEntries} ELSE {}]
          /\ deletion = {}
  /\ IF part = "nanopb" THEN PbInit ELSE PbInit /\ exchange = 1 /\ delimited

PartsNext ==
  /\ \/ part = "log" /\ LogNext
     \/ part = "cache" /\ CacheNext
     \/ part = "memtable" /\ MemNext
     \/ part = "lock" /\ LockNext
     \/ part = "limit" /\ LimitNext
     \/ part = "queue" /\ QueueNext
     \/ part = "descriptor" /\ DescNext
     \/ part = "table" /\ TableStep
     \/ part = "iterator" /\ IterNext_
     \/ part = "nanopb" /\ PbNext
  /\ UNCHANGED part
  /\ IF part = "log" THEN TRUE ELSE UNCHANGED logVars
  /\ IF part = "cache" THEN TRUE ELSE UNCHANGED cacheVars
  /\ IF part = "memtable" THEN TRUE ELSE UNCHANGED memVars_
  /\ IF part = "lock" THEN TRUE ELSE UNCHANGED lockVars
  /\ IF part = "limit" THEN TRUE ELSE UNCHANGED fileVars
  /\ IF part = "queue" THEN TRUE ELSE UNCHANGED queueVars
  /\ IF part = "descriptor" THEN TRUE ELSE UNCHANGED descVars
  /\ IF part = "table" THEN TRUE ELSE UNCHANGED tableVars
  /\ IF part = "iterator" THEN TRUE ELSE UNCHANGED iterVars
  /\ IF part = "nanopb" THEN TRUE ELSE UNCHANGED pbVars

PartsSpec ==
  /\ PartsInit
  /\ [][PartsNext]_<<part, logVars, cacheVars, memVars_, lockVars, fileVars, queueVars, descVars,
                     tableVars, iterVars, pbVars>>
=============================================================================
