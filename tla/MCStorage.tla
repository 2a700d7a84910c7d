----------------------------- MODULE MCStorage -----------------------------
(* The layers under the file system calls, one at a time: the buffer cache,  *)
(* the log, the contents of files.  A run explores the layers in Layers; the *)
(* variables of the others keep their initial values.                        *)
EXTENDS FsLog, BufferCache, FsBlocks, TLC

CONSTANT Layers
VARIABLE layer

layerVars == <<layer, fsLogVars, bufVars, blockVars>>

\* f1 and f2 are two open files of one inode, f3 of another.
TwoOnOne == [f \in OpenFiles |-> IF f = "f3" THEN 2 ELSE 1]

\* A layer that is not explored starts from one disk only.
Blank(f) == \A b, c \in DOMAIN f : f[b] = f[c] /\ f[b] = CHOOSE v \in Values : TRUE

LayerInit ==
    /\ layer \in Layers
    /\ LogInit /\ BufInit /\ BlockInit
    /\ layer # "log" => Blank(home)
    /\ layer # "cache" => Blank(disk)

LayerNext ==
    \/ layer = "log" /\ LogNext /\ UNCHANGED <<layer, bufVars, blockVars>>
    \/ layer = "cache" /\ BufNext /\ UNCHANGED <<layer, fsLogVars, blockVars>>
    \/ layer = "blocks" /\ BlockNext /\ UNCHANGED <<layer, fsLogVars, bufVars>>

LayerSpec == LayerInit /\ [][LayerNext]_layerVars

\* The processes and blocks of the log are those of the cache.
LayerSymmetry == Permutations(Procs) \union Permutations(Blocks)
=============================================================================
