----------------------------- MODULE MCRestore -----------------------------
(***************************************************************************)
(* Small instances of Restore for TLC: a directory h with a directory u of *)
(* one file, a file g beside it, and the state directory with its          *)
(* inventory.                                                              *)
(***************************************************************************)
EXTENDS Restore

h == <<"h">>
u == <<"h", "u">>
f == <<"h", "u", "f">>
g == <<"h", "g">>
s == <<"s">>
i == <<"s", "i">>

SmallPaths == {h, u, f, g, s, i}
TheState   == s
TheInventory == i
DeniedPaths == {s}

\* Nothing stands below what is no directory.
Well(t) == \A p \in Paths : t[p] # "absent" => \A q \in Above(p) : t[q] = "dir"

SmallDisks == {t \in [Paths -> {"absent", "dir", "file", "link"}] :
  Well(t) /\ t[h] \in {"absent", "dir"} /\ t[f] \in {"absent", "file"}
  /\ t[g] \in {"absent", "file"} /\ t[s] = "dir" /\ t[i] = "file"}

\* One archive of everything, one without u and the inventory, and one with
\* a special file.
Whole == [p \in Paths |-> IF p \in {f, g, i} THEN "file" ELSE "dir"]
SmallTrees == {Whole,
               [Whole EXCEPT ![u] = "absent", ![f] = "absent", ![i] = "absent"],
               [Whole EXCEPT ![f] = "special"]}
=============================================================================
