----------------------------- MODULE MCTopology -----------------------------
(***************************************************************************)
(* Topology for TLC: device trees of the shape QEMU's virt machine gives,  *)
(* with one or two clusters of one or two cores under /cpus/cpu-map, the  *)
(* cpu@N nodes beside cpu-map (before or after it), a /memory node, and  *)
(* the boot CPU any core of the first cluster (MPIDR Aff1 = 0, Aff0 = its *)
(* index; the RES1 bit 31, which MPIDR_TO_CPU_NUM masks off, is beyond    *)
(* TLC's integers and left out).  Two malformed blobs join them: one the  *)
(* header check rejects, and one whose /cpus has no cpu-map.  The arrays  *)
(* are scaled from 16 cpus and 4 clusters to 3 and 2, the most these      *)
(* trees fill.                                                             *)
(***************************************************************************)
EXTENDS Topology

Shapes == {<<1>>, <<2>>, <<1, 1>>, <<2, 1>>}

\* The sibling links of a tree with the given kids: the node after n in its
\* parent's list, NOTFOUND for a last child and for the root.
SiblingLinks(kids) ==
    [n \in DOMAIN kids |->
        IF \E p \in DOMAIN kids : \E i \in 1 .. (Len(kids[p]) - 1) : kids[p][i] = n
        THEN LET p == CHOOSE q \in DOMAIN kids :
                          \E i \in 1 .. (Len(kids[q]) - 1) : kids[q][i] = n
                 i == CHOOSE k \in 1 .. (Len(kids[p]) - 1) : kids[p][k] = n
             IN  kids[p][i + 1]
        ELSE DT!NOTFOUND]

\* Node numbers: 0 the root, 1 /cpus, 2 /memory, 3 cpu-map, then the
\* clusters, the cores and the cpu@N nodes.  Core k's "cpu" phandle names
\* the k-th cpu node, whose reg is its affinity: cluster in Aff1, index
\* within the cluster in Aff0.
MkTree(shape, mapFirst) ==
    LET nCl == Len(shape)
        tot == IF nCl = 1 THEN shape[1] ELSE shape[1] + shape[2]
        Before(i) == IF i = 1 THEN 0 ELSE shape[1]
        cpuNodes == [k \in 1 .. tot |-> 3 + nCl + tot + k]
        last == 3 + nCl + 2 * tot
        kids == [n \in 0 .. last |->
                   CASE n = 0 -> <<1, 2>>
                     [] n = 1 -> IF mapFirst THEN <<3>> \o cpuNodes ELSE cpuNodes \o <<3>>
                     [] n = 3 -> [i \in 1 .. nCl |-> 3 + i]
                     [] n \in 4 .. (3 + nCl) ->
                          [j \in 1 .. shape[n - 3] |-> 3 + nCl + Before(n - 3) + j]
                     [] OTHER -> <<>>]
    IN  [kids |-> kids,
         next |-> SiblingLinks(kids),
         name |-> [n \in 0 .. last |->
                     CASE n = 0 -> "" [] n = 1 -> "cpus" [] n = 2 -> "memory"
                       [] n = 3 -> "cpu-map" [] n <= 3 + nCl -> "cluster"
                       [] n <= 3 + nCl + tot -> "core" [] OTHER -> "cpu"],
         nprops |-> [n \in 0 .. last |-> IF n = 2 THEN 2 ELSE 1],
         cpu |-> [n \in 0 .. last |-> IF n \in 4 + nCl .. 3 + nCl + tot THEN n + tot ELSE 0],
         reg |-> [n \in 0 .. last |->
                    IF n > 3 + nCl + tot
                    THEN LET k == n - (3 + nCl + tot)
                             c == IF k <= shape[1] THEN 0 ELSE 1
                         IN  c * 2^8 + (k - 1 - c * shape[1])
                    ELSE 0],
         valid |-> TRUE]

\* A one-core tree the header check rejects, and the same tree with the
\* cpu-map dropped from /cpus (leaving its cpu@0 node).
BadBlob == [MkTree(<<1>>, TRUE) EXCEPT !.valid = FALSE]
NoCpuMap == [MkTree(<<1>>, TRUE) EXCEPT !.kids[1] = <<6>>]

MCMachines ==
    UNION {{[tree |-> MkTree(s, f), mpidr |-> b] : f \in BOOLEAN, b \in 0 .. (s[1] - 1)}
           : s \in Shapes}
    \cup {[tree |-> BadBlob, mpidr |-> 0], [tree |-> NoCpuMap, mpidr |-> 0]}
=============================================================================
