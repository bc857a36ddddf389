----------------------------- MODULE DeviceTree -----------------------------
(***************************************************************************)
(* The device-tree wrapper of src/platform/devicetree.c as operators over *)
(* a flattened tree t.  The blob is read-only to these functions (except  *)
(* DeviceTreeLookupRegValue, which Topology models), so every function is *)
(* an operator of t and its arguments.  The tree is a record               *)
(*                                                                         *)
(*   kids[n]    the subnodes of node n, in blob order                      *)
(*   next[n]    the sibling after n in blob order, or NOTFOUND             *)
(*   name[n]    the node name fdt_get_name returns                         *)
(*   nprops[n]  the number of properties of n                              *)
(*   cpu[n]     the node a cpu-map core's "cpu" phandle names              *)
(*   reg[n]     the reg of a cpu node: its MPIDR affinity                  *)
(*   valid      fdt_check_header accepts the blob                          *)
(*                                                                         *)
(* Node n's offset in the blob is n itself; libfdt's functions are taken  *)
(* by their documented results (the first subnode, the next sibling, the  *)
(* node at a path, or a negative error).                                   *)
(***************************************************************************)
LOCAL INSTANCE Integers
LOCAL INSTANCE Sequences
LOCAL INSTANCE SequencesExt

\* -FDT_ERR_NOTFOUND, and the two results of the wrapper.
NOTFOUND == -1
kDeviceTreeSuccess == 0
kDeviceTreeFailure == 1

\* libfdt: the first subnode of n, or NOTFOUND.
fdt_first_subnode(t, n) == IF t.kids[n] = <<>> THEN NOTFOUND ELSE Head(t.kids[n])

\* libfdt: the sibling after n, or NOTFOUND after the last one.
fdt_next_subnode(t, n) == t.next[n]

\* libfdt: the node reached from the root by the names of path, or NOTFOUND
\* (also for any path when the header check fails).
RECURSIVE PathFrom(_, _, _)
PathFrom(t, n, path) ==
    IF path = <<>> THEN n
    ELSE LET i == SelectInSeq(t.kids[n], LAMBDA k : t.name[k] = Head(path))
         IN  IF i = 0 THEN NOTFOUND ELSE PathFrom(t, t.kids[n][i], Tail(path))

fdt_path_offset(t, path) == IF t.valid THEN PathFrom(t, 0, path) ELSE NOTFOUND

\* node_offset_count_children: cur = first subnode; while cur >= 0, count
\* and step to the next subnode.
RECURSIVE CountFrom(_, _)
CountFrom(t, cur) == IF cur < 0 THEN 0 ELSE 1 + CountFrom(t, fdt_next_subnode(t, cur))

node_offset_count_children(t, n) == CountFrom(t, fdt_first_subnode(t, n))

\* node_offset_count_properties: the same walk over the property list; the
\* properties themselves are not modelled, only their number.
node_offset_count_properties(t, n) == t.nprops[n]

\* DeviceTreeLookupNodeByOffset: the DTNode filled in from the offset, with
\* the counts computed once, when the node is looked up.
DeviceTreeLookupNodeByOffset(t, off) ==
    [offset |-> off, name |-> t.name[off],
     nChildren |-> node_offset_count_children(t, off),
     nProperties |-> node_offset_count_properties(t, off)]

\* DeviceTreeLookupNode: the node at path, or failure.
DeviceTreeLookupNode(t, path) ==
    LET off == fdt_path_offset(t, path) IN
    IF off < 0 THEN [res |-> kDeviceTreeFailure, node |-> NOTFOUND]
    ELSE [res |-> kDeviceTreeSuccess, node |-> DeviceTreeLookupNodeByOffset(t, off)]

\* DeviceTreeNodeFirstSubnode / NextSubnode into *dst: on NOTFOUND dst is
\* left as it was.
DeviceTreeNodeFirstSubnode(t, node, dst) ==
    LET res == fdt_first_subnode(t, node.offset) IN
    IF res = NOTFOUND THEN dst ELSE DeviceTreeLookupNodeByOffset(t, res)

DeviceTreeNodeNextSubnode(t, node, dst) ==
    LET res == fdt_next_subnode(t, node.offset) IN
    IF res = NOTFOUND THEN dst ELSE DeviceTreeLookupNodeByOffset(t, res)

\* DeviceTreeLookupRegValue on a node with a reg property: the
\* 2 * CELL_SIZE cells are bswap_32'ed in place in the blob before the
\* address and size are assembled from them, so the function gives the
\* blob's byte order the other way round from the one it found.  swapped
\* is whether the blob's cells are in the CPU's order now.
DeviceTreeLookupRegValue(swapped) == ~swapped

\* Mutant: the iterator counts one child more than the node has.
DeviceTreeIteratorInitOneMore(start) ==
    [baseNode |-> start, currentNode |-> start, count |-> start.nChildren + 1, index |-> 0]

\* DeviceTreeIteratorInit on a start node (the caller has checked that the
\* tree is initialised): count is the start node's cached nChildren.
DeviceTreeIteratorInit(start) ==
    [baseNode |-> start, currentNode |-> start, count |-> start.nChildren, index |-> 0]

\* Mutant: index is never advanced.
DeviceTreeIterateNodesNoAdvance(t, it) ==
    IF it.index >= it.count THEN [res |-> kDeviceTreeFailure, iter |-> it]
    ELSE LET cur == IF it.index + 1 = 1
                    THEN DeviceTreeNodeFirstSubnode(t, it.currentNode, it.currentNode)
                    ELSE DeviceTreeNodeNextSubnode(t, it.currentNode, it.currentNode)
         IN  [res |-> kDeviceTreeSuccess, iter |-> [it EXCEPT !.currentNode = cur]]

\* DeviceTreeIterateNodes: fail once index reaches count; otherwise advance
\* index and step currentNode to the first subnode on the first call and
\* to its next sibling after that.  The result of the step is not checked.
DeviceTreeIterateNodes(t, it) ==
    IF it.index >= it.count THEN [res |-> kDeviceTreeFailure, iter |-> it]
    ELSE LET i == it.index + 1
             cur == IF i = 1
                    THEN DeviceTreeNodeFirstSubnode(t, it.currentNode, it.currentNode)
                    ELSE DeviceTreeNodeNextSubnode(t, it.currentNode, it.currentNode)
         IN  [res |-> kDeviceTreeSuccess,
              iter |-> [it EXCEPT !.index = i, !.currentNode = cur]]
=============================================================================
