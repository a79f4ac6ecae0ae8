------------------------------ MODULE MCEngine ------------------------------
(* Documents of a root and three elements, in every shape, and commands    *)
(* with the packaged generic-XML profiles or a variation of them.          *)
(* References number the nodes in document order, as the adapters do.      *)
EXTENDS Engine

MCNodes == 1..4

Shapes ==
  { <<NoNode, 1, a, b>> : <<a, b>> \in {<<1, 1>>, <<1, 3>>, <<2, 1>>, <<2, 2>>, <<2, 3>>} }

Node(type, pid, text) == [type |-> type, pid |-> pid, label |-> NoValue, text |-> text]

Element(pid, text) == Node("section", pid, text)

Tree(nodes, parent, node) ==
  [parent |-> parent,
   kids   |-> [n \in nodes |-> SelectSeq([i \in nodes |-> i], LAMBDA m : parent[m] = n)],
   node   |-> node]

Trees(root, elements) ==
  { Tree(MCNodes, parent, <<root, a, b, c>>) : parent \in Shapes, a, b, c \in elements }

(* The root's type is its own, as a document element's usually is. *)
Documents(elements) == Trees(Node("doc", NoValue, 0), elements)

-----------------------------------------------------------------------------
(* Identified, changed (id 1) and repeated elements. *)
MCSourceTrees == Documents({Element(1, 1), Element(2, 1), Element(NoValue, 1)})
MCTargetTrees == Documents({Element(1, 2), Element(2, 1), Element(NoValue, 1)})

(* One identified element, the others repeated. *)
MCRepeats == Documents({Element(1, 1), Element(NoValue, 1)})
MCChanged == Documents({Element(1, 2), Element(NoValue, 1)})

(* A document whose elements, the root among them, are identified and all  *)
(* of one type, and the same wrapped in a new root, which moves the        *)
(* numbers up.                                                             *)
Plain == Tree(MCNodes, <<NoNode, 1, 1, 1>>, [n \in MCNodes |-> Element(n, 1)])

Wrapped ==
  Tree(1..5, <<NoNode>> \o [n \in MCNodes |-> IF n = 1 THEN 1 ELSE Plain.parent[n] + 1],
       <<Element(NoValue, 2)>> \o Plain.node)

MCPlain   == {Plain}
MCWrapped == {Wrapped}

-----------------------------------------------------------------------------
Unlimited == 1000

Packaged ==
  [nodeLimit |-> Unlimited, depthLimit |-> Unlimited, incomplete |-> FALSE,
   enabled |-> OperationTypes, moveThreshold |-> 750000,
   presence |-> "SUPPRESS_AMBIGUOUS_NODES", unordered |-> {},
   suppression |-> [type \in {"MOVE", "INSERT", "DELETE", "REORDER"} |->
                      IF type = "MOVE" THEN 700000 ELSE 600000]]

MCPackaged == {Packaged}

MCVaried ==
  { [Packaged EXCEPT !.presence = "EMIT_ALL", !.unordered = {"doc"}],
    [Packaged EXCEPT !.presence = "SUPPRESS_UNRESOLVED_REGIONS", !.moveThreshold = 0],
    [Packaged EXCEPT !.enabled = {"MATCH", "UPDATE", "MOVE"},
                     !.suppression = [type \in {"MOVE"} |-> Scale],
                     !.unordered = {"section"}],
    [Packaged EXCEPT !.enabled = OperationTypes \ {"MOVE"},
                     !.suppression = [type \in {"INSERT", "DELETE"} |-> 0]],
    [Packaged EXCEPT !.nodeLimit = 7],
    [Packaged EXCEPT !.depthLimit = 3, !.incomplete = TRUE] }
=============================================================================
