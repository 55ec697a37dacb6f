----------------------------- MODULE AtomSpace -----------------------------
(***************************************************************************)
(* The AtomSpace of ggml-opencog.c: atoms in an array, found by a search   *)
(* for their id, each with the list of the atoms it links and the reverse  *)
(* list of the links that contain it.  Truth and attention values, names   *)
(* and tensors are not modelled.  Atoms are never deleted: the header      *)
(* declares opencog_delete_atom, nothing defines it.                       *)
(***************************************************************************)
EXTENDS Naturals, Sequences, FiniteSets

CONSTANTS NodeTypes, LinkTypes,  \* what cogutil's registry calls nodes and links
          MaxAtoms               \* atom_capacity

VARIABLES atoms,         \* the array, up to atom_count
          next_atom_id

space == <<atoms, next_atom_id>>

Types == NodeTypes \cup LinkTypes

SpaceInit == atoms = <<>> /\ next_atom_id = 1

Positions == 1 .. Len(atoms)

\* The positions opencog_get_atom would find id at; it returns the first.
Found(id) == {i \in Positions : atoms[i].atom_id = id}
Exists(id) == id # 0 /\ Found(id) # {}
Index(id) == CHOOSE i \in Found(id) : \A j \in Found(id) : i <= j

Room == Len(atoms) < MaxAtoms

\* How often id occurs in s.
Times(id, s) == Cardinality({i \in DOMAIN s : s[i] = id})

\* Mutant: a link enters the reverse list of a target once, not once per use.
AppendAtomOnce(type, out, unit) ==
    /\ atoms' = Append(
          [i \in Positions |->
             [atoms[i] EXCEPT !.incoming = IF \E j \in DOMAIN out : out[j] = atoms[i].atom_id
                                           THEN Append(@, next_atom_id) ELSE @]],
          [atom_id |-> next_atom_id, type |-> type, outgoing |-> out,
           incoming |-> <<>>, cogfluence_unit_id |-> unit])
    /\ next_atom_id' = next_atom_id + 1

\* The new atom gets the next id and the next slot; the loop over outgoing
\* appends its id to the reverse list of a target each time it occurs.
AppendAtom(type, out, unit) ==
    /\ atoms' = Append(
          [i \in Positions |->
             [atoms[i] EXCEPT !.incoming =
                @ \o [j \in 1 .. Times(atoms[i].atom_id, out) |-> next_atom_id]]],
          [atom_id |-> next_atom_id, type |-> type, outgoing |-> out,
           incoming |-> <<>>, cogfluence_unit_id |-> unit])
    /\ next_atom_id' = next_atom_id + 1

\* Mutant: the bound is checked one too late.
AddNodeOneTooMany(type) == Len(atoms) <= MaxAtoms /\ AppendAtom(type, <<>>, 0)

\* opencog_add_node; with no room, or with an empty name, it returns 0 and
\* changes nothing.
AddNode(type) == Room /\ AppendAtom(type, <<>>, 0)

\* Mutant: the targets are not verified.
AddLinkUnverified(type, out) ==
    /\ Room /\ out # <<>>
    /\ AppendAtom(type, out, 0)

\* opencog_add_link; it refuses an empty list and unknown targets.
AddLink(type, out) ==
    /\ Room /\ out # <<>>
    /\ \A i \in DOMAIN out : Exists(out[i])
    /\ AppendAtom(type, out, 0)

\* opencog_from_cogfluence_unit adds a node, with the type of a link if the
\* unit is a relation or a rule; a node must have a name, a unit need not.
AtomTypeOf(unit_type) == CASE unit_type = "relation" -> "InheritanceLink"
                           [] unit_type = "rule"     -> "ImplicationLink"
                           [] OTHER                  -> "ConceptNode"

\* Mutant: the back link is the number of the atom instead of the unit's.
FromCogfluenceUnitOwnId(unit) ==
    Room /\ unit.named /\ AppendAtom(AtomTypeOf(unit.type), <<>>, next_atom_id)

FromCogfluenceUnit(unit) ==
    Room /\ unit.named /\ AppendAtom(AtomTypeOf(unit.type), <<>>, unit.atomspace_id)

-----------------------------------------------------------------------------

SpaceTypeOK ==
    /\ Len(atoms) <= MaxAtoms
    /\ next_atom_id \in Nat \ {0}
    /\ \A i \in Positions :
          /\ atoms[i].type \in Types
          /\ atoms[i].outgoing \in Seq(Nat) /\ atoms[i].incoming \in Seq(Nat)
          /\ atoms[i].atom_id \in Nat /\ atoms[i].cogfluence_unit_id \in Nat

\* The reverse lists, kept by add_link only, mirror the links: b occurs in the
\* incoming list of a as often as a occurs in the outgoing list of b
\* (opencog_spread_attention divides by their lengths).
IncomingMirrors == \A i, j \in Positions :
    Times(atoms[j].atom_id, atoms[i].incoming)
        = Times(atoms[i].atom_id, atoms[j].outgoing)

\* The atoms without the array: what get_atom finds for each id.
AtomGraph == [id \in Positions |-> LET a == atoms[Index(id)] IN
                                    [type |-> a.type, outgoing |-> a.outgoing]]

\* The AtomSpace implements a growing hypergraph in which an atom's id is its
\* number: ids are never reused, links point backwards only, so that no chain
\* of links is circular, and no operation changes an atom that exists.
Graph == INSTANCE Hypergraph WITH graph <- AtomGraph
ImplementsHypergraph == Graph!Spec

=============================================================================
