-------------------------- MODULE AtomSpaceProofs --------------------------
(***************************************************************************)
(* What one call does to an AtomSpace of any capacity: an atom's id is its *)
(* number, links point backwards, and the reverse lists mirror them.       *)
(***************************************************************************)
EXTENDS AtomSpace, FiniteSetTheorems, SequenceTheorems, TLAPS

AtomRecords == [atom_id : Nat, type : Types, outgoing : Seq(Nat), incoming : Seq(Nat),
                cogfluence_unit_id : Nat]

\* The inductive invariant.  Without BackwardLinks a new atom could be found in
\* a list that was made before it.
AtomsTyped == atoms \in Seq(AtomRecords) /\ Len(atoms) <= MaxAtoms
IdsArePlaces == /\ next_atom_id = Len(atoms) + 1
                /\ \A i \in Positions : atoms[i].atom_id = i
BackwardLinks == \A i \in Positions : /\ atoms[i].outgoing \in Seq(1 .. i - 1)
                                      /\ atoms[i].incoming \in Seq(Positions)
SpaceInv == AtomsTyped /\ IdsArePlaces /\ BackwardLinks /\ IncomingMirrors

-----------------------------------------------------------------------------
(* Times *)

\* The places of id in s are as many as Times says.
LEMMA TimesFinite ==
    ASSUME NEW S, NEW s \in Seq(S), NEW id
    PROVE  Times(id, s) \in Nat /\ IsFiniteSet({i \in DOMAIN s : s[i] = id})
<1>1. DOMAIN s = 1 .. Len(s) /\ Len(s) \in Nat
  BY LenProperties
<1>2. IsFiniteSet(1 .. Len(s))
  BY <1>1, FS_Interval
<1>3. IsFiniteSet({i \in DOMAIN s : s[i] = id})
  BY <1>1, <1>2, FS_Subset
<1> QED  BY <1>3, FS_CardinalityType DEF Times

LEMMA TimesNat ==
    ASSUME NEW S, NEW s \in Seq(S), NEW id
    PROVE  Times(id, s) \in Nat
BY TimesFinite

\* What does not occur occurs no times.
LEMMA TimesNone ==
    ASSUME NEW S, NEW s \in Seq(S), NEW id, id \notin S
    PROVE  Times(id, s) = 0
<1>1. \A i \in DOMAIN s : s[i] # id
  BY LenProperties, ElementOfSeq
<1>2. {i \in DOMAIN s : s[i] = id} = {}
  BY <1>1
<1> QED  BY <1>2, FS_EmptySet DEF Times

\* The m numbers after n.
LEMMA IntervalAfter ==
    ASSUME NEW n \in Nat, NEW m \in Nat
    PROVE  IsFiniteSet(n + 1 .. n + m) /\ Cardinality(n + 1 .. n + m) = m
<1>1. ASSUME NEW a \in Int, NEW b \in Int
      PROVE  IsFiniteSet(a .. b) /\ Cardinality(a .. b) = IF a > b THEN 0 ELSE b - a + 1
  BY FS_Interval
<1>2. n + 1 \in Int /\ n + m \in Int
  OBVIOUS
<1>3. /\ IsFiniteSet(n + 1 .. n + m)
      /\ Cardinality(n + 1 .. n + m) = IF n + 1 > n + m THEN 0 ELSE n + m - (n + 1) + 1
  BY <1>1, <1>2
<1> QED  BY <1>3

Copies(m, y) == [j \in 1 .. m |-> y]

\* m copies of y at the end of s count for y only.
LEMMA TimesCopies ==
    ASSUME NEW S, NEW s \in Seq(S), NEW m \in Nat, NEW y \in S, NEW x
    PROVE  /\ s \o Copies(m, y) \in Seq(S)
           /\ x = y => Times(x, s \o Copies(m, y)) = Times(x, s) + m
           /\ x # y => Times(x, s \o Copies(m, y)) = Times(x, s)
<1> DEFINE c == Copies(m, y)
           t == s \o c
           old == {i \in DOMAIN s : s[i] = x}
           new == {i \in Len(s) + 1 .. Len(s) + m : x = y}
<1>1. c \in Seq(S) /\ Len(c) = m /\ \A i \in 1 .. m : c[i] = y
  BY DEF Copies
<1>2. Len(s) \in Nat /\ DOMAIN s = 1 .. Len(s)
  BY LenProperties
<1>3. /\ t \in Seq(S) /\ Len(t) = Len(s) + m
      /\ \A i \in 1 .. Len(s) + m : t[i] = IF i <= Len(s) THEN s[i] ELSE c[i - Len(s)]
  BY <1>1, <1>2, ConcatProperties
<1>4. DOMAIN t = 1 .. Len(s) + m
  BY <1>3, LenProperties
<1>5. \A i \in Len(s) + 1 .. Len(s) + m : t[i] = y
  <2> HIDE DEF t, c
  <2> QED  BY <1>1, <1>2, <1>3
<1>6. {i \in DOMAIN t : t[i] = x} = old \cup new /\ old \cap new = {}
  <2> HIDE DEF t, c
  <2> QED  BY <1>2, <1>3, <1>4, <1>5
<1>7. IsFiniteSet(old) /\ Times(x, s) = Cardinality(old) /\ Times(x, s) \in Nat
  BY TimesFinite DEF Times
<1>8. IsFiniteSet(new) /\ Cardinality(new) = IF x = y THEN m ELSE 0
  <2>1. CASE x = y
    <3>1. new = Len(s) + 1 .. Len(s) + m
      BY <2>1
    <3> HIDE DEF new
    <3> QED  BY <1>2, <2>1, <3>1, IntervalAfter
  <2>2. CASE x # y
    BY <2>2, FS_EmptySet
  <2> QED  BY <2>1, <2>2
<1>9. Cardinality(old \cup new) = Cardinality(old) + Cardinality(new) - Cardinality({})
  <2> HIDE DEF old, new
  <2>1. Cardinality(old \cup new)
          = Cardinality(old) + Cardinality(new) - Cardinality(old \cap new)
    BY <1>7, <1>8, FS_Union
  <2> QED  BY <1>6, <2>1
<1>10. Times(x, t) = Cardinality(old \cup new)
  BY <1>6 DEF Times
<1>11. Times(x, t) = Times(x, s) + Cardinality(new)
  <2> HIDE DEF t, old, new
  <2> QED  BY <1>7, <1>8, <1>9, <1>10, FS_EmptySet
<1> QED  BY <1>3, <1>7, <1>8, <1>11

LEMMA TimesCopied ==
    ASSUME NEW S, NEW s \in Seq(S), NEW m \in Nat, NEW y \in S
    PROVE  Times(y, s \o Copies(m, y)) = Times(y, s) + m
<1>1. y = y => Times(y, s \o Copies(m, y)) = Times(y, s) + m
  BY TimesCopies
<1> QED  BY <1>1

LEMMA TimesOther ==
    ASSUME NEW S, NEW s \in Seq(S), NEW m \in Nat, NEW y \in S, NEW x, x # y
    PROVE  Times(x, s \o Copies(m, y)) = Times(x, s)
BY TimesCopies

-----------------------------------------------------------------------------
(* One new atom *)

\* The array after AppendAtom.
LEMMA AppendAtomShape ==
    ASSUME SpaceInv, Room, MaxAtoms \in Nat,
           NEW type \in Types, NEW out \in Seq(Positions), NEW unit \in Nat,
           AppendAtom(type, out, unit)
    PROVE  /\ Len(atoms) \in Nat
           /\ Len(atoms') = Len(atoms) + 1
           /\ next_atom_id' = Len(atoms') + 1
           /\ atoms' \in Seq(AtomRecords)
           /\ \A i \in Positions :
                 /\ atoms'[i].atom_id = i
                 /\ atoms'[i].type = atoms[i].type
                 /\ atoms'[i].outgoing = atoms[i].outgoing
                 /\ atoms'[i].cogfluence_unit_id = atoms[i].cogfluence_unit_id
                 /\ atoms'[i].incoming = atoms[i].incoming
                                           \o Copies(Times(i, out), Len(atoms) + 1)
           /\ atoms'[Len(atoms) + 1].atom_id = Len(atoms) + 1
           /\ atoms'[Len(atoms) + 1].type = type
           /\ atoms'[Len(atoms) + 1].outgoing = out
           /\ atoms'[Len(atoms) + 1].incoming = <<>>
           /\ atoms'[Len(atoms) + 1].cogfluence_unit_id = unit
<1> DEFINE n == Len(atoms) + 1
           kept == [i \in Positions |->
                      [atoms[i] EXCEPT !.incoming =
                         @ \o Copies(Times(atoms[i].atom_id, out), next_atom_id)]]
           new == [atom_id |-> next_atom_id, type |-> type, outgoing |-> out,
                   incoming |-> <<>>, cogfluence_unit_id |-> unit]
<1>1. atoms \in Seq(AtomRecords) /\ Len(atoms) \in Nat /\ next_atom_id = n
  BY LenProperties DEF SpaceInv, AtomsTyped, IdsArePlaces
<1>2. \A i \in Positions : atoms[i] \in AtomRecords /\ atoms[i].atom_id = i
  BY <1>1, ElementOfSeq DEF SpaceInv, IdsArePlaces, Positions
<1>3. out \in Seq(Nat)
  BY SeqMonotonic DEF Positions
<1>4. new \in AtomRecords
  BY <1>1, <1>3 DEF AtomRecords
<1>5. ASSUME NEW i \in Positions
      PROVE  /\ kept[i] \in AtomRecords
             /\ kept[i] = [atoms[i] EXCEPT !.incoming =
                             @ \o Copies(Times(i, out), n)]
  <2>1. atoms[i].incoming \in Seq(Nat) /\ Times(i, out) \in Nat /\ n \in Nat
    BY <1>1, <1>2, TimesNat DEF AtomRecords
  <2>2. atoms[i].incoming \o Copies(Times(i, out), n) \in Seq(Nat)
    BY <2>1, TimesCopies
  <2>3. kept[i] = [atoms[i] EXCEPT !.incoming = @ \o Copies(Times(i, out), n)]
    BY <1>1, <1>2
  <2> QED  BY <1>2, <2>2, <2>3 DEF AtomRecords
<1>6. kept \in Seq(AtomRecords) /\ Len(kept) = Len(atoms)
  <2>1. kept \in [1 .. Len(atoms) -> AtomRecords]
    BY <1>5 DEF Positions
  <2> HIDE DEF kept
  <2> QED  BY <1>1, <2>1
<1>7. atoms' = Append(kept, new) /\ next_atom_id' = next_atom_id + 1
  BY DEF AppendAtom, Copies
<1>8. /\ atoms' \in Seq(AtomRecords) /\ Len(atoms') = n
      /\ \A i \in 1 .. Len(atoms) : atoms'[i] = kept[i]
      /\ atoms'[n] = new
  <2> HIDE DEF kept, new
  <2> QED  BY <1>4, <1>6, <1>7, AppendProperties
<1>9. ASSUME NEW i \in Positions
      PROVE  /\ atoms'[i].atom_id = i
             /\ atoms'[i].type = atoms[i].type
             /\ atoms'[i].outgoing = atoms[i].outgoing
             /\ atoms'[i].cogfluence_unit_id = atoms[i].cogfluence_unit_id
             /\ atoms'[i].incoming = atoms[i].incoming \o Copies(Times(i, out), n)
  <2>1. atoms'[i] = [atoms[i] EXCEPT !.incoming = @ \o Copies(Times(i, out), n)]
    BY <1>5, <1>8 DEF Positions
  <2> QED  BY <1>2, <2>1 DEF AtomRecords
<1>10. /\ atoms'[n].atom_id = n /\ atoms'[n].type = type /\ atoms'[n].outgoing = out
       /\ atoms'[n].incoming = <<>> /\ atoms'[n].cogfluence_unit_id = unit
  BY <1>1, <1>8
<1>11. next_atom_id' = Len(atoms') + 1
  BY <1>1, <1>7, <1>8
<1> HIDE DEF kept, new
<1> QED  BY <1>1, <1>8, <1>9, <1>10, <1>11

LEMMA AppendAtomInv ==
    ASSUME SpaceInv, Room, MaxAtoms \in Nat,
           NEW type \in Types, NEW out \in Seq(Positions), NEW unit \in Nat,
           AppendAtom(type, out, unit)
    PROVE  SpaceInv'
<1> DEFINE n == Len(atoms) + 1
<1>1. /\ n \in Nat \ {0} /\ Positions = 1 .. n - 1 /\ Positions' = 1 .. n
      /\ Len(atoms') = n /\ atoms' \in Seq(AtomRecords) /\ next_atom_id' = n + 1
      /\ Positions' = Positions \cup {n}
  <2>1. /\ Len(atoms) \in Nat /\ Len(atoms') = Len(atoms) + 1
        /\ next_atom_id' = Len(atoms') + 1 /\ atoms' \in Seq(AtomRecords)
    BY AppendAtomShape
  <2> QED  BY <2>1 DEF Positions
<1>2. /\ atoms'[n].atom_id = n /\ atoms'[n].type = type /\ atoms'[n].outgoing = out
      /\ atoms'[n].incoming = <<>> /\ atoms'[n].cogfluence_unit_id = unit
  BY AppendAtomShape
<1>3. \A i \in Positions :
         /\ atoms'[i].atom_id = i
         /\ atoms'[i].outgoing = atoms[i].outgoing
         /\ atoms'[i].incoming = atoms[i].incoming \o Copies(Times(i, out), n)
  BY AppendAtomShape
<1> HIDE DEF n
<1>4. AtomsTyped'
  <2>1. Len(atoms) < MaxAtoms /\ Len(atoms) \in Nat
    BY AppendAtomShape DEF Room
  <2> QED  BY <1>1, <2>1 DEF AtomsTyped, n
<1>5. IdsArePlaces'
  BY <1>1, <1>2, <1>3 DEF IdsArePlaces
<1>6. \A i \in Positions : /\ atoms[i].outgoing \in Seq(1 .. i - 1)
                           /\ atoms[i].incoming \in Seq(1 .. n - 1)
  BY <1>1 DEF SpaceInv, BackwardLinks
<1>7. \A i \in Positions : Times(i, out) \in Nat
  BY TimesNat
<1>8. BackwardLinks'
  <2>1. ASSUME NEW i \in Positions
        PROVE  /\ atoms'[i].outgoing \in Seq(1 .. i - 1)
               /\ atoms'[i].incoming \in Seq(1 .. n)
    <3>1. 1 .. n - 1 \subseteq 1 .. n /\ n \in 1 .. n
      BY <1>1
    <3>2. atoms[i].incoming \in Seq(1 .. n)
      BY <1>6, <3>1, SeqMonotonic
    <3>3. atoms[i].incoming \o Copies(Times(i, out), n) \in Seq(1 .. n)
      BY <1>7, <3>1, <3>2, TimesCopies
    <3> QED  BY <1>3, <1>6, <3>3
  <2>2. atoms'[n].outgoing \in Seq(1 .. n - 1) /\ atoms'[n].incoming \in Seq(1 .. n)
    BY <1>1, <1>2, EmptySeq
  <2> QED  BY <1>1, <2>1, <2>2 DEF BackwardLinks
<1>9. IncomingMirrors'
  <2>1. ASSUME NEW i \in Positions, NEW x \in Nat
        PROVE  /\ x = n => Times(x, atoms'[i].incoming)
                              = Times(x, atoms[i].incoming) + Times(i, out)
               /\ x # n => Times(x, atoms'[i].incoming) = Times(x, atoms[i].incoming)
    <3>1. atoms[i].incoming \in Seq(1 .. n) /\ n \in 1 .. n
      BY <1>1, <1>6, SeqMonotonic
    <3>2. Times(i, out) \in Nat
      BY <1>7
    <3>3. atoms'[i].incoming = atoms[i].incoming \o Copies(Times(i, out), n)
      BY <1>3
    <3>4. Times(n, atoms[i].incoming \o Copies(Times(i, out), n))
            = Times(n, atoms[i].incoming) + Times(i, out)
      BY <3>1, <3>2, TimesCopied
    <3>5. x # n => Times(x, atoms[i].incoming \o Copies(Times(i, out), n))
                     = Times(x, atoms[i].incoming)
      BY <3>1, <3>2, TimesOther
    <3> QED  BY <3>3, <3>4, <3>5
  <2>2. ASSUME NEW i \in Positions, NEW j \in Positions
        PROVE  Times(j, atoms'[i].incoming) = Times(i, atoms'[j].outgoing)
    <3>1. Times(j, atoms[i].incoming) = Times(i, atoms[j].outgoing)
      BY DEF SpaceInv, IncomingMirrors, IdsArePlaces
    <3>2. j # n
      BY <1>1
    <3> QED  BY <1>1, <1>3, <2>1, <3>1, <3>2
  <2>3. ASSUME NEW i \in Positions
        PROVE  Times(n, atoms'[i].incoming) = Times(i, atoms'[n].outgoing)
    <3>1. n \notin 1 .. n - 1
      BY <1>1
    <3>2. Times(n, atoms[i].incoming) = 0
      BY <1>6, <3>1, TimesNone
    <3>3. Times(n, atoms'[i].incoming) = Times(n, atoms[i].incoming) + Times(i, out)
      BY <1>1, <2>1
    <3> QED  BY <1>2, <1>7, <3>2, <3>3
  <2>4. ASSUME NEW j \in Positions'
        PROVE  Times(j, atoms'[n].incoming) = Times(n, atoms'[j].outgoing)
    <3>1. Times(j, <<>>) = 0
      BY FS_EmptySet DEF Times
    <3>2. CASE j \in Positions
      <4>1. n \notin 1 .. j - 1
        BY <1>1, <3>2
      <4>2. atoms'[j].outgoing = atoms[j].outgoing /\ atoms[j].outgoing \in Seq(1 .. j - 1)
        BY <1>3, <1>6, <3>2
      <4>3. Times(n, atoms'[j].outgoing) = 0
        BY <4>1, <4>2, TimesNone
      <4> QED  BY <1>2, <3>1, <4>3
    <3>3. CASE j = n
      <4>1. n \notin Positions
        BY <1>1
      <4> QED  BY <1>2, <3>1, <3>3, <4>1, TimesNone
    <3> QED  BY <1>1, <3>2, <3>3
  <2>5. \A i \in Positions' : atoms'[i].atom_id = i
    BY <1>5 DEF IdsArePlaces
  <2> QED  BY <1>1, <2>2, <2>3, <2>4, <2>5 DEF IncomingMirrors
<1> QED  BY <1>4, <1>5, <1>8, <1>9 DEF SpaceInv

-----------------------------------------------------------------------------
(* The hypergraph *)

\* An id is found at its own place.
LEMMA IndexIs == ASSUME SpaceInv, NEW i \in Positions PROVE Index(i) = i
<1>1. Found(i) = {i}
  BY DEF SpaceInv, IdsArePlaces, Found
<1>2. Positions \subseteq Nat
  BY DEF Positions
<1>3. \A j \in Found(i) : i <= j
  BY <1>1, <1>2
<1> QED  BY <1>1, <1>3 DEF Index

\* The hypergraph has the types and targets of the array.
GraphShape ==
    /\ Len(AtomGraph) = Len(atoms) /\ Len(atoms) \in Nat
    /\ AtomGraph \in Seq([type : Types, outgoing : Seq(Nat)])
    /\ \A i \in Positions :
          AtomGraph[i] = [type |-> atoms[i].type, outgoing |-> atoms[i].outgoing]

LEMMA GraphIs == SpaceInv => GraphShape
<1> SUFFICES ASSUME SpaceInv PROVE GraphShape
  OBVIOUS
<1>1. atoms \in Seq(AtomRecords) /\ Len(atoms) \in Nat
  BY LenProperties DEF SpaceInv, AtomsTyped
<1>2. \A i \in Positions :
         AtomGraph[i] = [type |-> atoms[i].type, outgoing |-> atoms[i].outgoing]
  BY IndexIs DEF AtomGraph
<1>3. \A i \in Positions : atoms[i].type \in Types /\ atoms[i].outgoing \in Seq(Nat)
  <2>1. \A i \in Positions : atoms[i] \in AtomRecords
    BY <1>1, ElementOfSeq DEF Positions
  <2> QED  BY <2>1 DEF AtomRecords
<1>4. AtomGraph \in [1 .. Len(atoms) -> [type : Types, outgoing : Seq(Nat)]]
  <2>1. DOMAIN AtomGraph = Positions /\ AtomGraph = [i \in Positions |-> AtomGraph[i]]
    BY DEF AtomGraph
  <2> QED  BY <1>2, <1>3, <2>1 DEF Positions
<1>5. /\ AtomGraph \in Seq([type : Types, outgoing : Seq(Nat)])
      /\ Len(AtomGraph) = Len(atoms)
  <2>1. ASSUME NEW S, NEW n \in Nat, NEW f \in [1 .. n -> S] PROVE f \in Seq(S) /\ Len(f) = n
    OBVIOUS
  <2> QED  BY <1>1, <1>4, <2>1
<1> QED  BY <1>1, <1>2, <1>5 DEF GraphShape

LEMMA GraphIsStill == (SpaceInv => GraphShape)'
BY GraphIs, PTL

LEMMA AppendAtomGraph ==
    ASSUME SpaceInv, Room, MaxAtoms \in Nat,
           NEW type \in Types, NEW out \in Seq(Positions), NEW unit \in Nat,
           AppendAtom(type, out, unit)
    PROVE  Graph!Next
<1> DEFINE n == Len(atoms) + 1
           R == [type : Types, outgoing : Seq(Nat)]
           new == [type |-> type, outgoing |-> out]
<1>1. SpaceInv' /\ Len(atoms) \in Nat /\ Len(atoms') = n
  BY AppendAtomInv, AppendAtomShape
<1>2. Positions = 1 .. Len(atoms) /\ Positions' = 1 .. n
  BY <1>1 DEF Positions
<1>3. /\ AtomGraph \in Seq(R) /\ Len(AtomGraph) = Len(atoms)
      /\ \A i \in Positions :
            AtomGraph[i] = [type |-> atoms[i].type, outgoing |-> atoms[i].outgoing]
  BY GraphIs DEF GraphShape
<1>4. /\ AtomGraph' \in Seq(R) /\ Len(AtomGraph') = n
      /\ \A i \in Positions' :
            AtomGraph'[i] = [type |-> atoms'[i].type, outgoing |-> atoms'[i].outgoing]
  BY <1>1, GraphIsStill DEF GraphShape
<1>5. /\ \A i \in Positions : AtomGraph'[i] = AtomGraph[i]
      /\ AtomGraph'[n] = new
  <2>1. \A i \in Positions : /\ atoms'[i].type = atoms[i].type
                             /\ atoms'[i].outgoing = atoms[i].outgoing
    BY AppendAtomShape
  <2>2. atoms'[n].type = type /\ atoms'[n].outgoing = out
    BY AppendAtomShape
  <2>3. Positions \subseteq Positions' /\ n \in Positions'
    BY <1>1, <1>2
  <2> QED  BY <1>3, <1>4, <2>1, <2>2, <2>3
<1>6. new \in R
  BY SeqMonotonic DEF Positions
<1>7. AtomGraph' = Append(AtomGraph, new)
  <2>1. /\ Append(AtomGraph, new) \in Seq(R) /\ Len(Append(AtomGraph, new)) = n
        /\ \A i \in 1 .. Len(AtomGraph) : Append(AtomGraph, new)[i] = AtomGraph[i]
        /\ Append(AtomGraph, new)[n] = new
    <3> HIDE DEF R, new
    <3> QED  BY <1>3, <1>6, AppendProperties
  <2>2. \A i \in 1 .. n : AtomGraph'[i] = Append(AtomGraph, new)[i]
    <3> HIDE DEF R, new
    <3> QED  BY <1>1, <1>2, <1>3, <1>5, <2>1
  <2> HIDE DEF R, new
  <2> QED  BY <1>4, <2>1, <2>2, SeqEqual
<1>8. new \in Graph!Atom(Len(AtomGraph))
  BY <1>2, <1>3 DEF Graph!Atom
<1> HIDE DEF new, R
<1> QED  BY <1>1, <1>3, <1>4, <1>5, <1>7, <1>8 DEF Graph!Next, Graph!Add

=============================================================================
