----------------------------- MODULE StepAssembly -----------------------------
(***************************************************************************)
(* How the STEP reader places the solids of a file: not at all, along the  *)
(* relationships between shape representations (form A), by mapped items   *)
(* (form B), or it declines the file.                                      *)
(*                                                                         *)
(* A placement is the sequence of the operators that it composes, the      *)
(* outermost first.  Reading one operator, or the geometry of one solid,   *)
(* is left out: Class and a file's unmappable solids say how it ends.      *)
(***************************************************************************)
EXTENDS Integers, FiniteSets, SequencesExt

CONSTANTS
  Files,   \* the inputs: records of
           \*   items   the solids in the list of each representation
           \*   rels    a sequence of relationships [child, parent, op, cdsr]:
           \*           op is "none" without an operator, and cdsr says that a
           \*           CONTEXT_DEPENDENT_SHAPE_REPRESENTATION points at it
           \*   mapped  the MAPPED_ITEMs by ascending id, [rep, op]
           \*   loneMap a REPRESENTATION_MAP that no MAPPED_ITEM uses
           \*   usage   a NEXT_ASSEMBLY_USAGE_OCCURRENCE
           \*   unmappable  the solids whose geometry is out of the slice
  Class    \* of each operator: "conformal", "mirror" or "bad"

(* A file is finite: so many representations, solids and relationships.     *)
ASSUME FilesAssumption ==
  \A f \in Files :
    /\ IsFiniteSet(DOMAIN f.items) /\ \A r \in DOMAIN f.items : IsFiniteSet(f.items[r])
    /\ IsFiniteSet(DOMAIN f.rels)

VARIABLES
  file,
  stage,   \* "dispose", "edges", "place", "gate", "mapped", "flat", "done"
  todo,    \* the relationships that the present loop has not read
  edges,   \* the parent edges: relationships without their ids
  placed,  \* the placed solids of form A, or the instances of form B
  status   \* "none", "ok" or "declined"

stepVars == <<file, stage, todo, edges, placed, status>>

StepInit ==
  /\ file \in Files
  /\ stage = "dispose" /\ todo = {} /\ edges = {} /\ placed = <<>> /\ status = "none"

Reps  == DOMAIN file.items
Breps == UNION {file.items[r] : r \in Reps}
Carriers == {i \in DOMAIN file.rels : file.rels[i].cdsr}

(* The one solid of a representation: none if there are two.                *)
BrepOf(r) == IF r \in Reps /\ Cardinality(file.items[r]) = 1 THEN file.items[r] ELSE {}

Mirrored(ops) == Len(SelectSeq(ops, LAMBDA o : Class[o] = "mirror")) % 2 = 1
Solid(b, ops) == [brep |-> b, at |-> ops, mirrored |-> Mirrored(ops)]

Goto(next) == stage' = next /\ UNCHANGED status
Decline == stage' = "done" /\ status' = "declined"
Finish(solids) ==
  IF {solids[i].brep : i \in DOMAIN solids} \cap file.unmappable = {}
  THEN stage' = "done" /\ status' = "ok" /\ placed' = solids
  ELSE Decline /\ placed' = <<>>

------------------------------------------------------------------------------
(* assemblyDisposition: which way the file takes.                           *)

Disposition ==
  LET placing == \E i \in Carriers : BrepOf(file.rels[i].child) # {}
      mapping == file.loneMap \/ file.mapped # <<>>
      mapsOne == \E i \in DOMAIN file.mapped : BrepOf(file.mapped[i].rep) # {}
  IN CASE placing /\ mapping -> "decline"
       [] placing /\ ~mapping -> "edges"
       [] ~placing /\ mapsOne -> "mapped"
       [] ~placing /\ ~mapsOne /\ (mapping \/ file.usage) -> "decline"
       [] OTHER -> "flat"

Disposes ==
  /\ stage = "dispose"
  /\ IF Disposition = "decline" THEN Decline ELSE Goto(Disposition)
  /\ todo' = Carriers
  /\ UNCHANGED <<file, edges, placed>>

(* Every solid where its own coordinates are.                               *)
ImportsFlat ==
  /\ stage = "flat"
  /\ IF Breps = {} THEN Decline /\ UNCHANGED placed
     ELSE Finish([i \in 1..Cardinality(Breps) |->
            Solid(CHOOSE b \in Breps : Cardinality({c \in Breps : c < b}) = i - 1, <<>>)])
  /\ UNCHANGED <<file, todo, edges>>

------------------------------------------------------------------------------
(* parentEdges: over the records in the order of a hash table, one edge for *)
(* each child, or none for the file if a child has two that differ.         *)

ParentEdge(i) == [child |-> file.rels[i].child, parent |-> file.rels[i].parent,
            op |-> file.rels[i].op]

(* Mutants: the edge met first stands; a repeated edge is a conflict.       *)
FirstStands(e) == FALSE
AnySecond(e) == \E f \in edges : f.child = e.child
Ambiguous(e) == \E f \in edges : f.child = e.child /\ f # e

ReadsEdge ==
  /\ stage = "edges"
  /\ \E i \in todo :
       /\ todo' = todo \ {i}
       /\ IF ParentEdge(i).op = "none" THEN UNCHANGED <<stage, edges, status>>
          ELSE IF Ambiguous(ParentEdge(i)) THEN Decline /\ UNCHANGED edges
          ELSE /\ edges' = IF \E f \in edges : f.child = ParentEdge(i).child
                           THEN edges ELSE edges \cup {ParentEdge(i)}
               /\ UNCHANGED <<stage, status>>
  /\ UNCHANGED <<file, placed>>

EndsEdges ==
  /\ stage = "edges" /\ todo = {}
  /\ todo' = Carriers /\ Goto("place")
  /\ UNCHANGED <<file, edges, placed>>

------------------------------------------------------------------------------
(* composeChain: the climbs from r by edges, each from where the one before *)
(* it led, up to a representation without an edge.  An edge is the only one *)
(* of its child, so that there is one climb, or none on a cycle.            *)
Climbs(r) ==
  {c \in SeqOf(edges, Cardinality(edges)) :
     /\ \A k \in DOMAIN c : c[k].child = IF k = 1 THEN r ELSE c[k - 1].parent
     /\ \A e \in edges : e.child # IF c = <<>> THEN r ELSE c[Len(c)].parent}

(* Its operators, each level applied on the left; none if one is unreadable.*)
(* Mutant: each level is applied on the right.                              *)
OnTheRight(c) == [k \in DOMAIN c |-> c[k].op]
Composed(c) == [k \in DOMAIN c |-> c[Len(c) + 1 - k].op]
ComposeChain(r) ==
  {Composed(c) : c \in {c \in Climbs(r) : \A k \in DOMAIN c : Class[c[k].op] # "bad"}}

IsPlaced(b) == \E i \in DOMAIN placed : placed[i].brep = b

Places ==
  /\ stage = "place"
  /\ \E i \in todo :
       LET r == file.rels[i].child
           chain == ComposeChain(r)
       IN /\ todo' = todo \ {i}
          /\ IF file.rels[i].op = "none" \/ BrepOf(r) = {} THEN UNCHANGED <<stage, placed, status>>
             ELSE IF chain = {} \/ \E b \in BrepOf(r) : IsPlaced(b)
                  THEN Decline /\ UNCHANGED placed
             ELSE /\ \E b \in BrepOf(r), ops \in chain : placed' = Append(placed, Solid(b, ops))
                  /\ UNCHANGED <<stage, status>>
  /\ UNCHANGED <<file, edges>>

EndsPlaces ==
  /\ stage = "place" /\ todo = {}
  /\ Goto("gate")
  /\ UNCHANGED <<file, todo, edges, placed>>

(* The gate: all solids but one are placed, and that one is the root.       *)
Unplaced == {b \in Breps : ~IsPlaced(b)}

(* Mutant: any number of solids may be left where they are.                 *)
NoGate == placed # <<>>
PassesGate == placed # <<>> /\ Cardinality(Unplaced) <= 1

Assembles ==
  /\ stage = "gate"
  /\ IF PassesGate
     THEN Finish(placed \o SetToSeq({Solid(b, <<>>) : b \in Unplaced}))
     ELSE Decline /\ UNCHANGED placed
  /\ UNCHANGED <<file, todo, edges>>

------------------------------------------------------------------------------
(* mappedAssembly: one instance for each mapped item, by ascending id.      *)

MapsInstance ==
  /\ stage = "mapped" /\ Len(placed) < Len(file.mapped)
  /\ LET m == file.mapped[Len(placed) + 1]
     IN IF BrepOf(m.rep) = {} \/ Class[m.op] = "bad" \/ BrepOf(m.rep) \cap file.unmappable # {}
        THEN Decline /\ UNCHANGED placed
        ELSE /\ \E b \in BrepOf(m.rep) : placed' = Append(placed, Solid(b, <<m.op>>))
             /\ UNCHANGED <<stage, status>>
  /\ UNCHANGED <<file, todo, edges>>

EndsInstances ==
  /\ stage = "mapped" /\ Len(placed) = Len(file.mapped)
  /\ Finish(placed)
  /\ UNCHANGED <<file, todo, edges>>

StepDone == stage = "done" /\ UNCHANGED stepVars

StepNext ==
  \/ Disposes \/ ImportsFlat
  \/ ReadsEdge \/ EndsEdges \/ Places \/ EndsPlaces \/ Assembles
  \/ MapsInstance \/ EndsInstances
  \/ StepDone

StepSpec == StepInit /\ [][StepNext]_stepVars

------------------------------------------------------------------------------
(* Properties.                                                              *)

(* A route of a solid: a way by the relationships of S from a               *)
(* representation that lists it up to one that is no child in S.            *)
Ways(r, S) ==
  {w \in SeqOf(S, Cardinality(S)) :
     /\ \A k \in DOMAIN w : file.rels[w[k]].child = IF k = 1 THEN r ELSE file.rels[w[k - 1]].parent
     /\ \A i \in S : file.rels[i].child # IF w = <<>> THEN r ELSE file.rels[w[Len(w)]].parent}
Routes(b, S) == UNION {Ways(r, S) \ {<<>>} : r \in {r \in Reps : b \in file.items[r]}}

(* The operators along it, the outermost first.                             *)
Along(w) == [k \in DOMAIN w |-> file.rels[w[Len(w) + 1 - k]].op]

Operated == {i \in Carriers : file.rels[i].op # "none"}

Imported == stage = "done" /\ status = "ok"
FormA == Disposition = "edges"

(* A file of form A that is taken: each solid is there once; it is where    *)
(* the only route of the relationships with operators takes it, reflected   *)
(* if that reflects an odd number of times; and only one has no route.      *)
(* Said of files that list no solid both among others and elsewhere: the    *)
(* reader skips a representation of several solids, whatever its route.     *)
ListedApart ==
  \A r, q \in Reps : r # q /\ Cardinality(file.items[r]) > 1 => file.items[r] \cap file.items[q] = {}
PlacedAlongRoutes ==
  Imported /\ FormA /\ ListedApart =>
    /\ \A b \in Breps : \E i \in DOMAIN placed : \A k \in DOMAIN placed : placed[k].brep = b <=> k = i
    /\ \A i \in DOMAIN placed :
         LET routes == {Along(w) : w \in Routes(placed[i].brep, Operated)}
         IN /\ IF routes = {} THEN placed[i].at = <<>> ELSE routes = {placed[i].at}
            /\ placed[i].mirrored <=> Mirrored(placed[i].at)
    /\ \A i, k \in DOMAIN placed :
         Routes(placed[i].brep, Operated) = {} /\ Routes(placed[k].brep, Operated) = {} => i = k

(* A file of form A whose operators and solids can be read and whose        *)
(* relationships form a forest, an edge of a subassembly said twice         *)
(* included, that reaches every solid but one by one relationship, is taken *)
(* in whichever order the records are met.                                  *)
Cycles ==
  {w \in SeqOf(Operated, Cardinality(Operated)) \ {<<>>} : \A k \in DOMAIN w :
     file.rels[w[k]].child = file.rels[w[IF k = 1 THEN Len(w) ELSE k - 1]].parent}
Forest ==
  /\ \A i, k \in Operated : file.rels[i].child = file.rels[k].child => ParentEdge(i) = ParentEdge(k)
  /\ \A i \in Operated : Class[file.rels[i].op] # "bad"
  /\ Cycles = {}
Reaching(b) == {i \in Operated : BrepOf(file.rels[i].child) = {b}}
AcceptsForests ==
  stage = "done" /\ FormA /\ Forest /\ file.unmappable = {}
  /\ (\A b \in Breps : Cardinality(Reaching(b)) <= 1)
  /\ Cardinality({b \in Breps : Reaching(b) = {}}) <= 1 /\ (\E b \in Breps : Reaching(b) # {})
    => status = "ok"

(* What the reader's comments promise (refuted, see README): a file that is *)
(* taken is taken whole, every solid where its relationships put it.        *)
NothingMisplaced ==
  Imported =>
    /\ Breps \subseteq {placed[i].brep : i \in DOMAIN placed}
    /\ FormA => \A i \in DOMAIN placed :
         \A w \in Routes(placed[i].brep, DOMAIN file.rels) :
           SelectSeq(Along(w), LAMBDA o : o # "none") = placed[i].at
=============================================================================
