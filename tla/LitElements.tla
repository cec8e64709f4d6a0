---------------------------- MODULE LitElements ----------------------------
(***************************************************************************)
(* How references to elements survive the way through an object file.  ast *)
(* numbers the elements of all fragments (pass_needs), writes each as a    *)
(* record (pass_output_segments) and writes references to elements as      *)
(* their numbers; lit counts the records it reads, those of the fragments  *)
(* it skips included (ifile_read_segments), and ties a number to the       *)
(* element read under it, before or after the first reference              *)
(* (element_by_index).                                                     *)
(***************************************************************************)
EXTENDS Integers, Sequences, FiniteSets

CONSTANT Objects    \* the object files considered: sequences of fragments

(* A fragment: whether lit will want it, and its elements.  An element has *)
(* a kind, a size when it is a BLOCK, and refers to others by their place  *)
(* <<fragment, element>>.                                                  *)
ObjElement == [kind : {"BLOCK", "DATA", "CMD"}, size : Nat, refs : SUBSET (Nat \X Nat)]
ObjFragment == [wanted : BOOLEAN, els : Seq(ObjElement)]

Places(obj) == UNION {{f} \X DOMAIN obj[f].els : f \in DOMAIN obj}
At(obj, place) == obj[place[1]].els[place[2]]

IsObject(obj) ==
    /\ obj \in Seq(ObjFragment)
    /\ \A p \in Places(obj) : At(obj, p).refs \subseteq Places(obj)

(* What a fragment refers to it needs, and so lit wants it too. *)
NeedsAreWanted(obj) ==
    \A p \in Places(obj) : obj[p[1]].wanted => \A r \in At(obj, p).refs : obj[r[1]].wanted

(* The record of a BLOCK starts with its length, and LIT_DUMMY is 0. *)
IsDummy(el) == el.kind = "BLOCK" /\ el.size = 0

Precedes(p, q) == p[1] < q[1] \/ (p[1] = q[1] /\ p[2] < q[2])

(* Nothing comes after an empty BLOCK, and nothing refers to it. *)
EmptyIsLast(obj) ==
    \A p, q \in Places(obj) :
       IsDummy(At(obj, p)) => ~ Precedes(p, q) /\ p \notin At(obj, q).refs

ASSUME ObjectsAssumption == \A obj \in Objects : IsObject(obj) /\ NeedsAreWanted(obj)

VARIABLES object,         \* the object file, as ast had it in memory
          epos,           \* place <<fragment, element>> of the next record
          skipping,       \* the current fragment is not wanted
          element_index,  \* number of the next element
          elements,       \* ifi->elements: number |-> place of the element
          references,     \* <<place meant, number read>> of every reference
          estatus         \* "reading", "done", "errors"

evars == <<object, epos, skipping, element_index, elements, references, estatus>>

PlacesBefore(place) == {p \in Places(object) : Precedes(p, place)}

(* pass_needs: el->index, the number of elements that come before. *)
IndexOf(place) == Cardinality(PlacesBefore(place))

EInit == /\ object \in Objects
         /\ epos = <<1, 0>>
         /\ skipping = FALSE
         /\ element_index = 0
         /\ elements = [n \in {} |-> <<0, 0>>]
         /\ references = {}
         /\ estatus = "reading"

Fragment == object[epos[1]]
Element == Fragment.els[epos[2]]

(* A fragment switch record (or the start of the area). *)
SwitchFragment ==
    /\ estatus = "reading" /\ epos[1] \in DOMAIN object /\ epos[2] = 0
    /\ skipping' = ~ Fragment.wanted
    /\ epos' = <<epos[1], 1>>
    /\ UNCHANGED <<object, element_index, elements, references, estatus>>

AtElement == estatus = "reading" /\ epos[1] \in DOMAIN object /\ epos[2] \in DOMAIN Fragment.els

(* A plausible bug (mutant): only elements that are kept are counted. *)
SkipUncounted ==
    /\ AtElement /\ ~ IsDummy(Element)
    /\ skipping
    /\ epos' = <<epos[1], epos[2] + 1>>
    /\ UNCHANGED <<object, skipping, element_index, elements, references, estatus>>

SkipElement ==
    /\ AtElement /\ ~ IsDummy(Element)
    /\ skipping
    /\ element_index' = element_index + 1
    /\ epos' = <<epos[1], epos[2] + 1>>
    /\ UNCHANGED <<object, skipping, elements, references, estatus>>

ReadElement ==
    /\ AtElement /\ ~ IsDummy(Element)
    /\ ~ skipping
    /\ elements' = [n \in DOMAIN elements \union {element_index} |->
                      IF n = element_index THEN epos ELSE elements[n]]
    /\ references' = references \union {<<r, IndexOf(r)>> : r \in Element.refs}
    /\ element_index' = element_index + 1
    /\ epos' = <<epos[1], epos[2] + 1>>
    /\ UNCHANGED <<object, skipping, estatus>>

ReadDummy ==
    /\ AtElement /\ IsDummy(Element)
    /\ epos' = <<epos[1], epos[2] + 1>>
    /\ UNCHANGED <<object, skipping, element_index, elements, references, estatus>>

EndFragment ==
    /\ estatus = "reading" /\ epos[1] \in DOMAIN object
    /\ epos[2] = Len(Fragment.els) + 1
    /\ epos' = <<epos[1] + 1, 0>>
    /\ UNCHANGED <<object, skipping, element_index, elements, references, estatus>>

(* The final MARKER: "referenced but not defined in any wanted fragment". *)
ReadMarker ==
    /\ estatus = "reading" /\ epos[1] = Len(object) + 1
    /\ estatus' = IF \A r \in references : r[2] \in DOMAIN elements THEN "done" ELSE "errors"
    /\ UNCHANGED <<object, epos, skipping, element_index, elements, references>>

ENext == \/ SwitchFragment \/ SkipElement \/ ReadElement \/ ReadDummy
         \/ EndFragment \/ ReadMarker

ESpec == EInit /\ [][ENext]_evars

-----------------------------------------------------------------------------
(* lit.5: an ELEMENT is stored as "the ordinal number of the element in    *)
(* this file".  A reference lit has read stands for the element ast meant, *)
(* whichever of the two comes first in the file and however many fragments *)
(* in between are skipped, and none is left open.                          *)
ReferencesMeanTheSame ==
    /\ \A r \in references : r[2] \in DOMAIN elements => elements[r[2]] = r[1]
    /\ estatus # "errors"
=============================================================================
