------------------------------- MODULE LitLink -------------------------------
(***************************************************************************)
(* The second file pass of the linker (lit/lit.c, ifile_read_segments,     *)
(* the assignment of SEG@@size, ifile_read_definitions, check_defined),    *)
(* composed with the first pass of LitResolve.  The wanted files are       *)
(* visited in the order they were opened, first all SEGMENTS areas, then   *)
(* all DEFINITIONS areas; a name's value is represented by where it came   *)
(* from, and a fragment's contents by its first element.                   *)
(***************************************************************************)
EXTENDS LitResolve, Sequences

CONSTANTS
  Starts,       \* the special names SEG@@start
  Sizes,        \* the special names SEG@@size
  SizeOf        \* [Starts -> Sizes]: the two special names of a segment

ASSUME SegmentsAssumption ==
  /\ Starts \subseteq Special /\ Sizes \subseteq Special
  /\ Starts \cap Sizes = {}
  /\ SizeOf \in [Starts -> Sizes]

NoValue == 0
FromLinker == MaxFiles + 1     \* assigned by the linker, or by option -T
Values == 0..FromLinker

VARIABLES
  stage,     \* pass1, segments, definitions, check, linked, refused, aborted
  pos,       \* index of the ifile being read, 0 before the first one
  todo,      \* names whose record in the current area is still to be read
  segments,  \* start names of the segments set up so far
  fragment,  \* np->fragment
  elts,      \* [Names -> size of the fragment's first element, 0 if none]
  val,       \* [Names -> Values], np->val
  layout,    \* <<file, name>> of the fragments laid out, in order
  skipped    \* <<file, name>> of the fragments skipped as redefinitions

pvars == <<stage, pos, todo, segments, fragment, elts, val, layout, skipped>>
lvars == <<rvars, pvars>>

-----------------------------------------------------------------------------
(* What ast writes for the fragments of a file.  A .comm block is one       *)
(* element of zero bytes, a DATA record, unless it is smaller than the      *)
(* threshold of 32 bytes: then pass_unroll has made a BLOCK record of it.   *)

FragKinds == {"frag", "comm", "bigcomm"}

Elements(kind) ==
  CASE kind = "comm"    -> {[tag |-> "BLOCK", zero |-> TRUE, size |-> 4]}
    [] kind = "bigcomm" -> {[tag |-> "DATA", zero |-> TRUE, size |-> 40]}
    [] kind = "frag"    -> {[tag |-> "BLOCK", zero |-> FALSE, size |-> 4],
                            [tag |-> "DATA", zero |-> FALSE, size |-> 40],
                            [tag |-> "DATA", zero |-> TRUE, size |-> 40]}
    [] OTHER            -> {}

NamesIn(f, kinds) == {n \in Names : entry[f][n] \in kinds}

\* The next wanted ifile after the one at position p, 0 when there is none.
NextWanted(p) ==
  LET rest == {f \in fwanted : f > p}
  IN IF rest = {} THEN 0 ELSE CHOOSE f \in rest : \A g \in rest : f <= g

-----------------------------------------------------------------------------
LInit ==
  /\ Init
  /\ stage = "pass1" /\ pos = 0 /\ todo = {} /\ segments = {}
  /\ fragment = {} /\ skipped = {} /\ layout = <<>>
  /\ elts = [n \in Names |-> 0]
  /\ val = [n \in Names |-> NoValue]

Pass1 == Next /\ UNCHANGED pvars

\* Option -T SEG NNN: a value for SEG@@start.
OptT(n) ==
  /\ phase = "options"
  /\ val' = [val EXCEPT ![n] = FromLinker]
  /\ UNCHANGED <<rvars, stage, pos, todo, segments, fragment, elts, layout,
                 skipped>>

\* Begin the segments areas, or the one of the next wanted file.
OpenSegments ==
  /\ \/ stage = "pass1" /\ phase = "resolved"
     \/ stage = "segments" /\ todo = {} /\ NextWanted(pos) # 0
  /\ NextWanted(pos) # 0
  /\ stage' = "segments"
  /\ pos' = NextWanted(pos)
  /\ todo' = NamesIn(pos', FragKinds)
  /\ UNCHANGED <<rvars, segments, fragment, elts, val, layout, skipped>>

\* Record LIT_SEGMENT (or the default segment of a file): setup_segment.
\* The start name becomes a fragment that may stay undefined (loadtime).
ReadSegment(s) ==
  /\ stage = "segments"
  /\ s \notin segments
  /\ segments' = segments \cup {s}
  /\ fragment' = fragment \cup {s}
  /\ UNCHANGED <<rvars, stage, pos, todo, elts, val, layout, skipped>>

\* The branches of LIT_FRAGMENT.  A second instance of a common block, and
\* a second fragment of any other name, are not laid out.
CommonInstance(n) == n \in common \cap fragment

\* A plausible bug (mutant).
NoRedefinition(n) == FALSE

\* A plausible bug (mutant).
NotFirstSource(n) == n \in wanted /\ source[n] # pos

\* A plausible bug (mutant).
RedefinitionOrCommon(n) == n \in wanted \cap fragment

Redefinition(n) == n \in (wanted \cap fragment) \ common

\* A plausible bug (mutant).
TakeAll(n) == FALSE

Skipping(n) == n \notin wanted

\* A plausible bug (mutant).
CommonGrows(n, el) ==
  el.tag = "DATA" /\ el.zero /\ el.size > elts[n]

\* Later instances of a common block are only compared with the first: one
\* DATA element of zero bytes and of the same size.
CommonAgrees(n, el) ==
  el.tag = "DATA" /\ el.zero /\ el.size = elts[n]

errorVars == <<phase, area, archive, nifiles, nlibs, member, entry, graphVars>>

\* Record LIT_FRAGMENT and the elements that follow it.  A fragment with a
\* special name is an error whatever happens to it.  For a common instance
\* a tag other than DATA makes the linker give up the rest of the area.  The
\* assertions before a fragment is laid out are that it has no elements and
\* no value.
ReadFragment(n, el) ==
  /\ stage = "segments" /\ n \in todo
  /\ todo' = IF CommonInstance(n) /\ el.tag # "DATA" THEN {} ELSE todo \ {n}
  /\ errors' = \/ errors \/ n \in Special
               \/ CommonInstance(n) /\ ~CommonAgrees(n, el)
  /\ skipped' = IF Redefinition(n) THEN skipped \cup {<<pos, n>>} ELSE skipped
  /\ IF CommonInstance(n) \/ Redefinition(n) \/ Skipping(n)
     THEN UNCHANGED <<stage, fragment, elts, val, layout>>
     ELSE IF elts[n] # 0 \/ val[n] # NoValue
     THEN /\ stage' = "aborted"
          /\ UNCHANGED <<fragment, elts, val, layout>>
     ELSE /\ fragment' = fragment \cup {n}
          /\ val' = [val EXCEPT ![n] = pos]
          /\ elts' = [elts EXCEPT ![n] = el.size]
          /\ layout' = Append(layout, <<pos, n>>)
          /\ UNCHANGED stage
  /\ UNCHANGED <<errorVars, pos, segments>>

\* All segments are read: stop on errors, else give every SEG@@size its
\* value, asserting that it has none yet.
EndSegments ==
  /\ \/ stage = "segments" /\ todo = {}
     \/ stage = "pass1" /\ phase = "resolved"
  /\ NextWanted(pos) = 0
  /\ IF errors
     THEN stage' = "refused" /\ UNCHANGED val
     ELSE IF \E s \in segments : val[SizeOf[s]] # NoValue
     THEN stage' = "aborted" /\ UNCHANGED val
     ELSE /\ stage' = "definitions"
          /\ val' = [n \in Names |-> IF \E s \in segments : SizeOf[s] = n
                                     THEN FromLinker ELSE val[n]]
  /\ pos' = 0
  /\ UNCHANGED <<rvars, todo, segments, fragment, elts, layout, skipped>>

OpenDefinitions ==
  /\ stage = "definitions" /\ todo = {}
  /\ NextWanted(pos) # 0
  /\ pos' = NextWanted(pos)
  /\ todo' = NamesIn(pos', {"value"})
  /\ UNCHANGED <<rvars, stage, segments, fragment, elts, val, layout, skipped>>

\* A plausible bug (mutant).
LastDefinedValue(n) == IF n \in wanted \cup Special THEN pos ELSE val[n]

\* A plausible bug (mutant).
SpecialDefinedValue(n) ==
  IF n \in Special /\ val[n] = NoValue THEN pos ELSE val[n]

\* Record LIT_NAMEDEF: the value is taken if the name is wanted or special
\* and has none; a size name loses its value and the link fails.
DefinedValue(n) ==
  IF n \in wanted \cup Special /\ val[n] = NoValue THEN pos ELSE val[n]

\* A plausible bug (mutant).
SizeAssignedSilently(n) == FALSE

SizeAssigned(n) == n \in Sizes

ReadDefinition(n) ==
  /\ stage = "definitions" /\ n \in todo
  /\ todo' = todo \ {n}
  /\ val' = [val EXCEPT ![n] = IF n \in Sizes THEN NoValue
                                ELSE DefinedValue(n)]
  /\ errors' = (errors \/ SizeAssigned(n))
  /\ UNCHANGED <<errorVars, stage, pos, segments, fragment, elts, layout,
                 skipped>>

EndDefinitions ==
  /\ stage = "definitions" /\ todo = {} /\ NextWanted(pos) = 0
  /\ stage' = IF errors THEN "refused" ELSE "check"
  /\ UNCHANGED <<rvars, pos, todo, segments, fragment, elts, val, layout,
                 skipped>>

\* check_defined over the name table.  setup_segment sets np->loadtime for
\* the start names of its segments; name_alloc leaves the flag of every
\* other name uninitialized, so it reads as 1 for an arbitrary set of them.
CheckDefined(garbage) ==
  /\ stage = "check"
  /\ stage' = IF \E n \in wanted : /\ val[n] = NoValue
                                   /\ n \notin segments \cup garbage
              THEN "refused" ELSE "linked"
  /\ UNCHANGED <<rvars, pos, todo, segments, fragment, elts, val, layout,
                 skipped>>

LNext ==
  \/ Pass1
  \/ \E n \in Starts : OptT(n)
  \/ OpenSegments
  \/ \E s \in Starts : ReadSegment(s)
  \/ \E n \in todo : \E el \in Elements(entry[pos][n]) : ReadFragment(n, el)
  \/ EndSegments
  \/ OpenDefinitions
  \/ \E n \in Names : ReadDefinition(n)
  \/ EndDefinitions
  \/ \E garbage \in SUBSET Names : CheckDefined(garbage)

LSpec == LInit /\ [][LNext]_lvars

-----------------------------------------------------------------------------
(* Properties *)

LaidOut == {layout[i][2] : i \in DOMAIN layout}

\* ifile_read_segments takes a wanted fragment once, however many of the
\* visited files hold one, and never takes an unwanted one.
EachFragmentOnce ==
  /\ \A i, j \in DOMAIN layout : layout[i][2] = layout[j][2] => i = j
  /\ LaidOut \subseteq wanted

\* The two passes agree: what a successful link lays out is every wanted
\* name that some visited file defines by a fragment.  The other fragments
\* of these names are skipped, as lit.c says "silently.  We must have already
\* warned about it while reading nametables": true of plain files; for
\* members of archives the first pass gives no warning, and the fragment of a
\* file that has the name of a segment's start is an error instead.
LinkedIsComplete ==
  /\ stage = "linked" =>
       LaidOut = {n \in wanted : \E f \in fwanted : entry[f][n] \in FragKinds}
  /\ \A s \in skipped : \/ s[2] \in warned \/ s[1] \in member
                        \/ s[2] \in Special /\ errors

\* After both rounds of reading every wanted ordinary name has a value, so
\* check_defined can never report a "not actually defined" name.
WantedHaveValues ==
  stage \in {"check", "linked"} => \A n \in wanted \ Special : val[n] # NoValue

\* The first definition on the command line wins, also when later files
\* that define the name are visited for the sake of other names; except
\* that a fragment read in the first round wins over an assignment of an
\* earlier file, which is read in the second.
FirstDefinitionWins ==
  stage = "linked" => \A n \in wanted \ Special :
    \/ val[n] = source[n]
    \/ /\ entry[source[n]][n] = "value"
       /\ entry[val[n]][n] \in FragKinds

\* An assignment to SEG@@size never gets into a finished link, and the
\* assertions of the second pass that rely on nobody else having set a value
\* (np->elts and np->val are empty when a fragment begins, SEG@@size is empty
\* when its value is computed) can only fail in a link that has been told of
\* an error already.
LinkerOwnsSizes ==
  /\ stage = "linked" => \A s \in segments : val[SizeOf[s]] = FromLinker
  /\ stage = "aborted" => errors

\* ast(1) of .comm: the linker is "to expect multiple occurencies of this
\* fragment in different files, and merge them silently".  When all the
\* definitions of each name are alike, and no special name is misused, the
\* second pass reports no error; except that a common block below the
\* threshold may occur once only, because ast has written a BLOCK for it.
CommonMerges ==
  /\ stage # "pass1"
  /\ \A n \in Names : \E k \in DefKinds : \A f \in Files :
       entry[f][n] \in DefKinds => entry[f][n] = k /\ n \notin Special
  /\ \A n \in Names : \A f, g \in Files :
       entry[f][n] = "comm" /\ entry[g][n] = "comm" => f = g
  => ~errors
=============================================================================
