------------------------------ MODULE LitResolve ------------------------------
(***************************************************************************)
(* The first file pass of the linker (lit/lit.c, main and                  *)
(* ifile_read_nametable): options give the hooks, then the NAMETABLE and   *)
(* NEEDS areas of every explicit file and of the libraries are read, and   *)
(* the linker decides on line which names, and hence which files, are      *)
(* wanted.  One action stands for one option, one record or one decision   *)
(* of the main loop.  The records come from the environment: a file lists  *)
(* each name at most once and its need lists mention names it lists.       *)
(***************************************************************************)
EXTENDS Naturals, FiniteSets, NeedReach

CONSTANTS
  Special,      \* SEG@@start, SEG@@size, SEG@@blocksize (np->special)
  DefaultHook,  \* @@hook
  AlignArg,     \* the identifier spelled like the argument of option -a
  DefKinds,     \* the kinds of definition the files use
  MaxHooks,     \* bound: hooks given on the command line
  MaxFiles,     \* bound: object files and archive members read
  MaxLibs,      \* bound: -l options
  MaxNeeds      \* bound: need links over all files

ASSUME NamesAssumption ==
  /\ IsFiniteSet(Names)
  /\ Special \subseteq Names
  /\ DefaultHook \in Names \ Special
  /\ AlignArg \in Names \ (Special \cup {DefaultHook})

ASSUME KindsAssumption ==
  DefKinds \subseteq {"frag", "comm", "bigcomm", "value"}

ASSUME BoundsAssumption ==
  /\ MaxHooks \in Nat
  /\ MaxFiles \in Nat
  /\ MaxLibs \in Nat
  /\ MaxNeeds \in Nat

Files == 1..MaxFiles

\* How a file mentions a name: not at all, by reference only, or defining
\* it as a fragment, as a common block smaller than 32 bytes (comm) or
\* larger (bigcomm), or by an assignment (value, a LIT_NAMEDEF record).
Kinds == {"none", "ref", "frag", "comm", "bigcomm", "value"}

VARIABLES
  phase,     \* where main is: options, explicit, libs, failed, resolved
  area,      \* area of the open file being read: idle, nametable, needs
  archive,   \* the argument being scanned is an archive, more members follow
  nifiles,   \* ifiles opened so far; the last one is being read
  nlibs,     \* -l options consumed
  member,    \* files that are archive members (ifi->lo # 0)
  entry,     \* [Files -> [Names -> Kinds]], the nametables read
  hooks,     \* names marked wanted from the command line
  wanted,    \* np->wanted
  defined,   \* np->defined
  common,    \* np->common
  needs,     \* np->needs
  source,    \* first_source (np), 0 when there is none
  fwanted,   \* ifi->wanted
  undefined_wanted_count,
  warned,    \* names a redefinition warning was printed for
  errors     \* *error_report->n_errors # 0

rvars == <<phase, area, archive, nifiles, nlibs, member, entry, hooks, wanted,
           defined, common, needs, source, fwanted, undefined_wanted_count,
           warned, errors>>

-----------------------------------------------------------------------------
(* mark_wanted: marks np and, through the need lists, everything not yet    *)
(* marked.  The recursion does not enter a name that is already wanted, so  *)
(* what it marks is the least set that holds np and the needs of each of    *)
(* its members that was not wanted before.                                  *)

MarkClosed(C, old, nd) == \A a \in C \ old : nd[a] \subseteq C

NewlyWanted(np, old, nd) ==
  {m \in Names \ old : \A C \in SUBSET Names :
                          np \in C /\ MarkClosed(C, old, nd) => m \in C}

\* A plausible bug (mutant).
SourcesOfNone(new) == {}

\* The files marking the names in new makes wanted: their first sources.
SourcesOf(new) == {source[m] : m \in new \cap defined}

\* A plausible bug (mutant).
CountedWithSpecial(new) == new \ defined

\* The names in new that marking adds to undefined_wanted_count.
Counted(new) == (new \ defined) \ Special

mark_wanted(np, nd) ==
  LET new == NewlyWanted(np, wanted, nd)
  IN /\ wanted' = wanted \cup new
     /\ fwanted' = fwanted \cup SourcesOf(new)
     /\ undefined_wanted_count' =
          undefined_wanted_count + Cardinality(Counted(new))

\* A plausible bug (mutant).
NeedNotFollowed(np, need, nd) ==
  UNCHANGED <<wanted, fwanted, undefined_wanted_count>>

\* A need read for np: followed at once when np is wanted already.
FollowNeed(np, need, nd) ==
  IF np \in wanted
  THEN mark_wanted(need, nd)
  ELSE UNCHANGED <<wanted, fwanted, undefined_wanted_count>>

\* add_need: no link from a name to itself; a repeated link changes nothing.
add_need(np, need) ==
  IF np = need THEN needs ELSE [needs EXCEPT ![np] = @ \cup {need}]

\* A plausible bug (mutant).
AddSourceInFront(n) == [source EXCEPT ![n] = nifiles]

\* add_source: the list of sources, of which only the first is ever used.
add_source(n) ==
  IF source[n] = 0 THEN [source EXCEPT ![n] = nifiles] ELSE source

\* A definition resolves n: a wanted name not defined before.
Resolves(n) == n \in wanted \ defined

\* A plausible bug (mutant).
FailsOnErrors == errors

\* The link stops after the first pass.
PassFails == errors \/ undefined_wanted_count # 0

NeedCount(nd) == Cardinality({e \in Names \X Names : e[2] \in nd[e[1]]})

-----------------------------------------------------------------------------
Init ==
  /\ phase = "options" /\ area = "idle" /\ archive = FALSE
  /\ nifiles = 0 /\ nlibs = 0 /\ member = {}
  /\ entry = [f \in Files |-> [n \in Names |-> "none"]]
  /\ hooks = {} /\ wanted = {} /\ defined = {} /\ common = {}
  /\ needs = [n \in Names |-> {}]
  /\ source = [n \in Names |-> 0]
  /\ fwanted = {} /\ undefined_wanted_count = 0
  /\ warned = {} /\ errors = FALSE

fileVars == <<area, archive, nifiles, nlibs, member, entry, defined, common,
              needs, source, warned, errors>>

\* Option -h NAME.
OptHook(n) ==
  /\ phase = "options"
  /\ n # AlignArg
  /\ hooks' = hooks \cup {n}
  /\ Cardinality(hooks') <= MaxHooks
  /\ mark_wanted(n, needs)
  /\ UNCHANGED <<phase, fileVars>>

\* Option -a N: sets segment_align and runs on into the code of option -h,
\* with the argument of -a taken for the name of a hook.
OptAlign ==
  /\ phase = "options"
  /\ hooks' = hooks \cup {AlignArg}
  /\ Cardinality(hooks') <= MaxHooks
  /\ mark_wanted(AlignArg, needs)
  /\ UNCHANGED <<phase, fileVars>>

\* End of the options; the default hook, if hooks_defined is 0.
StartFiles ==
  /\ phase = "options"
  /\ phase' = "explicit"
  /\ IF hooks = {}
     THEN /\ hooks' = {DefaultHook}
          /\ mark_wanted(DefaultHook, needs)
     ELSE UNCHANGED <<hooks, wanted, fwanted, undefined_wanted_count>>
  /\ UNCHANGED fileVars

graphVars == <<hooks, wanted, defined, common, needs, source, fwanted,
               undefined_wanted_count, warned>>

\* ifile_add of an argument: a plain object file is read next; for an
\* archive (ifile_isarchive) its members follow one by one.
OpenFile ==
  /\ area = "idle" /\ ~archive
  /\ \/ /\ nifiles < MaxFiles
        /\ nifiles' = nifiles + 1
        /\ area' = "nametable"
        /\ UNCHANGED archive
     \/ /\ archive' = TRUE
        /\ UNCHANGED <<nifiles, area>>
  /\ UNCHANGED <<member, entry, errors, graphVars>>

OpenExplicit ==
  /\ phase = "explicit"
  /\ OpenFile
  /\ UNCHANGED <<phase, nlibs>>

\* A library is looked for only while something wanted is undefined.
OpenLibrary ==
  /\ phase = "libs" /\ nlibs < MaxLibs
  /\ undefined_wanted_count # 0
  /\ OpenFile
  /\ nlibs' = nlibs + 1
  /\ UNCHANGED phase

\* The library is in none of the directories: a warning, and the next one.
MissingLibrary ==
  /\ phase = "libs" /\ nlibs < MaxLibs
  /\ area = "idle" /\ ~archive
  /\ undefined_wanted_count # 0
  /\ nlibs' = nlibs + 1
  /\ UNCHANGED <<phase, area, archive, nifiles, member, entry, errors,
                 graphVars>>

\* ifile_add_member and the reading of the next member of the archive.
NextMember ==
  /\ area = "idle" /\ archive
  /\ nifiles < MaxFiles
  /\ nifiles' = nifiles + 1
  /\ member' = member \cup {nifiles'}
  /\ area' = "nametable"
  /\ UNCHANGED <<phase, archive, nlibs, entry, errors, graphVars>>

EndArchive ==
  /\ area = "idle" /\ archive
  /\ archive' = FALSE
  /\ UNCHANGED <<phase, area, nifiles, nlibs, member, entry, errors, graphVars>>

\* Record LIT_NAME with the bit LIT_NAME_DEFINED (and LIT_NAME_COMMON for a
\* common block).
ReadDefinedName(n, kind) ==
  /\ area = "nametable"
  /\ entry[nifiles][n] = "none" /\ n # AlignArg
  /\ entry' = [entry EXCEPT ![nifiles][n] = kind]
  /\ common' = IF kind \in {"comm", "bigcomm"} THEN common \cup {n} ELSE common
  /\ warned' = IF n \in defined \ common' /\ nifiles \notin member
               THEN warned \cup {n} ELSE warned
  /\ source' = add_source(n)
  /\ IF Resolves(n)
     THEN /\ fwanted' = fwanted \cup {nifiles}
          /\ undefined_wanted_count' = IF n \in Special
                                       THEN undefined_wanted_count
                                       ELSE undefined_wanted_count - 1
     ELSE UNCHANGED <<fwanted, undefined_wanted_count>>
  /\ defined' = defined \cup {n}
  /\ UNCHANGED <<phase, area, archive, nifiles, nlibs, member, hooks, wanted,
                 needs, errors>>

\* Record LIT_NAME without LIT_NAME_DEFINED (add_ref serves messages only).
ReadReferredName(n) ==
  /\ area = "nametable"
  /\ entry[nifiles][n] = "none" /\ n # AlignArg
  /\ entry' = [entry EXCEPT ![nifiles][n] = "ref"]
  /\ UNCHANGED <<phase, area, archive, nifiles, nlibs, member, errors,
                 graphVars>>

\* One link of a LIT_NEEDS record: record it and, when the needing name is
\* wanted already, mark the needed one at once.
ReadNeed(np, need) ==
  /\ area = "needs"
  /\ entry[nifiles][np] \in DefKinds
  /\ entry[nifiles][need] # "none"
  /\ NeedCount(add_need(np, need)) <= MaxNeeds
  /\ needs' = add_need(np, need)
  /\ FollowNeed(np, need, needs')
  /\ UNCHANGED <<phase, area, archive, nifiles, nlibs, member, entry, hooks,
                 defined, common, source, warned, errors>>

\* LIT_MARKER: the NEEDS area follows the nametable and ends the reading.
ReadMarker ==
  /\ area \in {"nametable", "needs"}
  /\ area' = IF area = "nametable" THEN "needs" ELSE "idle"
  /\ UNCHANGED <<phase, archive, nifiles, nlibs, member, entry, errors,
                 graphVars>>

\* An unexpected tag ends the reading of the file with an error.
ReadBadTag ==
  /\ area \in {"nametable", "needs"}
  /\ area' = "idle"
  /\ errors' = TRUE
  /\ UNCHANGED <<phase, archive, nifiles, nlibs, member, entry, graphVars>>

\* A name index outside the nametable, or a wrong area code, is an error
\* after which the reading goes on.
ReadBadIndex ==
  /\ area \in {"nametable", "needs"}
  /\ errors' = TRUE
  /\ UNCHANGED <<phase, area, archive, nifiles, nlibs, member, entry,
                 graphVars>>

\* ifile_add cannot open the file: fatal.
CannotOpen ==
  /\ phase \in {"explicit", "libs"}
  /\ area = "idle" /\ ~archive
  /\ phase = "libs" => undefined_wanted_count # 0
  /\ phase' = "failed"
  /\ UNCHANGED <<area, archive, nifiles, nlibs, member, entry, errors,
                 graphVars>>

\* The explicit arguments are exhausted: stop on errors, go on to libraries.
EndExplicit ==
  /\ phase = "explicit" /\ area = "idle" /\ ~archive
  /\ nifiles > 0
  /\ phase' = IF errors THEN "failed" ELSE "libs"
  /\ UNCHANGED <<area, archive, nifiles, nlibs, member, entry, errors,
                 graphVars>>

\* No library is left, or none is worth scanning: stop on errors or when a
\* wanted name is undefined (report_undefined).
EndLibraries ==
  /\ phase = "libs" /\ area = "idle" /\ ~archive
  /\ phase' = IF PassFails THEN "failed" ELSE "resolved"
  /\ UNCHANGED <<area, archive, nifiles, nlibs, member, entry, errors,
                 graphVars>>

ReadRecord ==
  \/ \E n \in Names, kind \in DefKinds : ReadDefinedName(n, kind)
  \/ \E n \in Names : ReadReferredName(n)
  \/ \E np, need \in Names : ReadNeed(np, need)
  \/ ReadMarker
  \/ ReadBadTag
  \/ ReadBadIndex

Next ==
  \/ \E n \in Names : OptHook(n)
  \/ OptAlign
  \/ StartFiles
  \/ OpenExplicit
  \/ OpenLibrary
  \/ MissingLibrary
  \/ NextMember
  \/ EndArchive
  \/ ReadRecord
  \/ CannotOpen
  \/ EndExplicit
  \/ EndLibraries

Spec == Init /\ [][Next]_rvars

-----------------------------------------------------------------------------
(* Properties *)

\* The variables range over the values the code gives them.
TypeOK ==
  /\ phase \in {"options", "explicit", "libs", "failed", "resolved"}
  /\ area \in {"idle", "nametable", "needs"}
  /\ archive \in BOOLEAN /\ errors \in BOOLEAN
  /\ nifiles \in 0..MaxFiles /\ nlibs \in 0..MaxLibs
  /\ area # "idle" => nifiles \in Files
  /\ member \in SUBSET Files /\ fwanted \in SUBSET Files
  /\ entry \in [Files -> [Names -> Kinds]]
  /\ hooks \in SUBSET Names /\ wanted \in SUBSET Names
  /\ defined \in SUBSET Names /\ common \in SUBSET Names
  /\ warned \in SUBSET Names
  /\ needs \in [Names -> SUBSET Names]
  /\ source \in [Names -> 0..MaxFiles]
  /\ undefined_wanted_count \in Nat

\* Needs read in one file after a name was marked because of another are
\* still followed: the wanted names are the ones reachable from the hooks.
NG == INSTANCE NeedGraph WITH Names <- Names, hooks <- hooks, needs <- needs, wanted <- wanted
ImplementsNeedGraph == NG!GSpec
WantedIsReach == wanted = Reach(hooks, needs)

\* undefined_wanted_count, which mark_wanted and the reading of definitions
\* adjust from opposite ends, is the number of names still to be resolved:
\* it neither stops the library scan early nor fails a complete link.
Unresolved == (wanted \ defined) \ Special
CountIsExact == undefined_wanted_count = Cardinality(Unresolved)

\* Pass 2 will visit exactly the files that first defined a wanted name,
\* whether the name was marked before or after its definition was seen.
FilesAreFirstSources ==
  fwanted = {source[n] : n \in wanted \cap defined}

\* first_source is the earliest file on the command line whose nametable
\* defines the name, and every defined name has one.
DefinedIn(n) == {f \in Files : entry[f][n] \in DefKinds}
FirstSourceIsEarliest ==
  /\ \A n \in defined : /\ source[n] \in DefinedIn(n)
                        /\ \A f \in DefinedIn(n) : source[n] <= f
  /\ \A n \in Names \ defined : DefinedIn(n) = {}

\* A link that gets past the first pass has a file to take every wanted
\* name from, and that file will be visited.
ResolvedMeansDefined ==
  phase = "resolved" => \A n \in wanted \ Special :
                           \E f \in fwanted : entry[f][n] \in DefKinds
=============================================================================
