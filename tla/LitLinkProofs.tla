---------------------------- MODULE LitLinkProofs ----------------------------
(***************************************************************************)
(* The linker, for any finite set of names, any number of files and any    *)
(* segments.  First the first pass: which names and files are wanted, and  *)
(* the count of unresolved names; the inductive invariant adds to the      *)
(* properties of LitResolve only which names have a source, and where main *)
(* may be.  Then the second pass on top of it: what is laid out, which     *)
(* definition a name gets its value from, and who may set SEG@@size.  IInv *)
(* says what the second pass finds; the parts of its own invariant say how *)
(* far the second pass has got.                                            *)
(***************************************************************************)
EXTENDS LitLink, FiniteSetTheorems, DataLemmas

-----------------------------------------------------------------------------
(* Pass 1.                                                                 *)

\* add_source has been called for exactly the defined names.
SourceIffDefined == \A n \in Names : n \in defined <=> source[n] # 0

\* Outside the two reading loops of main no file is being read, and the
\* linker goes on to pass 2 only when the count is 0.
QuietOutsideLoops ==
  /\ phase \notin {"explicit", "libs"} => area = "idle" /\ ~archive
  /\ phase = "resolved" => undefined_wanted_count = 0

\* Files not opened yet have contributed nothing.
UnopenedAreEmpty ==
  /\ \A f \in Files : f > nifiles => \A n \in Names : entry[f][n] = "none"
  /\ \A n \in Names : source[n] <= nifiles

IInv ==
  /\ TypeOK
  /\ SourceIffDefined
  /\ WantedIsReach
  /\ CountIsExact
  /\ FilesAreFirstSources
  /\ FirstSourceIsEarliest
  /\ UnopenedAreEmpty
  /\ QuietOutsideLoops

-----------------------------------------------------------------------------
(* The need graph *)

\* Reach holds the roots, is closed, and is below every set with these two
\* properties.
LEMMA ReachFacts ==
  ASSUME NEW H \in SUBSET Names, NEW nd \in [Names -> SUBSET Names]
  PROVE  /\ Reach(H, nd) \in SUBSET Names
         /\ H \subseteq Reach(H, nd)
         /\ ClosedUnder(Reach(H, nd), nd)
         /\ \A C \in SUBSET Names :
              H \subseteq C /\ ClosedUnder(C, nd) => Reach(H, nd) \subseteq C
<1>1. Reach(H, nd) \in SUBSET Names /\ H \subseteq Reach(H, nd)
  BY DEF Reach
<1>2. ASSUME NEW a \in Reach(H, nd), NEW m \in nd[a]
      PROVE  m \in Reach(H, nd)
  <2>1. m \in Names
    BY <1>1, <1>2
  <2>2. ASSUME NEW C \in SUBSET Names, H \subseteq C, ClosedUnder(C, nd)
        PROVE  m \in C
    <3>1. a \in C
      BY <1>2, <2>2 DEF Reach
    <3> QED
      BY <3>1, <1>2, <2>2 DEF ClosedUnder
  <2> QED
    BY <2>1, <2>2 DEF Reach
<1>3. ClosedUnder(Reach(H, nd), nd)
  BY <1>2 DEF ClosedUnder
<1>4. \A C \in SUBSET Names :
        H \subseteq C /\ ClosedUnder(C, nd) => Reach(H, nd) \subseteq C
  BY DEF Reach
<1> QED
  BY <1>1, <1>3, <1>4

\* A set with these properties is the reach.
LEMMA LeastIsReach ==
  ASSUME NEW H \in SUBSET Names, NEW nd \in [Names -> SUBSET Names],
         NEW W \in SUBSET Names,
         H \subseteq W,
         ClosedUnder(W, nd),
         \A C \in SUBSET Names :
           H \subseteq C /\ ClosedUnder(C, nd) => W \subseteq C
  PROVE  W = Reach(H, nd)
BY DEF Reach

\* What mark_wanted(np, nd) adds to the wanted names makes them the reach of
\* the new hooks H along the new needs nd, provided the step adds at most np
\* to the hooks and at most links to np to the needs of wanted names.
LEMMA MarkingReaches ==
  ASSUME TypeOK, WantedIsReach,
         NEW np \in Names, NEW H \in SUBSET Names,
         NEW nd \in [Names -> SUBSET Names],
         hooks \subseteq H, H \subseteq hooks \cup {np},
         \A x \in Names : needs[x] \subseteq nd[x],
         \A x \in wanted : nd[x] \subseteq needs[x] \cup {np},
         np \in H \/ \E x \in wanted : np \in nd[x] \/ np = x
  PROVE  wanted \cup NewlyWanted(np, wanted, nd) = Reach(H, nd)
<1> DEFINE New == NewlyWanted(np, wanted, nd)
           W == wanted \cup New
<1>0. /\ wanted \in SUBSET Names /\ hooks \in SUBSET Names
      /\ needs \in [Names -> SUBSET Names] /\ New \in SUBSET Names
  BY DEF TypeOK, NewlyWanted
<1>1. /\ hooks \subseteq wanted
      /\ ClosedUnder(wanted, needs)
      /\ \A C \in SUBSET Names :
           hooks \subseteq C /\ ClosedUnder(C, needs) => wanted \subseteq C
  <2>1. wanted = Reach(hooks, needs)
    BY DEF WantedIsReach
  <2> QED
    BY <1>0, <2>1, ReachFacts
<1>2. np \in W
  BY DEF NewlyWanted
<1>3. H \subseteq W
  BY <1>1, <1>2
<1>4. ASSUME NEW a \in W, NEW m \in nd[a]  PROVE m \in W
  <2>1. CASE a \in wanted
    BY <2>1, <1>1, <1>2, <1>4 DEF ClosedUnder
  <2>2. CASE a \notin wanted /\ m \notin wanted
    <3>1. a \in New /\ m \in Names
      BY <2>2, <1>0, <1>4
    <3>2. ASSUME NEW C \in SUBSET Names, np \in C, MarkClosed(C, wanted, nd)
          PROVE  m \in C
      <4>1. a \in C
        BY <3>1, <3>2 DEF NewlyWanted
      <4> QED
        BY <4>1, <3>2, <2>2, <1>4 DEF MarkClosed
    <3> QED
      BY <3>1, <3>2, <2>2 DEF NewlyWanted
  <2> QED
    BY <2>1, <2>2
<1>5. ClosedUnder(W, nd)
  BY <1>4 DEF ClosedUnder
<1>6. ASSUME NEW C \in SUBSET Names, H \subseteq C, ClosedUnder(C, nd)
      PROVE  W \subseteq C
  <2>1. ClosedUnder(C, needs)
    BY <1>6 DEF ClosedUnder
  <2>2. wanted \subseteq C
    BY <2>1, <1>1, <1>6
  <2>3. np \in C
    BY <2>2, <1>6 DEF ClosedUnder
  <2>4. MarkClosed(C, wanted, nd)
    BY <1>6 DEF MarkClosed, ClosedUnder
  <2>5. New \subseteq C
    BY <2>3, <2>4 DEF NewlyWanted
  <2> QED
    BY <2>2, <2>5
<1>7. W \in SUBSET Names
  BY <1>0
<1>8. W = Reach(H, nd)
  <2> HIDE DEF New, W
  <2> QED
    BY <1>3, <1>5, <1>6, <1>7, LeastIsReach
<1> QED
  BY <1>8

-----------------------------------------------------------------------------
(* mark_wanted preserves the bookkeeping *)

\* mark_wanted only adds names, files and a natural number to the count.
LEMMA MarkingKeepsTypes ==
  ASSUME TypeOK, SourceIffDefined, NEW np \in Names, NEW nd,
         mark_wanted(np, nd)
  PROVE  /\ wanted' \in SUBSET Names /\ wanted \subseteq wanted'
         /\ fwanted' \in SUBSET Files
         /\ undefined_wanted_count' \in Nat
<1> DEFINE New == NewlyWanted(np, wanted, nd)
<1>1. New \in SUBSET Names
  BY DEF NewlyWanted
<1>2. IsFiniteSet(Counted(New))
  BY <1>1, NamesAssumption, FS_Subset DEF Counted
<1>3. Cardinality(Counted(New)) \in Nat
  BY <1>2, FS_CardinalityType
<1>4. \A m \in New \cap defined : source[m] \in Files
  BY <1>1, BoundsAssumption DEF TypeOK, SourceIffDefined, Files
<1>5. SourcesOf(New) \subseteq Files
  BY <1>4 DEF SourcesOf
<1> QED
  BY <1>1, <1>3, <1>5 DEF mark_wanted, TypeOK

\* mark_wanted raises the count by as many names as it leaves unresolved.
LEMMA MarkingCounts ==
  ASSUME TypeOK, CountIsExact, NEW np \in Names, NEW nd,
         mark_wanted(np, nd), UNCHANGED defined
  PROVE  CountIsExact'
<1> DEFINE New == NewlyWanted(np, wanted, nd)
<1>1. /\ New \in SUBSET Names /\ New \cap wanted = {}
  BY DEF NewlyWanted
<1>2. IsFiniteSet(Counted(New)) /\ IsFiniteSet(Unresolved)
  BY <1>1, NamesAssumption, FS_Subset DEF Counted, Unresolved, TypeOK
<1>3. Unresolved' = Unresolved \cup Counted(New)
  BY DEF mark_wanted, Unresolved, Counted
<1>4. Unresolved \cap Counted(New) = {}
  BY <1>1 DEF Unresolved, Counted
<1>5. /\ Cardinality(Unresolved) \in Nat
      /\ Cardinality(Counted(New)) \in Nat
      /\ Cardinality(Unresolved \cup Counted(New)) =
           Cardinality(Unresolved) + Cardinality(Counted(New))
             - Cardinality(Unresolved \cap Counted(New))
  BY <1>2, FS_Union, FS_CardinalityType
<1>6. Cardinality(Unresolved \cap Counted(New)) = 0
  BY <1>4, FS_EmptySet
<1>7. Cardinality(Unresolved') = Cardinality(Unresolved) + Cardinality(Counted(New))
  <2>1. Cardinality(Unresolved') = Cardinality(Unresolved \cup Counted(New))
    BY <1>3
  <2> QED
    BY <2>1, <1>5, <1>6
<1> QED
  BY <1>7 DEF mark_wanted, CountIsExact

\* mark_wanted selects the first sources of the names it marks.
LEMMA MarkingSelectsFiles ==
  ASSUME FilesAreFirstSources, NEW np, NEW nd,
         mark_wanted(np, nd), UNCHANGED <<defined, source>>
  PROVE  FilesAreFirstSources'
BY DEF mark_wanted, SourcesOf, FilesAreFirstSources

-----------------------------------------------------------------------------
(* The initial state and the steps *)

\* The invariant holds when main has set up its tables.
LEMMA InitIInv == Init => IInv
<1> SUFFICES ASSUME Init PROVE IInv
  OBVIOUS
<1>1. TypeOK
  <2>1. archive \in BOOLEAN /\ errors \in BOOLEAN
    BY DEF Init
  <2>2. entry \in [Files -> [Names -> Kinds]]
    BY DEF Init, Kinds
  <2>3. nifiles \in 0..MaxFiles /\ nlibs \in 0..MaxLibs
    BY BoundsAssumption DEF Init
  <2>4. needs \in [Names -> SUBSET Names] /\ source \in [Names -> 0..MaxFiles]
    BY BoundsAssumption DEF Init
  <2> QED
    BY <2>1, <2>2, <2>3, <2>4 DEF Init, TypeOK
<1>2. WantedIsReach
  <2>1. {} = Reach({}, needs)
    <3>1. needs \in [Names -> SUBSET Names]
      BY DEF Init
    <3>2. ClosedUnder({}, needs)
      BY DEF ClosedUnder
    <3> QED
      BY <3>1, <3>2, LeastIsReach
  <2> QED
    BY <2>1 DEF Init, WantedIsReach
<1>3. CountIsExact
  BY FS_EmptySet DEF Init, CountIsExact, Unresolved
<1>4. SourceIffDefined /\ FilesAreFirstSources /\ UnopenedAreEmpty
  BY BoundsAssumption DEF Init, SourceIffDefined, FilesAreFirstSources, UnopenedAreEmpty, Files
<1>5. FirstSourceIsEarliest
  BY KindsAssumption DEF Init, FirstSourceIsEarliest, DefinedIn
<1>6. QuietOutsideLoops
  BY DEF Init, QuietOutsideLoops
<1> QED
  BY <1>1, <1>2, <1>3, <1>4, <1>5, <1>6 DEF IInv

GraphPart ==
  SourceIffDefined /\ WantedIsReach /\ CountIsExact /\ FilesAreFirstSources

\* A step that leaves names and needs alone.
LEMMA GraphUnchanged ==
  ASSUME GraphPart, UNCHANGED graphVars
  PROVE  GraphPart'
BY DEF GraphPart, graphVars, SourceIffDefined, WantedIsReach, CountIsExact,
       Unresolved, FilesAreFirstSources

\* A step that marks a name from the command line.
LEMMA HookStep ==
  ASSUME IInv, NEW np \in Names, hooks' = hooks \cup {np},
         mark_wanted(np, needs), UNCHANGED fileVars,
         phase = "options", phase' \in {"options", "explicit"}
  PROVE  IInv'
<1> USE DEF IInv
<1>1. TypeOK'
  BY MarkingKeepsTypes DEF TypeOK, fileVars
<1>2. WantedIsReach'
  <2>1. wanted' = wanted \cup NewlyWanted(np, wanted, needs)
    BY DEF mark_wanted
  <2>2. hooks' \in SUBSET Names /\ needs \in [Names -> SUBSET Names]
    BY DEF TypeOK
  <2>3. wanted \cup NewlyWanted(np, wanted, needs) = Reach(hooks', needs)
    BY <2>2, MarkingReaches
  <2> QED
    BY <2>1, <2>3 DEF WantedIsReach, fileVars
<1>3. CountIsExact'
  BY MarkingCounts DEF fileVars
<1>4. FilesAreFirstSources'
  BY MarkingSelectsFiles DEF fileVars
<1>5. SourceIffDefined' /\ FirstSourceIsEarliest' /\ UnopenedAreEmpty'
  BY DEF fileVars, SourceIffDefined, FirstSourceIsEarliest, DefinedIn,
         UnopenedAreEmpty
<1>6. QuietOutsideLoops'
  BY DEF QuietOutsideLoops, fileVars
<1> QED
  BY <1>1, <1>2, <1>3, <1>4, <1>5, <1>6

\* The end of the options, with or without the default hook.
LEMMA StartFilesStep ==
  ASSUME IInv, StartFiles
  PROVE  IInv'
<1>1. CASE hooks = {}
  <2>1. hooks' = hooks \cup {DefaultHook} /\ DefaultHook \in Names
    BY <1>1, NamesAssumption DEF StartFiles
  <2> QED
    BY <1>1, <2>1, HookStep DEF StartFiles
<1>2. CASE hooks # {}
  <2>1. UNCHANGED graphVars /\ UNCHANGED fileVars
    BY <1>2 DEF StartFiles, graphVars, fileVars
  <2>2. GraphPart'
    BY <2>1, GraphUnchanged DEF IInv, GraphPart
  <2>3. TypeOK'
    BY <2>1 DEF StartFiles, IInv, TypeOK, graphVars, fileVars
  <2>4. FirstSourceIsEarliest' /\ UnopenedAreEmpty'
    BY <2>1 DEF IInv, FirstSourceIsEarliest, DefinedIn, UnopenedAreEmpty,
         graphVars, fileVars
  <2>5. QuietOutsideLoops'
    BY <2>1 DEF StartFiles, QuietOutsideLoops
  <2> QED
    BY <2>2, <2>3, <2>4, <2>5 DEF IInv, GraphPart
<1> QED
  BY <1>1, <1>2

\* The steps of main and of the reading loop that leave names, needs and
\* nametables alone.
LEMMA ControlStep ==
  ASSUME IInv, UNCHANGED <<entry, graphVars>>,
         \/ OpenExplicit \/ OpenLibrary \/ MissingLibrary \/ NextMember
         \/ EndArchive \/ ReadMarker \/ ReadBadTag \/ ReadBadIndex
         \/ CannotOpen \/ EndExplicit \/ EndLibraries
  PROVE  IInv'
<1> USE DEF IInv
<1>1. GraphPart'
  BY GraphUnchanged DEF GraphPart
<1>2. /\ nifiles' \in {nifiles, nifiles + 1}
      /\ nifiles' \in 0..MaxFiles
      /\ area' # "idle" => nifiles' \in Files
  BY BoundsAssumption DEF TypeOK, Files, OpenExplicit, OpenLibrary, OpenFile,
       MissingLibrary, NextMember, EndArchive, ReadMarker, ReadBadTag,
       ReadBadIndex, CannotOpen, EndExplicit, EndLibraries
<1>3. /\ phase' \in {"options", "explicit", "libs", "failed", "resolved"}
      /\ area' \in {"idle", "nametable", "needs"}
      /\ nlibs' \in 0..MaxLibs
  BY BoundsAssumption DEF TypeOK, OpenExplicit, OpenLibrary, OpenFile,
       MissingLibrary, NextMember, EndArchive, ReadMarker, ReadBadTag,
       ReadBadIndex, CannotOpen, EndExplicit, EndLibraries
<1>3a. archive' \in BOOLEAN /\ errors' \in BOOLEAN
  BY Zenon DEF TypeOK, OpenExplicit, OpenLibrary, OpenFile,
       MissingLibrary, NextMember, EndArchive, ReadMarker, ReadBadTag,
       ReadBadIndex, CannotOpen, EndExplicit, EndLibraries
<1>4. member' \in SUBSET Files
  BY <1>2, BoundsAssumption DEF TypeOK, Files, OpenExplicit, OpenLibrary,
       OpenFile, MissingLibrary, NextMember, EndArchive, ReadMarker,
       ReadBadTag, ReadBadIndex, CannotOpen, EndExplicit, EndLibraries
<1>5. TypeOK'
  BY <1>2, <1>3, <1>3a, <1>4 DEF TypeOK, graphVars
<1>6. FirstSourceIsEarliest'
  BY DEF FirstSourceIsEarliest, DefinedIn, graphVars
<1>7. UnopenedAreEmpty'
  BY <1>2, BoundsAssumption DEF UnopenedAreEmpty, graphVars, TypeOK, Files
<1>8. QuietOutsideLoops'
  BY DEF QuietOutsideLoops, graphVars, OpenExplicit, OpenLibrary, OpenFile,
       MissingLibrary, NextMember, EndArchive, ReadMarker, ReadBadTag,
       ReadBadIndex, CannotOpen, EndExplicit, EndLibraries, PassFails
<1> QED
  BY <1>1, <1>5, <1>6, <1>7, <1>8 DEF GraphPart

\* A nametable entry: everything but the entry itself is as for a step that
\* leaves the names alone.
LEMMA ReferredNameStep ==
  ASSUME IInv, NEW n \in Names, ReadReferredName(n)
  PROVE  IInv'
<1> USE DEF IInv
<1>1. GraphPart'
  BY GraphUnchanged DEF GraphPart, ReadReferredName
<1>2. nifiles \in Files /\ entry \in [Files -> [Names -> Kinds]]
  BY DEF ReadReferredName, TypeOK
<1>3. entry' = [entry EXCEPT ![nifiles] = [entry[nifiles] EXCEPT ![n] = "ref"]]
  BY DEF ReadReferredName
<1>4. entry' \in [Files -> [Names -> Kinds]]
  BY <1>2, <1>3 DEF Kinds
<1>5. \A f \in Files, m \in Names :
        entry'[f][m] = IF f = nifiles /\ m = n THEN "ref" ELSE entry[f][m]
  BY <1>2, <1>3
<1>6. TypeOK'
  BY <1>4 DEF TypeOK, ReadReferredName, graphVars
<1>7. \A m \in Names : DefinedIn(m)' = DefinedIn(m)
  BY <1>5, KindsAssumption DEF DefinedIn, ReadReferredName
<1>8. FirstSourceIsEarliest'
  BY <1>7 DEF FirstSourceIsEarliest, ReadReferredName, graphVars, TypeOK
<1>9. UnopenedAreEmpty'
  BY <1>2, <1>5, BoundsAssumption
     DEF UnopenedAreEmpty, ReadReferredName, graphVars, Files, TypeOK
<1>10. QuietOutsideLoops'
  BY DEF QuietOutsideLoops, ReadReferredName, graphVars
<1> QED
  BY <1>1, <1>6, <1>8, <1>9, <1>10 DEF GraphPart

\* A definition read from a nametable: the one step that resolves names.
LEMMA DefinedNameStep ==
  ASSUME IInv, NEW n \in Names, NEW kind \in DefKinds, ReadDefinedName(n, kind)
  PROVE  IInv'
<1> USE DEF IInv
<1>1. nifiles \in Files /\ entry \in [Files -> [Names -> Kinds]] /\ kind \in Kinds
  BY KindsAssumption DEF ReadDefinedName, TypeOK, Kinds
<1>2. entry' = [entry EXCEPT ![nifiles] = [entry[nifiles] EXCEPT ![n] = kind]]
  BY DEF ReadDefinedName
<1>3. entry' \in [Files -> [Names -> Kinds]]
  BY <1>1, <1>2
<1>4. \A f \in Files, m \in Names :
        entry'[f][m] = IF f = nifiles /\ m = n THEN kind ELSE entry[f][m]
  BY <1>1, <1>2
<1>5. /\ source' \in [Names -> 0..MaxFiles]
      /\ \A m \in Names : source'[m] = IF m = n /\ n \notin defined
                                       THEN nifiles ELSE source[m]
  BY <1>1, BoundsAssumption
     DEF ReadDefinedName, add_source, TypeOK, SourceIffDefined, Files
<1>6. defined' = defined \cup {n} /\ UNCHANGED <<hooks, wanted, needs>>
  BY DEF ReadDefinedName
<1>7. CountIsExact' /\ undefined_wanted_count' \in Nat
  <2>1. IsFiniteSet(Unresolved)
    BY NamesAssumption, FS_Subset DEF Unresolved, TypeOK
  <2>2. Unresolved' = Unresolved \ {n}
    BY <1>6 DEF Unresolved
  <2>3. /\ Cardinality(Unresolved') = IF n \in Unresolved
                                      THEN Cardinality(Unresolved) - 1
                                      ELSE Cardinality(Unresolved)
        /\ Cardinality(Unresolved) \in Nat
        /\ n \in Unresolved => Cardinality(Unresolved) # 0
    BY <2>1, <2>2, FS_RemoveElement, FS_CardinalityType, FS_EmptySet
  <2>4. undefined_wanted_count' = IF n \in Unresolved
                                  THEN undefined_wanted_count - 1
                                  ELSE undefined_wanted_count
    BY DEF ReadDefinedName, Resolves, Unresolved
  <2> QED
    BY <2>3, <2>4 DEF CountIsExact
<1>8. FilesAreFirstSources' /\ fwanted' \in SUBSET Files
  <2>1. fwanted' = IF n \in wanted \ defined THEN fwanted \cup {nifiles}
                                             ELSE fwanted
    BY DEF ReadDefinedName, Resolves
  <2>2. CASE n \in wanted \ defined
    <3>1. fwanted' = {source'[m] : m \in (wanted \cap defined) \cup {n}}
      BY <2>1, <2>2, <1>5 DEF FilesAreFirstSources, TypeOK
    <3>2. (wanted \cap defined)' = (wanted \cap defined) \cup {n}
      BY <2>2, <1>6
    <3> QED
      BY <3>1, <3>2, <2>1, <2>2, <1>1 DEF FilesAreFirstSources, TypeOK
  <2>3. CASE n \notin wanted \ defined
    <3>1. (wanted \cap defined)' = wanted \cap defined
      BY <2>3, <1>6
    <3>2. \A m \in wanted \cap defined : source'[m] = source[m]
      BY <1>5 DEF TypeOK
    <3> QED
      BY <3>1, <3>2, <2>1, <2>3 DEF FilesAreFirstSources, TypeOK
  <2> QED
    BY <2>2, <2>3
<1>9. SourceIffDefined'
  BY <1>1, <1>5, <1>6, BoundsAssumption DEF SourceIffDefined, Files
<1>10. WantedIsReach'
  BY <1>6 DEF WantedIsReach
<1>11. \A m \in Names : DefinedIn(m)' = IF m = n THEN DefinedIn(m) \cup {nifiles}
                                                 ELSE DefinedIn(m)
  BY <1>1, <1>4 DEF DefinedIn
<1>12. FirstSourceIsEarliest'
  <2>1. ASSUME NEW m \in defined'
        PROVE  /\ source'[m] \in DefinedIn(m)'
               /\ \A f \in DefinedIn(m)' : source'[m] <= f
    <3>1. m \in Names
      BY <1>6 DEF TypeOK
    <3>2. CASE m = n /\ n \notin defined
      BY <3>1, <3>2, <1>1, <1>5, <1>11
         DEF FirstSourceIsEarliest, Files
    <3>3. CASE m \in defined
      <4>1. source'[m] = source[m] /\ source[m] <= nifiles
        BY <3>1, <3>3, <1>5 DEF UnopenedAreEmpty
      <4> QED
        BY <3>1, <3>3, <4>1, <1>11 DEF FirstSourceIsEarliest
    <3> QED
      BY <3>2, <3>3, <2>1, <1>6
  <2>2. \A m \in Names \ defined' : DefinedIn(m)' = {}
    BY <1>6, <1>11 DEF FirstSourceIsEarliest
  <2> QED
    BY <2>1, <2>2 DEF FirstSourceIsEarliest
<1>13. UnopenedAreEmpty'
  <2>1. nifiles' = nifiles
    BY DEF ReadDefinedName
  <2>2. ASSUME NEW f \in Files, f > nifiles, NEW m \in Names
        PROVE  entry'[f][m] = "none"
    BY <2>2, <1>1, <1>4, BoundsAssumption DEF UnopenedAreEmpty, Files
  <2>3. ASSUME NEW m \in Names  PROVE source'[m] <= nifiles
    BY <1>1, <1>5, BoundsAssumption DEF UnopenedAreEmpty, Files
  <2> QED
    BY <2>1, <2>2, <2>3 DEF UnopenedAreEmpty
<1>14. TypeOK'
  <2>1. common' \in SUBSET Names /\ warned' \in SUBSET Names
        /\ defined' \in SUBSET Names
    BY DEF ReadDefinedName, TypeOK
  <2> QED
    BY <2>1, <1>3, <1>5, <1>7, <1>8 DEF ReadDefinedName, TypeOK
<1>15. QuietOutsideLoops'
  BY DEF QuietOutsideLoops, ReadDefinedName
<1> QED
  BY <1>7, <1>8, <1>9, <1>10, <1>12, <1>13, <1>14, <1>15

\* A need: followed at once when the needing name is wanted already.
LEMMA NeedStep ==
  ASSUME IInv, NEW np \in Names, NEW need \in Names, ReadNeed(np, need)
  PROVE  IInv'
<1> USE DEF IInv
<1>1. /\ needs \in [Names -> SUBSET Names] /\ hooks \in SUBSET Names
      /\ wanted \in SUBSET Names
  BY DEF TypeOK
<1>2. /\ needs' \in [Names -> SUBSET Names]
      /\ \A x \in Names : needs[x] \subseteq needs'[x]
      /\ \A x \in Names : x # np => needs'[x] = needs[x]
      /\ needs'[np] \subseteq needs[np] \cup {need}
      /\ np = need \/ need \in needs'[np]
  BY <1>1 DEF ReadNeed, add_need
<1>3. UNCHANGED <<phase, area, archive, nifiles, nlibs, member, entry, hooks,
                  defined, common, source, warned, errors>>
  BY DEF ReadNeed
<1>4. CASE np \in wanted
  <2>1. mark_wanted(need, needs')
    BY <1>4 DEF ReadNeed, FollowNeed
  <2>2. WantedIsReach'
    <3>1. wanted \cup NewlyWanted(need, wanted, needs') = Reach(hooks, needs')
      BY <1>1, <1>2, <1>4, MarkingReaches
    <3> QED
      BY <3>1, <2>1, <1>3 DEF WantedIsReach, mark_wanted
  <2>3. CountIsExact' /\ FilesAreFirstSources'
    BY <2>1, <1>3, MarkingCounts, MarkingSelectsFiles
  <2>4. TypeOK'
    BY <2>1, <1>2, <1>3, MarkingKeepsTypes DEF TypeOK
  <2> QED
    BY <2>2, <2>3, <2>4, <1>3 DEF SourceIffDefined, FirstSourceIsEarliest,
       DefinedIn, UnopenedAreEmpty, QuietOutsideLoops, ReadNeed
<1>5. CASE np \notin wanted
  <2>1. UNCHANGED <<wanted, fwanted, undefined_wanted_count>>
    BY <1>5 DEF ReadNeed, FollowNeed
  <2>2. WantedIsReach'
    <3>1. /\ hooks \subseteq wanted
          /\ ClosedUnder(wanted, needs)
          /\ \A C \in SUBSET Names :
               hooks \subseteq C /\ ClosedUnder(C, needs) => wanted \subseteq C
      <4>1. wanted = Reach(hooks, needs)
        BY DEF WantedIsReach
      <4> QED
        BY <4>1, <1>1, ReachFacts
    <3>2. ClosedUnder(wanted, needs')
      BY <3>1, <1>1, <1>2, <1>5 DEF ClosedUnder
    <3>3. \A C \in SUBSET Names :
            hooks \subseteq C /\ ClosedUnder(C, needs') => wanted \subseteq C
      BY <3>1, <1>2 DEF ClosedUnder
    <3>4. wanted = Reach(hooks, needs')
      BY <3>1, <3>2, <3>3, <1>1, <1>2, LeastIsReach
    <3> QED
      BY <3>4, <2>1, <1>3 DEF WantedIsReach
  <2>3. TypeOK'
    BY <2>1, <1>2, <1>3 DEF TypeOK
  <2>4. CountIsExact' /\ FilesAreFirstSources'
    BY <2>1, <1>3 DEF CountIsExact, Unresolved, FilesAreFirstSources
  <2> QED
    BY <2>1, <2>2, <2>3, <2>4, <1>3 DEF SourceIffDefined, FirstSourceIsEarliest,
       DefinedIn, UnopenedAreEmpty, QuietOutsideLoops
<1> QED
  BY <1>4, <1>5

\* Every step of the first pass preserves the invariant, action by action.
LEMMA NextIInv == IInv /\ [Next]_rvars => IInv'
<1> SUFFICES ASSUME IInv, [Next]_rvars PROVE IInv'
  OBVIOUS
<1>1. ASSUME NEW n \in Names, OptHook(n) PROVE IInv'
  BY <1>1, HookStep DEF OptHook
<1>2. CASE OptAlign
  BY <1>2, NamesAssumption, HookStep DEF OptAlign
<1>3. CASE StartFiles
  BY <1>3, StartFilesStep
<1>4. ASSUME \/ OpenExplicit \/ OpenLibrary \/ MissingLibrary \/ NextMember
             \/ EndArchive \/ ReadMarker \/ ReadBadTag \/ ReadBadIndex
             \/ CannotOpen \/ EndExplicit \/ EndLibraries
      PROVE  IInv'
  <2>1. UNCHANGED <<entry, graphVars>>
    BY <1>4 DEF OpenExplicit, OpenLibrary, OpenFile, MissingLibrary,
         NextMember, EndArchive, ReadMarker, ReadBadTag, ReadBadIndex,
         CannotOpen, EndExplicit, EndLibraries
  <2> QED
    BY <1>4, <2>1, ControlStep
<1>5. ASSUME NEW n \in Names, NEW kind \in DefKinds, ReadDefinedName(n, kind)
      PROVE  IInv'
  BY <1>5, DefinedNameStep
<1>6. ASSUME NEW n \in Names, ReadReferredName(n) PROVE IInv'
  BY <1>6, ReferredNameStep
<1>7. ASSUME NEW np \in Names, NEW need \in Names, ReadNeed(np, need)
      PROVE  IInv'
  BY <1>7, NeedStep
<1>8. CASE UNCHANGED rvars
  BY <1>8 DEF rvars, IInv, TypeOK, SourceIffDefined, WantedIsReach,
       CountIsExact, Unresolved, FilesAreFirstSources, FirstSourceIsEarliest,
       DefinedIn, UnopenedAreEmpty, QuietOutsideLoops
<1> QED
  BY <1>1, <1>2, <1>3, <1>4, <1>5, <1>6, <1>7, <1>8 DEF Next, ReadRecord

\* The invariant holds in every reachable state of the first pass.
THEOREM Inductive == Spec => []IInv
<1>1. Init => IInv
  BY InitIInv
<1>2. IInv /\ [Next]_rvars => IInv'
  BY NextIInv
<1> QED
  BY <1>1, <1>2, PTL DEF Spec

-----------------------------------------------------------------------------
(* What the first pass guarantees *)

\* The variables of the first pass keep their types; that the count of
\* unresolved names never becomes negative needs its exactness.
THEOREM TypeCorrect == Spec => []TypeOK
<1>1. IInv => TypeOK
  BY DEF IInv
<1> QED
  BY <1>1, Inductive, PTL

\* However definitions and needs are spread over the files, the wanted names
\* are exactly the ones reachable from the hooks along the needs read.
THEOREM WantedCorrect == Spec => []WantedIsReach
<1>1. IInv => WantedIsReach
  BY DEF IInv
<1> QED
  BY <1>1, Inductive, PTL

\* undefined_wanted_count is the number of wanted ordinary names without a
\* definition, whichever of marking and defining came first.
THEOREM CountCorrect == Spec => []CountIsExact
<1>1. IInv => CountIsExact
  BY DEF IInv
<1> QED
  BY <1>1, Inductive, PTL

\* The files marked for pass 2 are the first sources of the wanted names.
THEOREM FilesCorrect == Spec => []FilesAreFirstSources
<1>1. IInv => FilesAreFirstSources
  BY DEF IInv
<1> QED
  BY <1>1, Inductive, PTL

\* The source lit takes a name from is the earliest file that defines it.
THEOREM SourceCorrect == Spec => []FirstSourceIsEarliest
<1>1. IInv => FirstSourceIsEarliest
  BY DEF IInv
<1> QED
  BY <1>1, Inductive, PTL

\* A link that passes the undefined-symbol check has, for every wanted
\* ordinary name, a file that defines it and that pass 2 will visit.
THEOREM ResolvedCorrect == Spec => []ResolvedMeansDefined
<1>1. ASSUME IInv, phase = "resolved", NEW n \in wanted \ Special
      PROVE  \E f \in fwanted : entry[f][n] \in DefKinds
  <2>1. undefined_wanted_count = 0
    BY <1>1 DEF IInv, QuietOutsideLoops
  <2>2. IsFiniteSet(Unresolved)
    BY <1>1, NamesAssumption, FS_Subset DEF IInv, TypeOK, Unresolved
  <2>3. Unresolved = {}
    BY <1>1, <2>1, <2>2, FS_EmptySet DEF IInv, CountIsExact
  <2>4. n \in wanted \cap defined
    BY <2>3 DEF Unresolved
  <2>5. source[n] \in DefinedIn(n)
    BY <1>1, <2>4 DEF IInv, FirstSourceIsEarliest
  <2>6. source[n] \in fwanted
    BY <1>1, <2>4 DEF IInv, FilesAreFirstSources
  <2> QED
    BY <2>5, <2>6 DEF DefinedIn
<1>2. IInv => ResolvedMeansDefined
  BY <1>1 DEF ResolvedMeansDefined
<1> QED
  BY <1>2, Inductive, PTL

\* The incremental marking implements the specification of what is wanted.
THEOREM RefinesNeedGraph == Spec => ImplementsNeedGraph
<1>1. Init => NG!GInit
  BY DEF Init, NG!GInit
<1>2. ASSUME IInv, IInv', [Next]_rvars
      PROVE  [NG!GNext]_(NG!gvars)
  <2>1. wanted' = Reach(hooks', needs')
    BY <1>2 DEF IInv, WantedIsReach
  <2>2. hooks' \in SUBSET Names /\ needs' \in [Names -> SUBSET Names]
        /\ needs \in [Names -> SUBSET Names]
    BY <1>2 DEF IInv, TypeOK
  <2>3. hooks \subseteq hooks'
    BY <1>2 DEF Next, ReadRecord, rvars, OptHook, OptAlign, StartFiles,
         OpenExplicit, OpenLibrary, OpenFile, MissingLibrary, NextMember,
         EndArchive, ReadMarker, ReadBadTag, ReadBadIndex, CannotOpen,
         EndExplicit, EndLibraries, ReadDefinedName, ReadReferredName,
         ReadNeed, graphVars
  <2>4. \A n \in Names : needs[n] \subseteq needs'[n]
    <3>1. ASSUME NEW np \in Names, NEW need \in Names, ReadNeed(np, need)
          PROVE  \A n \in Names : needs[n] \subseteq needs'[n]
      BY <3>1, <2>2 DEF ReadNeed, add_need
    <3>2. \/ \E np, need \in Names : ReadNeed(np, need)
          \/ UNCHANGED needs
      BY <1>2 DEF Next, ReadRecord, rvars, OptHook, OptAlign, StartFiles,
         OpenExplicit, OpenLibrary, OpenFile, MissingLibrary, NextMember,
         EndArchive, ReadMarker, ReadBadTag, ReadBadIndex, CannotOpen,
         EndExplicit, EndLibraries, ReadDefinedName, ReadReferredName,
         graphVars, fileVars
    <3> QED
      BY <3>1, <3>2
  <2>5. NG!GNext
    BY <2>1, <2>2, <2>3, <2>4 DEF NG!GNext, NG!Reach, Reach,
         NG!ClosedUnder, ClosedUnder
  <2> QED
    BY <2>5
<1> QED
  BY <1>1, <1>2, Inductive, PTL DEF Spec, ImplementsNeedGraph, NG!GSpec

-----------------------------------------------------------------------------
(* Pass 2.                                                                 *)

Stages == {"pass1", "segments", "definitions", "check", "linked", "refused", "aborted"}

\* The fragments laid out, as a set.
Laid == {layout[i] : i \in DOMAIN layout}

\* The shape of the state of the second pass.
LTypeOK ==
  /\ stage \in Stages /\ pos \in 0..MaxFiles
  /\ todo \in SUBSET Names /\ fragment \in SUBSET Names
  /\ segments \in SUBSET Starts
  /\ elts \in [Names -> Nat] /\ val \in [Names -> Values]
  /\ layout \in Seq(Files \X Names)
  /\ skipped \in SUBSET (Files \X Names)

\* What the first pass leaves: entries are of the kinds the files use, a
\* common name has a common block somewhere, and a second definition, but
\* of a common name or in a member of an archive, was warned about.
TablesInv ==
  /\ \A f \in Files : \A n \in Names : entry[f][n] \in DefKinds \cup {"none", "ref"}
  /\ \A n \in common : \E f \in Files : entry[f][n] \in {"comm", "bigcomm"}
  /\ \A f, g \in Files : \A n \in Names :
       /\ g < f /\ entry[g][n] \in DefKinds /\ entry[f][n] \in DefKinds
       /\ n \notin common /\ f \notin member
       => n \in warned

\* The stages follow the first pass, and each other while there is no error.
StageInv ==
  /\ stage = "pass1" => /\ pos = 0 /\ todo = {} /\ segments = {} /\ fragment = {}
                        /\ layout = <<>> /\ skipped = {}
                        /\ \A n \in Names : elts[n] = 0
                        /\ phase = "resolved" => ~errors
  /\ stage # "pass1" => phase = "resolved"
  /\ stage \in {"check", "linked"} => ~errors
  /\ stage = "aborted" => errors

\* What is still to be read belongs to the file being read, a wanted one.
TodoInv ==
  /\ stage = "segments" => pos \in fwanted /\ todo \subseteq NamesIn(pos, FragKinds)
  /\ stage = "definitions" /\ todo # {} =>
       pos \in fwanted /\ todo \subseteq NamesIn(pos, {"value"})
  /\ stage \in {"check", "linked"} => todo = {}

\* What has been laid out: each name once, and it has its elements and value.
LaidInv ==
  /\ \A x, y \in Laid : x[2] = y[2] => x = y
  /\ \A x \in Laid :
       /\ x[1] \in fwanted /\ x[2] \in wanted \cap fragment
       /\ entry[x[1]][x[2]] \in FragKinds
       /\ entry[x[1]][x[2]] = "bigcomm" => elts[x[2]] = 40
       /\ x[2] \in Special => errors
       /\ x[2] \notin Special => val[x[2]] = x[1]
       /\ stage = "segments" => x[1] <= pos /\ (x[1] = pos => x[2] \notin todo)
  /\ fragment \subseteq LaidOut \cup segments
  /\ \A n \in Names : elts[n] # 0 => n \in LaidOut
  /\ \A i, j \in DOMAIN layout : layout[i][2] = layout[j][2] => i = j

\* Before the definitions only fragments have values, and what -T gave one.
EarlyValuesInv ==
  stage \in {"pass1", "segments"} =>
    \A n \in Names : val[n] # NoValue => n \in LaidOut \cup Starts

SkippedInv ==
  \A s \in skipped : \/ s[2] \in warned \/ s[1] \in member
                     \/ s[2] \in Special /\ errors

\* The areas of file f read so far in this round include what it has on n.
Passed(f, n) == f < pos \/ (f = pos /\ n \notin todo)

LateStages == {"definitions", "check", "linked"}

\* No wanted fragment was passed over, and the earliest was taken.
FragmentsInv ==
  (stage = "segments" /\ ~errors) \/ stage \in LateStages =>
    \A f \in fwanted : \A n \in wanted : entry[f][n] \in FragKinds =>
      /\ (stage = "segments" => Passed(f, n)) => n \in LaidOut
      /\ \A x \in Laid : x[2] = n => x[1] <= f

\* The same of assignments: the earliest one read of a wanted name with no
\* fragment is its value.
AssignmentsInv ==
  stage \in LateStages =>
    /\ \A f \in fwanted : \A n \in wanted \ Special :
         /\ entry[f][n] = "value"
         /\ stage = "definitions" => Passed(f, n)
         => val[n] # NoValue
    /\ \A n \in Names \ Special : n \notin LaidOut /\ val[n] # NoValue =>
         /\ val[n] \in fwanted /\ entry[val[n]][n] = "value"
         /\ \A f \in fwanted : entry[f][n] = "value" => val[n] <= f

\* Only an error takes a size away from the linker.
SizesInv ==
  stage \in LateStages /\ ~errors => \A s \in segments : val[SizeOf[s]] = FromLinker

LIInv ==
  /\ LTypeOK /\ TablesInv /\ StageInv /\ TodoInv /\ LaidInv /\ EarlyValuesInv
  /\ SkippedInv /\ FragmentsInv /\ AssignmentsInv /\ SizesInv /\ CommonMerges

-----------------------------------------------------------------------------
(* Positions and layouts *)

\* The wanted file visited next is the first one behind the current one.
LEMMA NextWantedFacts ==
  ASSUME fwanted \in SUBSET Files, NEW p \in 0..MaxFiles
  PROVE  /\ NextWanted(p) \in 0..MaxFiles
         /\ NextWanted(p) = 0 => \A f \in fwanted : f <= p
         /\ NextWanted(p) # 0 => /\ NextWanted(p) \in fwanted /\ p < NextWanted(p)
                                /\ \A f \in fwanted : f <= p \/ NextWanted(p) <= f
<1> DEFINE rest == {f \in fwanted : f > p}
<1>1. CASE rest = {}
  BY <1>1, BoundsAssumption DEF NextWanted, Files
<1>2. CASE rest # {}
  <2>1. rest \in SUBSET Nat
    <3>1. Files \subseteq Nat
      BY BoundsAssumption DEF Files
    <3>2. rest \subseteq fwanted
      OBVIOUS
    <3> QED
      BY <3>1, <3>2
  <2>2. \E f \in rest : \A g \in rest : f <= g
    BY <1>2, <2>1, LeastNat
  <2>3. NextWanted(p) = CHOOSE f \in rest : \A g \in rest : f <= g
    BY <1>2 DEF NextWanted
  <2> HIDE DEF rest
  <2>4. NextWanted(p) \in rest /\ \A g \in rest : NextWanted(p) <= g
    BY <2>2, <2>3
  <2>5. NextWanted(p) \in fwanted /\ NextWanted(p) > p
    BY <2>4 DEF rest
  <2>6. NextWanted(p) \in Files
    BY <2>5
  <2>7. ASSUME NEW f \in fwanted  PROVE f <= p \/ NextWanted(p) <= f
    <3>1. CASE f > p
      BY <3>1, <2>4 DEF rest
    <3>2. CASE ~(f > p)
      BY <3>2 DEF Files
    <3> QED
      BY <3>1, <3>2
  <2> QED
    BY <2>5, <2>6, <2>7, BoundsAssumption DEF Files
<1> QED
  BY <1>1, <1>2

\* The names laid out are those of the fragments laid out.
LEMMA LaidOutNames == LaidOut = {x[2] : x \in Laid}
BY DEF LaidOut, Laid

\* Laying out one more fragment.
LEMMA LayoutGrows ==
  ASSUME layout \in Seq(Files \X Names), NEW e \in Files \X Names,
         layout' = Append(layout, e), e[2] \notin LaidOut,
         \A i, j \in DOMAIN layout : layout[i][2] = layout[j][2] => i = j
  PROVE  /\ layout' \in Seq(Files \X Names)
         /\ Laid' = Laid \cup {e} /\ LaidOut' = LaidOut \cup {e[2]}
         /\ \A i, j \in DOMAIN layout' : layout'[i][2] = layout'[j][2] => i = j
<1>1. /\ layout' \in Seq(Files \X Names)
      /\ DOMAIN layout = 1..Len(layout) /\ Len(layout) \in Nat
      /\ DOMAIN layout' = 1..(Len(layout) + 1)
      /\ \A i \in DOMAIN layout : layout'[i] = layout[i]
      /\ layout'[Len(layout) + 1] = e
  OBVIOUS
<1>2. Laid' = Laid \cup {e}
  <2>1. ASSUME NEW x \in Laid'  PROVE x \in Laid \cup {e}
    BY <1>1 DEF Laid
  <2>2. ASSUME NEW x \in Laid  PROVE x \in Laid'
    BY <1>1 DEF Laid
  <2>3. e \in Laid'
    BY <1>1 DEF Laid
  <2> QED
    BY <2>1, <2>2, <2>3
<1>3. LaidOut' = LaidOut \cup {e[2]}
  <2>1. LaidOut' = {x[2] : x \in Laid'}
    BY DEF LaidOut, Laid
  <2> QED
    BY <2>1, <1>2, LaidOutNames
<1>4. ASSUME NEW i \in DOMAIN layout', NEW j \in DOMAIN layout',
             layout'[i][2] = layout'[j][2]
      PROVE  i = j
  <2>1. \A k \in DOMAIN layout : layout[k][2] # e[2]
    BY DEF LaidOut
  <2> QED
    BY <1>1, <1>4, <2>1
<1> QED
  BY <1>1, <1>2, <1>3, <1>4

-----------------------------------------------------------------------------
(* The initial state and the steps of the first pass *)

LInv == IInv /\ LIInv

\* The second pass starts with empty tables.
LEMMA InitLInv == LInit => LInv
<1> SUFFICES ASSUME LInit PROVE LInv
  OBVIOUS
<1>1. IInv
  BY InitIInv DEF LInit
<1>2. LTypeOK
  BY BoundsAssumption DEF LInit, LTypeOK, Stages, Values, FromLinker, NoValue
<1>3. TablesInv
  BY KindsAssumption DEF LInit, Init, TablesInv
<1>4. StageInv /\ TodoInv /\ EarlyValuesInv /\ SkippedInv
  BY DEF LInit, Init, StageInv, TodoInv, EarlyValuesInv, SkippedInv, NoValue
<1>5. LaidInv
  BY DEF LInit, LaidInv, Laid, LaidOut
<1>6. FragmentsInv /\ AssignmentsInv /\ SizesInv /\ CommonMerges
  BY DEF LInit, FragmentsInv, AssignmentsInv, SizesInv, LateStages, CommonMerges
<1> QED
  BY <1>1, <1>2, <1>3, <1>4, <1>5, <1>6 DEF LInv, LIInv

\* A definition read in the first pass is warned about or excused.
LEMMA DefinedNameTables ==
  ASSUME IInv, TablesInv, NEW n \in Names, NEW kind \in DefKinds,
         ReadDefinedName(n, kind)
  PROVE  TablesInv'
<1>1. /\ nifiles \in Files /\ entry \in [Files -> [Names -> Kinds]]
      /\ entry[nifiles][n] = "none"
  BY DEF ReadDefinedName, IInv, TypeOK
<1>2. entry' = [entry EXCEPT ![nifiles] = [entry[nifiles] EXCEPT ![n] = kind]]
  BY DEF ReadDefinedName
<1>3. \A f \in Files, m \in Names :
        entry'[f][m] = IF f = nifiles /\ m = n THEN kind ELSE entry[f][m]
  BY <1>1, <1>2
<1>4. /\ common \subseteq common' /\ warned \subseteq warned'
      /\ common' \subseteq common \cup {n}
      /\ n \in common' => n \in common \/ kind \in {"comm", "bigcomm"}
      /\ UNCHANGED <<member, nifiles>>
      /\ n \in defined \ common' /\ nifiles \notin member => n \in warned'
  BY DEF ReadDefinedName
<1>5. \A f \in Files, m \in Names : entry'[f][m] \in DefKinds \cup {"none", "ref"}
  BY <1>3 DEF TablesInv
<1>6. ASSUME NEW m \in common'
      PROVE  \E f \in Files : entry'[f][m] \in {"comm", "bigcomm"}
  <2>0. m \in Names
    BY <1>4 DEF IInv, TypeOK
  <2>1. CASE m \in common
    <3>1. PICK f \in Files : entry[f][m] \in {"comm", "bigcomm"}
      BY <2>1 DEF TablesInv
    <3>2. ~(f = nifiles /\ m = n)
      BY <3>1, <1>1
    <3> QED
      BY <3>1, <3>2, <2>0, <1>3
  <2>2. CASE m \notin common
    BY <2>2, <2>0, <1>1, <1>3, <1>4
  <2> QED
    BY <2>1, <2>2
<1>7. ASSUME NEW f \in Files, NEW g \in Files, NEW m \in Names,
             g < f, entry'[g][m] \in DefKinds, entry'[f][m] \in DefKinds,
             m \notin common', f \notin member'
      PROVE  m \in warned'
  <2>1. "none" \notin DefKinds
    BY KindsAssumption
  <2>2. CASE f = nifiles /\ m = n
    <3>1. entry[g][m] \in DefKinds
      BY <2>2, <1>3, <1>7 DEF Files
    <3>2. m \in defined
      BY <3>1 DEF IInv, FirstSourceIsEarliest, DefinedIn
    <3> QED
      BY <2>2, <3>2, <1>4, <1>7
  <2>3. CASE g = nifiles /\ m = n
    <3>1. f > nifiles /\ entry'[f][m] = entry[f][m]
      BY <2>3, <1>1, <1>3, <1>7, BoundsAssumption DEF Files
    <3>2. entry[f][m] = "none"
      BY <3>1 DEF IInv, UnopenedAreEmpty
    <3> QED
      BY <3>1, <3>2, <2>1, <1>7
  <2>4. CASE ~(f = nifiles /\ m = n) /\ ~(g = nifiles /\ m = n)
    <3>1. entry[g][m] \in DefKinds /\ entry[f][m] \in DefKinds
      BY <2>4, <1>3, <1>7
    <3>2. m \notin common /\ f \notin member
      BY <1>4, <1>7
    <3>3. m \in warned
      BY <3>1, <3>2, <1>7 DEF TablesInv
    <3> QED
      BY <3>3, <1>4
  <2> QED
    BY <2>2, <2>3, <2>4
<1> QED
  BY <1>5, <1>6, <1>7 DEF TablesInv

\* A reference is no definition.
LEMMA ReferredNameTables ==
  ASSUME IInv, TablesInv, NEW n \in Names, ReadReferredName(n)
  PROVE  TablesInv'
<1>1. /\ nifiles \in Files /\ entry \in [Files -> [Names -> Kinds]]
      /\ entry[nifiles][n] = "none"
  BY DEF ReadReferredName, IInv, TypeOK
<1>2. entry' = [entry EXCEPT ![nifiles] = [entry[nifiles] EXCEPT ![n] = "ref"]]
  BY DEF ReadReferredName
<1>3. \A f \in Files, m \in Names :
        entry'[f][m] = IF f = nifiles /\ m = n THEN "ref" ELSE entry[f][m]
  BY <1>1, <1>2
<1>4. UNCHANGED <<common, warned, member>>
  BY DEF ReadReferredName, graphVars
<1>5. \A f \in Files, m \in Names : entry'[f][m] \in DefKinds \cup {"none", "ref"}
  BY <1>3 DEF TablesInv
<1>6. \A f \in Files, m \in Names :
        /\ entry'[f][m] \in DefKinds => entry[f][m] \in DefKinds
        /\ entry[f][m] \in {"comm", "bigcomm"} => entry'[f][m] \in {"comm", "bigcomm"}
  BY <1>1, <1>3, KindsAssumption
<1>7. \A m \in common' : \E f \in Files : entry'[f][m] \in {"comm", "bigcomm"}
  BY <1>4, <1>6 DEF TablesInv, IInv, TypeOK
<1>8. ASSUME NEW f \in Files, NEW g \in Files, NEW m \in Names,
             g < f, entry'[g][m] \in DefKinds, entry'[f][m] \in DefKinds,
             m \notin common', f \notin member'
      PROVE  m \in warned'
  BY <1>4, <1>6, <1>8 DEF TablesInv
<1> QED
  BY <1>5, <1>7, <1>8 DEF TablesInv

\* The tables only depend on entries, commons, warnings and members.
LEMMA SameTables ==
  ASSUME TablesInv, UNCHANGED <<entry, common, warned>>,
         member \subseteq member'
  PROVE  TablesInv'
BY DEF TablesInv

\* The first pass leaves tables that the second can rely on.
LEMMA NextTables ==
  ASSUME IInv, TablesInv, Next
  PROVE  TablesInv'
<1>1. ASSUME NEW n \in Names, NEW kind \in DefKinds, ReadDefinedName(n, kind)
      PROVE  TablesInv'
  BY <1>1, DefinedNameTables
<1>2. ASSUME NEW n \in Names, ReadReferredName(n) PROVE TablesInv'
  BY <1>2, ReferredNameTables
<1>3. ASSUME ~ \E n \in Names, kind \in DefKinds : ReadDefinedName(n, kind),
             ~ \E n \in Names : ReadReferredName(n)
      PROVE  UNCHANGED <<entry, common, warned>> /\ member \subseteq member'
  BY <1>3 DEF Next, ReadRecord, OptHook, OptAlign, StartFiles,
       OpenExplicit, OpenLibrary, OpenFile, MissingLibrary, NextMember,
       EndArchive, ReadMarker, ReadBadTag, ReadBadIndex, CannotOpen,
       EndExplicit, EndLibraries, ReadNeed, graphVars, fileVars
<1> QED
  BY <1>1, <1>2, <1>3, SameTables

\* Nothing happens in the first pass once it has succeeded, and it does not
\* succeed when there are errors.
LEMMA NextPhase ==
  ASSUME IInv, Next
  PROVE  phase # "resolved" /\ (phase' = "resolved" => ~errors')
<1>1. phase \notin {"explicit", "libs"} => area = "idle" /\ ~archive
  BY DEF IInv, QuietOutsideLoops
<1>2. phase # "resolved"
  BY <1>1 DEF Next, ReadRecord, OptHook, OptAlign, StartFiles,
       OpenExplicit, OpenLibrary, OpenFile, MissingLibrary, NextMember,
       EndArchive, ReadMarker, ReadBadTag, ReadBadIndex, CannotOpen,
       EndExplicit, EndLibraries, ReadDefinedName, ReadReferredName, ReadNeed
<1>3. CASE EndLibraries
  BY <1>3 DEF EndLibraries, PassFails
<1>4. CASE ~EndLibraries
  BY <1>2, <1>4 DEF Next, ReadRecord, OptHook, OptAlign, StartFiles,
       OpenExplicit, OpenLibrary, OpenFile, MissingLibrary, NextMember,
       EndArchive, ReadMarker, ReadBadTag, ReadBadIndex, CannotOpen,
       EndExplicit, ReadDefinedName, ReadReferredName, ReadNeed
<1> QED
  BY <1>2, <1>3, <1>4

\* A step of the first pass.
LEMMA Pass1Step ==
  ASSUME LInv, Pass1
  PROVE  LInv'
<1> USE DEF LInv, LIInv
<1>1. IInv'
  BY NextIInv DEF Pass1
<1>2. TablesInv'
  BY NextTables DEF Pass1
<1>3. stage = "pass1" /\ (phase' = "resolved" => ~errors')
  BY NextPhase DEF Pass1, StageInv
<1>4. UNCHANGED <<stage, pos, todo, segments, fragment, elts, val, layout, skipped>>
  BY DEF Pass1, pvars
<1>5. layout = <<>> /\ skipped = {} /\ fragment = {}
      /\ \A n \in Names : elts[n] = 0
  BY <1>3 DEF StageInv
<1>6. Laid' = {} /\ LaidOut' = {} /\ LaidOut = {}
  BY <1>4, <1>5 DEF Laid, LaidOut
<1>7. LTypeOK'
  BY <1>4 DEF LTypeOK
<1>8. StageInv'
  BY <1>3, <1>4 DEF StageInv
<1>9. TodoInv' /\ SkippedInv'
  BY <1>3, <1>4, <1>5 DEF TodoInv, SkippedInv
<1>10. LaidInv'
  BY <1>4, <1>5, <1>6 DEF LaidInv
<1>11. EarlyValuesInv'
  BY <1>4, <1>6 DEF EarlyValuesInv
<1>12. FragmentsInv' /\ AssignmentsInv' /\ SizesInv' /\ CommonMerges'
  BY <1>3, <1>4 DEF FragmentsInv, AssignmentsInv, SizesInv, CommonMerges, LateStages
<1> QED
  BY <1>1, <1>2, <1>7, <1>8, <1>9, <1>10, <1>11, <1>12

-----------------------------------------------------------------------------
(* The steps of the second pass *)

\* The second pass changes nothing of the first but the error count.
LEMMA FirstPassKept ==
  ASSUME IInv, TablesInv, UNCHANGED errorVars, errors' \in BOOLEAN
  PROVE  IInv' /\ TablesInv'
<1>1. UNCHANGED graphVars /\ UNCHANGED <<phase, area, archive, nifiles, nlibs, member, entry>>
  BY DEF errorVars
<1>2. GraphPart'
  BY <1>1, GraphUnchanged DEF IInv, GraphPart
<1>3. TypeOK'
  BY <1>1 DEF IInv, TypeOK, graphVars
<1>4. FirstSourceIsEarliest' /\ UnopenedAreEmpty' /\ QuietOutsideLoops'
  BY <1>1 DEF IInv, FirstSourceIsEarliest, DefinedIn, UnopenedAreEmpty,
       QuietOutsideLoops, graphVars
<1>5. TablesInv'
  BY <1>1, SameTables DEF graphVars
<1> QED
  BY <1>2, <1>3, <1>4, <1>5 DEF IInv, GraphPart

\* In particular when it leaves that alone as well.
LEMMA FirstPassSame ==
  ASSUME LInv, UNCHANGED rvars
  PROVE  IInv' /\ TablesInv'
<1>1. UNCHANGED errorVars /\ UNCHANGED errors
  BY DEF rvars, errorVars, graphVars
<1>2. errors' \in BOOLEAN
  BY <1>1 DEF LInv, IInv, TypeOK
<1> QED
  BY <1>1, <1>2, FirstPassKept DEF LInv, LIInv

\* Option -T gives a value to the start of a segment only.
LEMMA OptTStep ==
  ASSUME LInv, NEW n \in Starts, OptT(n)
  PROVE  LInv'
<1> USE DEF LInv, LIInv
<1>1. UNCHANGED rvars
      /\ UNCHANGED <<stage, pos, todo, segments, fragment, elts, layout, skipped>>
  BY DEF OptT
<1>2. UNCHANGED <<phase, entry, common, wanted, fwanted, warned, errors, member>>
  BY <1>1 DEF rvars
<1>3. stage = "pass1"
  BY DEF OptT, StageInv
<1>4. layout = <<>> /\ skipped = {} /\ fragment = {}
      /\ \A m \in Names : elts[m] = 0
  BY <1>3 DEF StageInv
<1>5. Laid' = {} /\ LaidOut' = {}
  BY <1>1, <1>4 DEF Laid, LaidOut
<1>6. val' = [val EXCEPT ![n] = FromLinker] /\ val \in [Names -> Values]
  BY DEF OptT, LTypeOK
<1>7. LTypeOK'
  <2>1. FromLinker \in Values
    BY BoundsAssumption DEF Values, FromLinker
  <2>2. val' \in [Names -> Values]
    BY <1>6, <2>1
  <2> QED
    BY <1>1, <2>2 DEF LTypeOK
<1>8. StageInv' /\ TodoInv' /\ SkippedInv'
  BY <1>1, <1>2, <1>3, <1>4 DEF StageInv, TodoInv, SkippedInv
<1>9. LaidInv'
  BY <1>1, <1>4, <1>5 DEF LaidInv
<1>10. EarlyValuesInv'
  <2>1. ASSUME NEW m \in Names, val'[m] # NoValue  PROVE m \in Starts
    <3>1. CASE m = n
      BY <3>1
    <3>2. CASE m # n
      BY <3>2, <2>1, <1>3, <1>4, <1>6 DEF EarlyValuesInv, LaidOut
    <3> QED
      BY <3>1, <3>2
  <2> QED
    BY <2>1 DEF EarlyValuesInv
<1>11. FragmentsInv' /\ AssignmentsInv' /\ SizesInv' /\ CommonMerges'
  BY <1>1, <1>3 DEF FragmentsInv, AssignmentsInv, SizesInv, CommonMerges, LateStages
<1> QED
  BY <1>1, <1>7, <1>8, <1>9, <1>10, <1>11, FirstPassSame

\* The next wanted file of the first round.
LEMMA OpenSegmentsStep ==
  ASSUME LInv, OpenSegments
  PROVE  LInv'
<1> USE DEF LInv, LIInv
<1>1. UNCHANGED rvars /\ UNCHANGED <<segments, fragment, elts, val, layout, skipped>>
  BY DEF OpenSegments
<1>2. UNCHANGED <<phase, entry, common, wanted, fwanted, warned, errors, member>>
  BY <1>1 DEF rvars
<1>3. /\ stage' = "segments" /\ stage \in {"pass1", "segments"} /\ todo = {}
      /\ phase = "resolved" /\ (stage = "pass1" => pos = 0 /\ layout = <<>>)
      /\ pos' = NextWanted(pos) /\ pos' # 0
      /\ todo' = {m \in Names : entry[pos'][m] \in FragKinds}
  BY <1>1, <1>2 DEF OpenSegments, StageInv, NamesIn
<1>4. fwanted \in SUBSET Files /\ pos \in 0..MaxFiles
  BY DEF IInv, TypeOK, LTypeOK
<1>5. /\ pos' \in 0..MaxFiles /\ pos' \in fwanted /\ pos < pos'
      /\ \A f \in fwanted : f <= pos \/ pos' <= f
  BY <1>3, <1>4, NextWantedFacts
<1>6. Laid' = Laid /\ LaidOut' = LaidOut
  BY <1>1 DEF Laid, LaidOut
<1>7. LTypeOK'
  BY <1>1, <1>3, <1>5 DEF LTypeOK, Stages
<1>8. StageInv' /\ SkippedInv'
  BY <1>1, <1>2, <1>3 DEF StageInv, SkippedInv
<1>9. TodoInv'
  BY <1>2, <1>3, <1>5 DEF TodoInv, NamesIn
<1>10. LaidInv'
  <2>1. ASSUME NEW x \in Laid
        PROVE  x[1] <= pos' /\ (x[1] = pos' => x[2] \notin todo')
    <3>1. stage = "segments"
      BY <1>3 DEF Laid
    <3>2. x[1] <= pos /\ x[1] \in Files
      BY <3>1, <1>4 DEF LaidInv
    <3> QED
      BY <3>2, <1>4, <1>5, BoundsAssumption DEF Files
  <2> QED
    BY <1>1, <1>2, <1>6, <2>1 DEF LaidInv
<1>11. EarlyValuesInv'
  BY <1>1, <1>3, <1>6 DEF EarlyValuesInv
<1>12. FragmentsInv'
  <2>1. ASSUME ~errors, NEW f \in fwanted, NEW m \in wanted,
               entry[f][m] \in FragKinds
        PROVE  /\ Passed(f, m)' => m \in LaidOut
               /\ \A x \in Laid : x[2] = m => x[1] <= f
    <3>0. m \in Names
      BY DEF IInv, TypeOK
    <3>1. CASE stage = "pass1"
      <4>1. Laid = {} /\ pos = 0
        BY <3>1, <1>3 DEF Laid
      <4>2. pos' <= f
        BY <4>1, <1>4, <1>5, BoundsAssumption DEF Files
      <4>3. ~(f < pos')
        BY <4>2, <1>4, <1>5, BoundsAssumption DEF Files
      <4>4. f = pos' => m \in todo'
        BY <3>0, <1>3, <2>1
      <4> QED
        BY <4>1, <4>3, <4>4 DEF Passed
    <3>2. CASE stage = "segments"
      <4>1. /\ Passed(f, m) => m \in LaidOut
            /\ \A x \in Laid : x[2] = m => x[1] <= f
        BY <3>2, <2>1 DEF FragmentsInv
      <4>2. f = pos' => m \in todo'
        BY <3>0, <1>3, <2>1
      <4>3. f < pos' => f <= pos
        BY <1>4, <1>5, BoundsAssumption DEF Files
      <4>4. f <= pos => f < pos \/ f = pos
        BY <1>4, BoundsAssumption DEF Files
      <4> QED
        BY <4>1, <4>2, <4>3, <4>4, <1>3 DEF Passed
    <3> QED
      BY <3>1, <3>2, <1>3
  <2> QED
    BY <1>2, <1>3, <1>6, <2>1 DEF FragmentsInv, LateStages
<1>13. AssignmentsInv' /\ SizesInv'
  BY <1>3 DEF AssignmentsInv, SizesInv, LateStages
<1>14. CommonMerges'
  BY <1>2, <1>3 DEF CommonMerges, StageInv
<1> QED
  BY <1>1, <1>7, <1>8, <1>9, <1>10, <1>11, <1>12, <1>13, <1>14, FirstPassSame

\* A segment is set up: its start name is special.
LEMMA ReadSegmentStep ==
  ASSUME LInv, NEW s \in Starts, ReadSegment(s)
  PROVE  LInv'
<1> USE DEF LInv, LIInv
<1>1. /\ UNCHANGED rvars /\ UNCHANGED <<stage, pos, todo, elts, val, layout, skipped>>
      /\ segments' = segments \cup {s} /\ fragment' = fragment \cup {s}
      /\ stage = "segments"
  BY DEF ReadSegment
<1>2. UNCHANGED <<phase, entry, common, wanted, fwanted, warned, errors, member>>
  BY <1>1 DEF rvars
<1>3. s \in Names
  BY SegmentsAssumption, NamesAssumption
<1>4. Laid' = Laid /\ LaidOut' = LaidOut
  BY <1>1 DEF Laid, LaidOut
<1>5. LTypeOK'
  BY <1>1, <1>3 DEF LTypeOK
<1>6. StageInv' /\ SkippedInv' /\ TodoInv'
  BY <1>1, <1>2 DEF StageInv, SkippedInv, TodoInv, NamesIn
<1>7. LaidInv'
  BY <1>1, <1>2, <1>4 DEF LaidInv
<1>8. EarlyValuesInv'
  BY <1>1, <1>4 DEF EarlyValuesInv
<1>9. FragmentsInv'
  BY <1>1, <1>2, <1>4 DEF FragmentsInv, LateStages, Passed
<1>10. AssignmentsInv' /\ SizesInv'
  BY <1>1 DEF AssignmentsInv, SizesInv, LateStages
<1>11. CommonMerges'
  BY <1>1, <1>2 DEF CommonMerges
<1> QED
  BY <1>1, <1>5, <1>6, <1>7, <1>8, <1>9, <1>10, <1>11, FirstPassSame

\* What the record of a fragment finds.
LEMMA FragmentFound ==
  ASSUME LInv, NEW n \in todo, stage = "segments"
  PROVE  /\ n \in Names /\ pos \in fwanted /\ pos \in Files
         /\ entry[pos][n] \in FragKinds /\ entry[pos][n] \in DefKinds
         /\ n \in LaidOut => /\ n \in wanted \cap fragment
                             /\ \E x \in Laid : /\ x[2] = n /\ x[1] < pos /\ x[1] \in Files
                                                /\ entry[x[1]][n] \in FragKinds \cap DefKinds
         /\ n \in fragment \ LaidOut => n \in Special
<1> USE DEF LInv, LIInv
<1>1. n \in Names /\ pos \in fwanted /\ entry[pos][n] \in FragKinds
  BY DEF LTypeOK, TodoInv, NamesIn
<1>2. pos \in Files /\ fwanted \in SUBSET Files
  BY <1>1 DEF IInv, TypeOK
<1>3. \A f \in Files : \A m \in Names : entry[f][m] \in FragKinds => entry[f][m] \in DefKinds
  BY DEF TablesInv, FragKinds
<1>4. ASSUME n \in LaidOut
      PROVE  /\ n \in wanted \cap fragment
             /\ \E x \in Laid : /\ x[2] = n /\ x[1] < pos /\ x[1] \in Files
                                /\ entry[x[1]][n] \in FragKinds \cap DefKinds
  <2>1. PICK x \in Laid : x[2] = n
    BY <1>4, LaidOutNames
  <2>2. /\ x[1] \in fwanted /\ n \in wanted \cap fragment
        /\ entry[x[1]][n] \in FragKinds
        /\ x[1] <= pos /\ x[1] # pos
    BY <2>1 DEF LaidInv
  <2>3. x[1] \in Files
    BY <2>2, <1>2
  <2>4. x[1] < pos
    BY <2>2, <2>3, <1>2, BoundsAssumption DEF Files
  <2> QED
    BY <2>1, <2>2, <2>3, <2>4, <1>1, <1>3
<1>5. n \in fragment \ LaidOut => n \in Special
  BY SegmentsAssumption DEF LaidInv, LTypeOK
<1> QED
  BY <1>1, <1>2, <1>3, <1>4, <1>5

\* The assertions before a fragment is laid out fail for special names only.
LEMMA AbortsOnlySpecial ==
  ASSUME LInv, NEW n \in todo, stage = "segments", n \notin fragment,
         elts[n] # 0 \/ val[n] # NoValue
  PROVE  n \in Special
<1>1. n \in Names /\ (n \in LaidOut => n \in fragment)
  BY FragmentFound
<1>2. n \in LaidOut \cup Starts
  BY <1>1 DEF LInv, LIInv, LaidInv, EarlyValuesInv
<1> QED
  BY <1>1, <1>2, SegmentsAssumption

\* A record of a fragment keeps the link free of errors as long as all the
\* definitions agree, as CommonMerges has it.
LEMMA FragmentMerges ==
  ASSUME LInv, NEW n \in todo, NEW el \in Elements(entry[pos][n]),
         stage = "segments", ~errors,
         \A m \in Names : \E k \in DefKinds : \A f \in Files :
           entry[f][m] \in DefKinds => entry[f][m] = k /\ m \notin Special,
         \A m \in Names : \A f, g \in Files :
           entry[f][m] = "comm" /\ entry[g][m] = "comm" => f = g
  PROVE  n \notin Special /\ (CommonInstance(n) => CommonAgrees(n, el))
<1>1. /\ n \in Names /\ pos \in Files /\ entry[pos][n] \in DefKinds
      /\ n \in LaidOut => \E x \in Laid : /\ x[2] = n /\ x[1] < pos /\ x[1] \in Files
                                          /\ entry[x[1]][n] \in FragKinds \cap DefKinds
      /\ n \in fragment \ LaidOut => n \in Special
  BY FragmentFound
<1>2. PICK k \in DefKinds : \A f \in Files :
        entry[f][n] \in DefKinds => entry[f][n] = k /\ n \notin Special
  BY <1>1
<1>3. n \notin Special
  BY <1>1, <1>2
<1>4. ASSUME CommonInstance(n)  PROVE CommonAgrees(n, el)
  <2>1. n \in common /\ n \in fragment
    BY <1>4 DEF CommonInstance
  <2>2. PICK x \in Laid : /\ x[2] = n /\ x[1] < pos /\ x[1] \in Files
                          /\ entry[x[1]][n] \in FragKinds \cap DefKinds
    BY <2>1, <1>1, <1>3
  <2>3. PICK g \in Files : entry[g][n] \in {"comm", "bigcomm"}
    BY <2>1 DEF LInv, LIInv, TablesInv
  <2>4. entry[g][n] \in DefKinds
    BY <2>3, <1>1 DEF LInv, LIInv, TablesInv
  <2>5. k \in {"comm", "bigcomm"} /\ entry[pos][n] = k /\ entry[x[1]][n] = k
    BY <2>2, <2>3, <2>4, <1>1, <1>2
  <2>6. k # "comm"
    <3>1. x[1] # pos
      BY <2>2, <1>1, BoundsAssumption DEF Files
    <3> QED
      BY <3>1, <2>2, <2>5, <1>1
  <2>7. entry[pos][n] = "bigcomm" /\ entry[x[1]][x[2]] = "bigcomm"
    BY <2>2, <2>5, <2>6
  <2>8. elts[n] = 40
    BY <2>2, <2>7 DEF LInv, LIInv, LaidInv
  <2>9. el = [tag |-> "DATA", zero |-> TRUE, size |-> 40]
    BY <2>7 DEF Elements
  <2> QED
    BY <2>8, <2>9 DEF CommonAgrees
<1> QED
  BY <1>3, <1>4

\* The record of a fragment: passed over, refused by an assertion or laid out.
LEMMA ReadFragmentStep ==
  ASSUME LInv, NEW n \in todo, NEW el \in Elements(entry[pos][n]),
         ReadFragment(n, el)
  PROVE  LInv'
<1> USE DEF LInv, LIInv
<1>1. /\ UNCHANGED errorVars /\ UNCHANGED <<pos, segments>> /\ stage = "segments"
      /\ errors' = \/ errors \/ n \in Special
                   \/ CommonInstance(n) /\ ~CommonAgrees(n, el)
  BY DEF ReadFragment
<1>2. UNCHANGED <<phase, entry, common, wanted, fwanted, warned, member>>
  BY <1>1 DEF errorVars, graphVars
<1>3. /\ errors' \in BOOLEAN /\ (errors => errors') /\ (n \in Special => errors')
      /\ CommonInstance(n) /\ ~CommonAgrees(n, el) => errors'
  BY <1>1
<1>4. /\ n \in Names /\ pos \in fwanted /\ pos \in Files
      /\ entry[pos][n] \in FragKinds /\ entry[pos][n] \in DefKinds
      /\ n \in LaidOut => /\ n \in wanted \cap fragment
                          /\ \E x \in Laid : /\ x[2] = n /\ x[1] < pos /\ x[1] \in Files
                                             /\ entry[x[1]][n] \in FragKinds \cap DefKinds
      /\ n \in fragment \ LaidOut => n \in Special
  BY <1>1, FragmentFound
<1>5. /\ todo' \subseteq todo \ {n}
      /\ ~errors' => todo' = todo \ {n}
  BY <1>3 DEF ReadFragment, CommonAgrees
<1>6. IInv' /\ TablesInv'
  BY <1>1, <1>3, FirstPassKept
<1>7. CommonMerges'
  BY <1>1, <1>2, FragmentMerges DEF CommonMerges
<1>8. SkippedInv' /\ skipped' \in SUBSET (Files \X Names)
  <2>1. ASSUME Redefinition(n)
        PROVE  n \in warned \/ pos \in member \/ (n \in Special /\ errors')
    <3>1. n \in fragment /\ n \notin common
      BY <2>1 DEF Redefinition
    <3>2. CASE n \in LaidOut
      <4>1. PICK x \in Laid : /\ x[2] = n /\ x[1] < pos /\ x[1] \in Files
                              /\ entry[x[1]][n] \in FragKinds \cap DefKinds
        BY <3>2, <1>4
      <4> QED
        BY <4>1, <3>1, <1>4 DEF TablesInv
    <3>3. CASE n \notin LaidOut
      BY <3>1, <3>3, <1>3, <1>4
    <3> QED
      BY <3>2, <3>3
  <2>2. skipped' = IF Redefinition(n) THEN skipped \cup {<<pos, n>>} ELSE skipped
    BY DEF ReadFragment
  <2>3. skipped' \in SUBSET (Files \X Names)
    BY <2>2, <1>4 DEF LTypeOK
  <2>4. ASSUME NEW s \in skipped'
        PROVE  s[2] \in warned \/ s[1] \in member \/ (s[2] \in Special /\ errors')
    <3>1. CASE s \in skipped
      BY <3>1, <1>3 DEF SkippedInv
    <3>2. CASE s \notin skipped
      <4>1. Redefinition(n) /\ s = <<pos, n>>
        BY <3>2, <2>2, <2>4
      <4> QED
        BY <4>1, <2>1
    <3> QED
      BY <3>1, <3>2
  <2> QED
    BY <2>3, <2>4, <1>2 DEF SkippedInv
<1>9. /\ todo' \in SUBSET Names
      /\ todo' \subseteq NamesIn(pos, FragKinds)
      /\ NamesIn(pos, FragKinds)' = NamesIn(pos, FragKinds)
  BY <1>1, <1>2, <1>5 DEF LTypeOK, TodoInv, NamesIn
<1>10. CASE CommonInstance(n) \/ Redefinition(n) \/ Skipping(n)
  <2>1. UNCHANGED <<stage, fragment, elts, val, layout>>
    BY <1>10 DEF ReadFragment
  <2>2. Laid' = Laid /\ LaidOut' = LaidOut
    BY <2>1 DEF Laid, LaidOut
  <2>3. LTypeOK'
    BY <1>1, <1>8, <1>9, <2>1 DEF LTypeOK
  <2>4. StageInv' /\ TodoInv'
    BY <1>1, <1>2, <1>4, <1>9, <2>1 DEF StageInv, TodoInv
  <2>5. LaidInv'
    BY <1>1, <1>2, <1>3, <1>5, <2>1, <2>2 DEF LaidInv
  <2>6. EarlyValuesInv'
    BY <2>1, <2>2 DEF EarlyValuesInv
  <2>7. FragmentsInv'
    <3>1. ASSUME ~errors', NEW f \in fwanted, NEW m \in wanted,
                 entry[f][m] \in FragKinds
          PROVE  /\ Passed(f, m)' => m \in LaidOut
                 /\ \A x \in Laid : x[2] = m => x[1] <= f
      <4>1. ~errors
        BY <3>1, <1>3
      <4>2. /\ Passed(f, m) => m \in LaidOut
            /\ \A x \in Laid : x[2] = m => x[1] <= f
        BY <3>1, <4>1, <1>1 DEF FragmentsInv
      <4>3. m = n => m \in LaidOut
        BY <3>1, <1>3, <1>4, <1>10 DEF CommonInstance, Redefinition, Skipping
      <4>4. Passed(f, m)' => Passed(f, m) \/ m = n
        BY <3>1, <1>1, <1>5 DEF Passed
      <4> QED
        BY <4>2, <4>3, <4>4
    <3> QED
      BY <1>1, <1>2, <2>1, <2>2, <3>1 DEF FragmentsInv, LateStages
  <2>8. AssignmentsInv' /\ SizesInv'
    BY <1>1, <2>1 DEF AssignmentsInv, SizesInv, LateStages
  <2> QED
    BY <1>6, <1>7, <1>8, <2>3, <2>4, <2>5, <2>6, <2>7, <2>8
<1>11. CASE /\ ~(CommonInstance(n) \/ Redefinition(n) \/ Skipping(n))
            /\ elts[n] # 0 \/ val[n] # NoValue
  <2>1. stage' = "aborted" /\ UNCHANGED <<fragment, elts, val, layout>>
    BY <1>11 DEF ReadFragment
  <2>2. Laid' = Laid /\ LaidOut' = LaidOut
    BY <2>1 DEF Laid, LaidOut
  <2>3. n \notin fragment
    BY <1>11 DEF CommonInstance, Redefinition, Skipping
  <2>4. errors'
    BY <1>1, <1>3, <1>11, <2>3, AbortsOnlySpecial
  <2>5. LTypeOK'
    BY <1>1, <1>8, <1>9, <2>1 DEF LTypeOK, Stages
  <2>6. StageInv' /\ TodoInv'
    BY <1>1, <1>2, <2>1, <2>4 DEF StageInv, TodoInv
  <2>7. LaidInv'
    BY <1>1, <1>2, <1>3, <2>1, <2>2 DEF LaidInv
  <2>8. EarlyValuesInv' /\ FragmentsInv' /\ AssignmentsInv' /\ SizesInv'
    BY <2>1 DEF EarlyValuesInv, FragmentsInv, AssignmentsInv, SizesInv, LateStages
  <2> QED
    BY <1>6, <1>7, <1>8, <2>5, <2>6, <2>7, <2>8
<1>12. CASE /\ ~(CommonInstance(n) \/ Redefinition(n) \/ Skipping(n))
            /\ elts[n] = 0 /\ val[n] = NoValue
  <2>1. /\ fragment' = fragment \cup {n}
        /\ val' = [val EXCEPT ![n] = pos]
        /\ elts' = [elts EXCEPT ![n] = el.size]
        /\ layout' = Append(layout, <<pos, n>>)
        /\ stage' = stage
    BY <1>12 DEF ReadFragment
  <2>2. n \notin fragment /\ n \in wanted
    BY <1>12 DEF CommonInstance, Redefinition, Skipping
  <2>3. n \notin LaidOut
    BY <2>2, <1>4
  <2>4. /\ layout' \in Seq(Files \X Names)
        /\ Laid' = Laid \cup {<<pos, n>>} /\ LaidOut' = LaidOut \cup {n}
        /\ \A i, j \in DOMAIN layout' : layout'[i][2] = layout'[j][2] => i = j
    <3>1. layout \in Seq(Files \X Names) /\ <<pos, n>> \in Files \X Names
      BY <1>4 DEF LTypeOK
    <3>2. \A i, j \in DOMAIN layout : layout[i][2] = layout[j][2] => i = j
      BY DEF LaidInv
    <3>3. <<pos, n>>[2] = n
      OBVIOUS
    <3> QED
      BY <3>1, <3>2, <3>3, <2>1, <2>3, LayoutGrows
  <2>5. /\ el.size \in Nat
        /\ entry[pos][n] = "bigcomm" => el.size = 40
    BY <1>4 DEF Elements, FragKinds
  <2>6. /\ val' \in [Names -> Values] /\ elts' \in [Names -> Nat]
        /\ val'[n] = pos /\ elts'[n] = el.size
        /\ \A m \in Names \ {n} : val'[m] = val[m] /\ elts'[m] = elts[m]
    <3>1. pos \in Values
      BY <1>4, BoundsAssumption DEF Files, Values, FromLinker
    <3> QED
      BY <3>1, <2>1, <2>5, <1>4 DEF LTypeOK
  <2>7. LTypeOK'
    BY <1>1, <1>4, <1>8, <1>9, <2>1, <2>4, <2>6 DEF LTypeOK
  <2>8. StageInv' /\ TodoInv'
    BY <1>1, <1>2, <1>4, <1>9, <2>1 DEF StageInv, TodoInv
  <2>9. \A x \in Laid : x[2] # n /\ x[2] \in Names
    <3>1. \A x \in Laid : x[2] \in LaidOut
      BY LaidOutNames
    <3>2. \A x \in Laid : x[2] \in wanted
      BY DEF LaidInv
    <3> QED
      BY <3>1, <3>2, <2>3 DEF IInv, TypeOK
  <2>10. LaidInv'
    <3>1. \A x, y \in Laid' : x[2] = y[2] => x = y
      BY <2>4, <2>9 DEF LaidInv
    <3>2. ASSUME NEW x \in Laid'
          PROVE  /\ x[1] \in fwanted /\ x[2] \in wanted \cap fragment'
                 /\ entry[x[1]][x[2]] \in FragKinds
                 /\ entry[x[1]][x[2]] = "bigcomm" => elts'[x[2]] = 40
                 /\ x[2] \in Special => errors'
                 /\ x[2] \notin Special => val'[x[2]] = x[1]
                 /\ x[1] <= pos /\ (x[1] = pos => x[2] \notin todo')
      <4>1. CASE x \in Laid
        BY <4>1, <2>1, <2>6, <2>9, <1>1, <1>3, <1>5 DEF LaidInv
      <4>2. CASE x = <<pos, n>>
        <5>1. x[1] = pos /\ x[2] = n
          BY <4>2
        <5>2. pos <= pos
          BY <1>4, BoundsAssumption DEF Files
        <5> QED
          BY <5>1, <5>2, <2>1, <2>2, <2>5, <2>6, <1>3, <1>4, <1>5
      <4> QED
        BY <4>1, <4>2, <2>4
    <3>3. fragment' \subseteq LaidOut' \cup segments'
      BY <1>1, <2>1, <2>4 DEF LaidInv
    <3>4. \A m \in Names : elts'[m] # 0 => m \in LaidOut'
      BY <2>4, <2>6 DEF LaidInv
    <3> QED
      BY <3>1, <3>2, <3>3, <3>4, <2>4, <1>1, <1>2 DEF LaidInv
  <2>11. EarlyValuesInv'
    BY <1>1, <2>1, <2>4, <2>6 DEF EarlyValuesInv
  <2>12. FragmentsInv'
    <3>1. ASSUME ~errors', NEW f \in fwanted, NEW m \in wanted,
                 entry[f][m] \in FragKinds
          PROVE  /\ Passed(f, m)' => m \in LaidOut'
                 /\ \A x \in Laid' : x[2] = m => x[1] <= f
      <4>1. ~errors
        BY <3>1, <1>3
      <4>2. /\ Passed(f, m) => m \in LaidOut
            /\ \A x \in Laid : x[2] = m => x[1] <= f
        BY <3>1, <4>1, <1>1 DEF FragmentsInv
      <4>3. Passed(f, m)' => Passed(f, m) \/ m = n
        BY <3>1, <1>1, <1>5 DEF Passed
      <4>4. ASSUME m = n  PROVE pos <= f
        <5>1. ~(f < pos)
          BY <4>2, <4>4, <2>3 DEF Passed
        <5>2. f \in Files
          BY DEF IInv, TypeOK
        <5> QED
          BY <5>1, <5>2, <1>4, BoundsAssumption DEF Files
      <4> QED
        BY <4>2, <4>3, <4>4, <2>4
    <3> QED
      BY <1>1, <1>2, <2>1, <3>1 DEF FragmentsInv, LateStages
  <2>13. AssignmentsInv' /\ SizesInv'
    BY <1>1, <2>1 DEF AssignmentsInv, SizesInv, LateStages
  <2> QED
    BY <1>6, <1>7, <1>8, <2>7, <2>8, <2>10, <2>11, <2>12, <2>13
<1> QED
  BY <1>10, <1>11, <1>12

\* The sizes of the segments are assigned after the last segments area.
LEMMA EndSegmentsStep ==
  ASSUME LInv, EndSegments
  PROVE  LInv'
<1> USE DEF LInv, LIInv
<1>1. /\ UNCHANGED rvars
      /\ UNCHANGED <<todo, segments, fragment, elts, layout, skipped>>
      /\ pos' = 0 /\ stage \in {"pass1", "segments"} /\ NextWanted(pos) = 0
      /\ todo = {} /\ phase = "resolved"
  BY DEF EndSegments, StageInv
<1>2. UNCHANGED <<phase, entry, common, wanted, fwanted, warned, errors, member>>
  BY <1>1 DEF rvars
<1>3. fwanted \in SUBSET Files /\ pos \in 0..MaxFiles /\ val \in [Names -> Values]
  BY DEF IInv, TypeOK, LTypeOK
<1>4. \A f \in fwanted : f <= pos
  BY <1>1, <1>3, NextWantedFacts
<1>5. Laid' = Laid /\ LaidOut' = LaidOut
  BY <1>1 DEF Laid, LaidOut
<1>6. /\ stage' \in {"refused", "aborted", "definitions"}
      /\ stage' = "refused" => errors
      /\ stage' # "refused" => ~errors
      /\ stage' # "definitions" => val' = val
      /\ stage' = "definitions" =>
           val' = [m \in Names |-> IF \E s \in segments : SizeOf[s] = m
                                   THEN FromLinker ELSE val[m]]
      /\ stage' = "aborted" => \E s \in segments : val[SizeOf[s]] # NoValue
  BY DEF EndSegments
<1>7. ASSUME NEW s \in segments  PROVE SizeOf[s] \in Special \cap Names /\ SizeOf[s] \in Sizes
  BY SegmentsAssumption, NamesAssumption DEF LTypeOK
<1>8. stage' # "aborted"
  <2> SUFFICES ASSUME stage' = "aborted" PROVE FALSE
    OBVIOUS
  <2>1. PICK s \in segments : val[SizeOf[s]] # NoValue
    BY <1>6
  <2>2. SizeOf[s] \in LaidOut \cup Starts
    BY <1>1, <1>7, <2>1 DEF EarlyValuesInv
  <2>3. SizeOf[s] \notin Starts
    BY <1>7, SegmentsAssumption
  <2>4. errors
    <3>1. PICK x \in Laid : x[2] = SizeOf[s]
      BY <2>2, <2>3, LaidOutNames
    <3> QED
      BY <3>1, <1>7 DEF LaidInv
  <2> QED
    BY <2>4, <1>6
<1>9. LTypeOK'
  <2>1. val' \in [Names -> Values]
    <3>1. FromLinker \in Values
      BY BoundsAssumption DEF Values, FromLinker
    <3> QED
      BY <3>1, <1>3, <1>6
  <2>2. pos' \in 0..MaxFiles
    BY <1>1, BoundsAssumption
  <2> QED
    BY <1>1, <1>6, <2>1, <2>2 DEF LTypeOK, Stages
<1>10. StageInv' /\ TodoInv' /\ SkippedInv'
  BY <1>1, <1>2, <1>6, <1>8 DEF StageInv, TodoInv, SkippedInv
<1>11. \A m \in Names \ Special : val'[m] = val[m]
  BY <1>3, <1>6, <1>7
<1>12. LaidInv'
  <2>1. \A x \in Laid : x[2] \in Names
    BY DEF LaidInv, IInv, TypeOK
  <2> QED
    BY <1>1, <1>2, <1>5, <1>6, <1>11, <2>1 DEF LaidInv
<1>13. EarlyValuesInv'
  BY <1>6 DEF EarlyValuesInv
<1>14. FragmentsInv'
  <2>1. ASSUME stage' = "definitions", NEW f \in fwanted, NEW m \in wanted,
               entry[f][m] \in FragKinds
        PROVE  m \in LaidOut /\ \A x \in Laid : x[2] = m => x[1] <= f
    <3>1. stage = "segments"
      <4>1. f \in Files /\ f <= pos
        BY <1>3, <1>4
      <4>2. pos # 0
        BY <4>1, <1>3, BoundsAssumption DEF Files
      <4> QED
        BY <4>2, <1>1 DEF StageInv
    <3>2. Passed(f, m)
      BY <1>1, <1>3, <1>4, BoundsAssumption DEF Passed, Files
    <3> QED
      BY <3>1, <3>2, <1>6, <2>1 DEF FragmentsInv
  <2> QED
    BY <1>2, <1>5, <1>6, <2>1 DEF FragmentsInv, LateStages
<1>15. AssignmentsInv'
  <2>1. ASSUME stage' = "definitions", NEW m \in Names \ Special,
               m \notin LaidOut
        PROVE  val'[m] = NoValue
    BY <1>1, <1>11, <2>1, SegmentsAssumption DEF EarlyValuesInv
  <2>2. ASSUME NEW f \in fwanted, NEW m  PROVE ~Passed(f, m)'
    BY <1>1, <1>3, BoundsAssumption DEF Passed, Files
  <2> QED
    BY <1>2, <1>5, <1>6, <2>1, <2>2 DEF AssignmentsInv, LateStages
<1>16. SizesInv'
  BY <1>1, <1>6, <1>7 DEF SizesInv, LateStages
<1>17. CommonMerges'
  BY <1>1, <1>2, <1>6 DEF CommonMerges, StageInv
<1> QED
  BY <1>1, <1>9, <1>10, <1>12, <1>13, <1>14, <1>15, <1>16, <1>17, FirstPassSame

\* The next wanted file of the second round.
LEMMA OpenDefinitionsStep ==
  ASSUME LInv, OpenDefinitions
  PROVE  LInv'
<1> USE DEF LInv, LIInv
<1>1. /\ UNCHANGED rvars
      /\ UNCHANGED <<stage, segments, fragment, elts, val, layout, skipped>>
      /\ stage = "definitions" /\ todo = {}
      /\ pos' = NextWanted(pos) /\ pos' # 0
  BY DEF OpenDefinitions
<1>2. UNCHANGED <<phase, entry, common, wanted, fwanted, warned, errors, member>>
  BY <1>1 DEF rvars
<1>3. todo' = {m \in Names : entry[pos'][m] = "value"}
  BY <1>2 DEF OpenDefinitions, NamesIn
<1>4. fwanted \in SUBSET Files /\ pos \in 0..MaxFiles
  BY DEF IInv, TypeOK, LTypeOK
<1>5. /\ pos' \in 0..MaxFiles /\ pos' \in fwanted /\ pos < pos'
      /\ \A f \in fwanted : f <= pos \/ pos' <= f
  BY <1>1, <1>4, NextWantedFacts
<1>6. Laid' = Laid /\ LaidOut' = LaidOut
  BY <1>1 DEF Laid, LaidOut
<1>7. LTypeOK'
  BY <1>1, <1>3, <1>5 DEF LTypeOK
<1>8. StageInv' /\ SkippedInv' /\ EarlyValuesInv' /\ SizesInv' /\ CommonMerges'
  BY <1>1, <1>2, <1>6
     DEF StageInv, SkippedInv, EarlyValuesInv, SizesInv, CommonMerges
<1>9. TodoInv'
  BY <1>1, <1>2, <1>3, <1>5 DEF TodoInv, NamesIn
<1>10. LaidInv' /\ FragmentsInv'
  BY <1>1, <1>2, <1>6 DEF LaidInv, FragmentsInv, LateStages
<1>11. AssignmentsInv'
  <2>1. ASSUME NEW f \in fwanted, NEW m \in wanted \ Special,
               entry[f][m] = "value", Passed(f, m)'
        PROVE  val[m] # NoValue
    <3>1. m \in Names
      BY DEF IInv, TypeOK
    <3>2. f = pos' => m \in todo'
      BY <3>1, <2>1, <1>3
    <3>3. f < pos'
      BY <3>2, <2>1 DEF Passed
    <3>4. f < pos \/ f = pos
      BY <3>3, <1>4, <1>5, BoundsAssumption DEF Files
    <3>5. Passed(f, m)
      BY <3>4, <1>1 DEF Passed
    <3> QED
      BY <3>5, <2>1, <1>1 DEF AssignmentsInv, LateStages
  <2> QED
    BY <1>1, <1>2, <1>6, <2>1 DEF AssignmentsInv, LateStages
<1> QED
  BY <1>1, <1>7, <1>8, <1>9, <1>10, <1>11, FirstPassSame

\* The record of an assignment: only the first one of a name counts.
LEMMA ReadDefinitionStep ==
  ASSUME LInv, NEW n \in Names, ReadDefinition(n)
  PROVE  LInv'
<1> USE DEF LInv, LIInv
<1>1. /\ UNCHANGED errorVars
      /\ UNCHANGED <<stage, pos, segments, fragment, elts, layout, skipped>>
      /\ stage = "definitions" /\ n \in todo /\ todo' = todo \ {n}
      /\ errors' = (errors \/ SizeAssigned(n))
  BY DEF ReadDefinition
<1>2. UNCHANGED <<phase, entry, common, wanted, fwanted, warned, member>>
  BY <1>1 DEF errorVars, graphVars
<1>3. errors' \in BOOLEAN /\ (errors => errors') /\ (n \in Sizes => errors')
      /\ (errors' => errors \/ n \in Special)
  BY <1>1, SegmentsAssumption DEF SizeAssigned
<1>4. IInv' /\ TablesInv'
  BY <1>1, <1>3, FirstPassKept
<1>5. Laid' = Laid /\ LaidOut' = LaidOut
  BY <1>1 DEF Laid, LaidOut
<1>6. pos \in fwanted /\ pos \in Files /\ entry[pos][n] = "value"
  BY <1>1 DEF TodoInv, NamesIn, IInv, TypeOK
<1>7. pos # NoValue /\ pos \in Values /\ NoValue \in Values
  BY <1>6, BoundsAssumption DEF Files, NoValue, Values, FromLinker
<1>8. /\ val \in [Names -> Values] /\ val' \in [Names -> Values]
      /\ \A m \in Names \ {n} : val'[m] = val[m]
      /\ n \notin Special => val'[n] = IF n \in wanted /\ val[n] = NoValue
                                       THEN pos ELSE val[n]
  <2>1. DefinedValue(n) \in Values
    BY <1>7 DEF DefinedValue, LTypeOK
  <2>2. val' = [val EXCEPT ![n] = IF n \in Sizes THEN NoValue ELSE DefinedValue(n)]
    BY DEF ReadDefinition
  <2>3. val \in [Names -> Values]
    BY DEF LTypeOK
  <2>4. n \notin Special => n \notin Sizes
    BY SegmentsAssumption
  <2> QED
    BY <2>1, <2>2, <2>3, <2>4, <1>7 DEF DefinedValue
<1>9. LTypeOK'
  BY <1>1, <1>8 DEF LTypeOK
<1>10. StageInv' /\ SkippedInv' /\ EarlyValuesInv' /\ TodoInv'
  BY <1>1, <1>2, <1>3 DEF StageInv, SkippedInv, EarlyValuesInv, TodoInv, NamesIn
<1>11. LaidInv'
  <2>1. ASSUME NEW x \in Laid, x[2] \notin Special  PROVE val'[x[2]] = x[1]
    <3>1. x[2] \in Names /\ x[1] \in Files /\ val[x[2]] = x[1]
      BY <2>1 DEF LaidInv, IInv, TypeOK
    <3>2. x[1] # NoValue
      BY <3>1, BoundsAssumption DEF Files, NoValue
    <3> QED
      BY <3>1, <3>2, <2>1, <1>8
  <2> QED
    BY <1>1, <1>2, <1>3, <1>5, <2>1 DEF LaidInv
<1>12. FragmentsInv'
  BY <1>1, <1>2, <1>5 DEF FragmentsInv, LateStages
<1>13. AssignmentsInv'
  <2>1. ASSUME NEW f \in fwanted, NEW m \in wanted \ Special,
               entry[f][m] = "value", Passed(f, m)'
        PROVE  val'[m] # NoValue
    <3>1. m \in Names
      BY DEF IInv, TypeOK
    <3>2. CASE m = n
      BY <3>2, <2>1, <1>7, <1>8
    <3>3. CASE m # n
      <4>1. Passed(f, m)
        BY <3>3, <2>1, <1>1 DEF Passed
      <4> QED
        BY <4>1, <3>1, <3>3, <2>1, <1>1, <1>8 DEF AssignmentsInv, LateStages
    <3> QED
      BY <3>2, <3>3
  <2>2. ASSUME NEW m \in Names \ Special, m \notin LaidOut, val'[m] # NoValue
        PROVE  /\ val'[m] \in fwanted /\ entry[val'[m]][m] = "value"
               /\ \A f \in fwanted : entry[f][m] = "value" => val'[m] <= f
    <3>1. CASE val'[m] = val[m]
      BY <3>1, <2>2, <1>1 DEF AssignmentsInv, LateStages
    <3>2. CASE val'[m] # val[m]
      <4>1. m = n /\ n \in wanted \ Special /\ val[n] = NoValue /\ val'[m] = pos
        BY <3>2, <2>2, <1>8
      <4>2. ASSUME NEW f \in fwanted, entry[f][m] = "value"  PROVE pos <= f
        <5>1. ~(f < pos)
          BY <4>1, <4>2, <1>1 DEF AssignmentsInv, LateStages, Passed
        <5>2. f \in Files
          BY DEF IInv, TypeOK
        <5> QED
          BY <5>1, <5>2, <1>6, BoundsAssumption DEF Files
      <4> QED
        BY <4>1, <4>2, <1>6
    <3> QED
      BY <3>1, <3>2
  <2> QED
    BY <1>1, <1>2, <1>5, <2>1, <2>2 DEF AssignmentsInv, LateStages
<1>14. SizesInv'
  <2>1. ASSUME ~errors', NEW s \in segments  PROVE val'[SizeOf[s]] = FromLinker
    <3>1. SizeOf[s] \in Sizes /\ SizeOf[s] \in Names
      BY SegmentsAssumption, NamesAssumption DEF LTypeOK
    <3>2. n \notin Sizes /\ ~errors
      BY <2>1, <1>3
    <3> QED
      BY <3>1, <3>2, <1>1, <1>8 DEF SizesInv, LateStages
  <2> QED
    BY <1>1, <2>1 DEF SizesInv
<1>15. CommonMerges'
  <2>1. entry[pos][n] \in DefKinds
    BY <1>6 DEF TablesInv
  <2> QED
    BY <1>1, <1>2, <1>3, <1>6, <2>1 DEF CommonMerges
<1> QED
  BY <1>4, <1>9, <1>10, <1>11, <1>12, <1>13, <1>14, <1>15

\* The last definitions area has been read.
LEMMA EndDefinitionsStep ==
  ASSUME LInv, EndDefinitions
  PROVE  LInv'
<1> USE DEF LInv, LIInv
<1>1. /\ UNCHANGED rvars
      /\ UNCHANGED <<pos, todo, segments, fragment, elts, val, layout, skipped>>
      /\ stage = "definitions" /\ todo = {} /\ NextWanted(pos) = 0
      /\ stage' \in {"refused", "check"} /\ (stage' = "check" => ~errors)
  BY DEF EndDefinitions
<1>2. UNCHANGED <<phase, entry, common, wanted, fwanted, warned, errors, member>>
  BY <1>1 DEF rvars
<1>3. fwanted \in SUBSET Files /\ pos \in 0..MaxFiles
  BY DEF IInv, TypeOK, LTypeOK
<1>4. \A f \in fwanted : f <= pos
  BY <1>1, <1>3, NextWantedFacts
<1>5. Laid' = Laid /\ LaidOut' = LaidOut
  BY <1>1 DEF Laid, LaidOut
<1>6. \A f \in fwanted : \A m : Passed(f, m)
  BY <1>1, <1>3, <1>4, BoundsAssumption DEF Passed, Files
<1>7. LTypeOK' /\ StageInv' /\ TodoInv' /\ SkippedInv'
  BY <1>1, <1>2 DEF LTypeOK, Stages, StageInv, TodoInv, SkippedInv
<1>8. LaidInv' /\ EarlyValuesInv' /\ SizesInv' /\ CommonMerges'
  BY <1>1, <1>2, <1>5 DEF LaidInv, EarlyValuesInv, SizesInv, CommonMerges, LateStages
<1>9. FragmentsInv'
  BY <1>1, <1>2, <1>5 DEF FragmentsInv, LateStages
<1>10. AssignmentsInv'
  BY <1>1, <1>2, <1>5, <1>6 DEF AssignmentsInv, LateStages
<1> QED
  BY <1>1, <1>7, <1>8, <1>9, <1>10, FirstPassSame

\* check_defined changes no table.
LEMMA CheckDefinedStep ==
  ASSUME LInv, NEW garbage \in SUBSET Names, CheckDefined(garbage)
  PROVE  LInv'
<1> USE DEF LInv, LIInv
<1>1. /\ UNCHANGED rvars
      /\ UNCHANGED <<pos, todo, segments, fragment, elts, val, layout, skipped>>
      /\ stage = "check" /\ stage' \in {"refused", "linked"}
  BY DEF CheckDefined
<1>2. UNCHANGED <<phase, entry, common, wanted, fwanted, warned, errors, member>>
  BY <1>1 DEF rvars
<1>3. Laid' = Laid /\ LaidOut' = LaidOut
  BY <1>1 DEF Laid, LaidOut
<1>4. LTypeOK' /\ StageInv' /\ TodoInv' /\ SkippedInv'
  BY <1>1, <1>2 DEF LTypeOK, Stages, StageInv, TodoInv, SkippedInv
<1>5. LaidInv' /\ EarlyValuesInv' /\ SizesInv' /\ CommonMerges'
  BY <1>1, <1>2, <1>3 DEF LaidInv, EarlyValuesInv, SizesInv, CommonMerges, LateStages
<1>6. FragmentsInv' /\ AssignmentsInv'
  BY <1>1, <1>2, <1>3 DEF FragmentsInv, AssignmentsInv, LateStages
<1> QED
  BY <1>1, <1>4, <1>5, <1>6, FirstPassSame

\* Every step of the linker preserves the invariant, action by action.
LEMMA NextLInv == LInv /\ [LNext]_lvars => LInv'
<1> SUFFICES ASSUME LInv, [LNext]_lvars PROVE LInv'
  OBVIOUS
<1>1. CASE Pass1
  BY <1>1, Pass1Step
<1>2. ASSUME NEW n \in Starts, OptT(n)  PROVE LInv'
  BY <1>2, OptTStep
<1>3. CASE OpenSegments
  BY <1>3, OpenSegmentsStep
<1>4. ASSUME NEW s \in Starts, ReadSegment(s)  PROVE LInv'
  BY <1>4, ReadSegmentStep
<1>5. ASSUME NEW n \in todo, NEW el \in Elements(entry[pos][n]), ReadFragment(n, el)
      PROVE  LInv'
  BY <1>5, ReadFragmentStep
<1>6. CASE EndSegments
  BY <1>6, EndSegmentsStep
<1>7. CASE OpenDefinitions
  BY <1>7, OpenDefinitionsStep
<1>8. ASSUME NEW n \in Names, ReadDefinition(n)  PROVE LInv'
  BY <1>8, ReadDefinitionStep
<1>9. CASE EndDefinitions
  BY <1>9, EndDefinitionsStep
<1>10. ASSUME NEW garbage \in SUBSET Names, CheckDefined(garbage)  PROVE LInv'
  BY <1>10, CheckDefinedStep
<1>11. CASE UNCHANGED lvars
  <2>1. UNCHANGED rvars
        /\ UNCHANGED <<stage, pos, todo, segments, fragment, elts, val, layout, skipped>>
    BY <1>11 DEF lvars, pvars
  <2>2. UNCHANGED <<phase, entry, common, wanted, fwanted, warned, errors, member>>
    BY <2>1 DEF rvars
  <2>3. Laid' = Laid /\ LaidOut' = LaidOut
    BY <2>1 DEF Laid, LaidOut
  <2>4. LTypeOK' /\ StageInv' /\ TodoInv' /\ SkippedInv'
    BY <2>1, <2>2 DEF LInv, LIInv, LTypeOK, StageInv, TodoInv, NamesIn, SkippedInv
  <2>5. LaidInv' /\ EarlyValuesInv' /\ SizesInv' /\ CommonMerges'
    BY <2>1, <2>2, <2>3 DEF LInv, LIInv, LaidInv, EarlyValuesInv, SizesInv, CommonMerges
  <2>6. FragmentsInv' /\ AssignmentsInv'
    BY <2>1, <2>2, <2>3 DEF LInv, LIInv, FragmentsInv, AssignmentsInv, Passed
  <2> QED
    BY <2>1, <2>4, <2>5, <2>6, FirstPassSame DEF LInv, LIInv
<1> QED
  BY <1>1, <1>2, <1>3, <1>4, <1>5, <1>6, <1>7, <1>8, <1>9, <1>10, <1>11 DEF LNext

\* The invariant holds in every reachable state of the linker.
THEOREM LinkInductive == LSpec => []LInv
<1> QED
  BY InitLInv, NextLInv, PTL DEF LSpec

-----------------------------------------------------------------------------
(* What a link guarantees *)

\* However many of the visited files hold a fragment of a wanted name, it is
\* laid out once, and an unwanted one never.
THEOREM FragmentOnce == LSpec => []EachFragmentOnce
<1>1. ASSUME LInv  PROVE EachFragmentOnce
  <2>1. \A x \in Laid : x[2] \in wanted
    BY <1>1 DEF LInv, LIInv, LaidInv
  <2>2. LaidOut \subseteq wanted
    BY <2>1, LaidOutNames
  <2> QED
    BY <1>1, <2>2 DEF LInv, LIInv, LaidInv, EachFragmentOnce
<1> QED
  BY <1>1, LinkInductive, PTL

\* A finished link has laid out every wanted fragment of the files it
\* visited, and what it skipped was warned about, or is in a member of an
\* archive, or has the name of a segment's start, which is an error.
THEOREM LinkComplete == LSpec => []LinkedIsComplete
<1>1. ASSUME LInv  PROVE LinkedIsComplete
  <2>1. ASSUME stage = "linked"
        PROVE  LaidOut = {n \in wanted : \E f \in fwanted : entry[f][n] \in FragKinds}
    <3>1. ASSUME NEW n \in LaidOut
          PROVE  n \in wanted /\ \E f \in fwanted : entry[f][n] \in FragKinds
      <4>1. PICK x \in Laid : x[2] = n
        BY LaidOutNames
      <4> QED
        BY <4>1, <1>1 DEF LInv, LIInv, LaidInv
    <3>2. ASSUME NEW n \in wanted, NEW f \in fwanted, entry[f][n] \in FragKinds
          PROVE  n \in LaidOut
      BY <3>2, <2>1, <1>1 DEF LInv, LIInv, FragmentsInv, LateStages
    <3> QED
      BY <3>1, <3>2
  <2> QED
    BY <1>1, <2>1 DEF LInv, LIInv, SkippedInv, LinkedIsComplete
<1> QED
  BY <1>1, LinkInductive, PTL

\* A wanted ordinary name is laid out, with the earliest of its fragments, or
\* has the earliest of its assignments.
LEMMA WantedValue ==
  ASSUME LInv, stage \in {"check", "linked"}, NEW n \in wanted \ Special
  PROVE  /\ val[n] # NoValue /\ source[n] \in DefinedIn(n)
         /\ \/ val[n] = source[n]
            \/ entry[source[n]][n] = "value" /\ entry[val[n]][n] \in FragKinds
<1> USE DEF LInv, LIInv
<1>1. n \in Names /\ fwanted \in SUBSET Files
  BY DEF IInv, TypeOK
<1>2. phase = "resolved"
  BY DEF StageInv
<1>3. source[n] \in fwanted /\ source[n] \in DefinedIn(n)
      /\ \A f \in DefinedIn(n) : source[n] <= f
  <2>1. Unresolved = {}
    <3>1. IsFiniteSet(Unresolved)
      BY NamesAssumption, FS_Subset DEF IInv, TypeOK, Unresolved
    <3>2. undefined_wanted_count = 0
      BY <1>2 DEF IInv, QuietOutsideLoops
    <3> QED
      BY <3>1, <3>2, FS_EmptySet DEF IInv, CountIsExact
  <2>2. n \in wanted \cap defined
    BY <2>1 DEF Unresolved
  <2> QED
    BY <2>2 DEF IInv, FilesAreFirstSources, FirstSourceIsEarliest
<1>4. source[n] \in Files /\ entry[source[n]][n] \in FragKinds \cup {"value"}
  BY <1>3, KindsAssumption DEF DefinedIn, FragKinds
<1>5. CASE n \in LaidOut
  <2>1. PICK x \in Laid : x[2] = n
    BY <1>5, LaidOutNames
  <2>2. x[1] \in fwanted /\ val[n] = x[1] /\ entry[x[1]][n] \in FragKinds
    BY <2>1 DEF LaidInv
  <2>3. val[n] \in Files /\ val[n] # NoValue
    BY <2>2, <1>1, BoundsAssumption DEF Files, NoValue
  <2>4. val[n] \in DefinedIn(n)
    BY <2>2, <2>3, <1>1 DEF TablesInv, FragKinds, DefinedIn
  <2>5. entry[source[n]][n] \in FragKinds => val[n] <= source[n]
    BY <2>1, <2>2, <1>3 DEF FragmentsInv, LateStages
  <2>6. source[n] <= val[n]
    BY <2>4, <1>3
  <2>7. entry[source[n]][n] \in FragKinds => val[n] = source[n]
    BY <2>3, <2>5, <2>6, <1>4, BoundsAssumption DEF Files
  <2> QED
    BY <2>2, <2>3, <2>7, <1>3, <1>4
<1>6. CASE n \notin LaidOut
  <2>1. entry[source[n]][n] = "value"
    BY <1>3, <1>4, <1>6 DEF FragmentsInv, LateStages
  <2>2. val[n] # NoValue
    BY <2>1, <1>3 DEF AssignmentsInv, LateStages
  <2>3. /\ val[n] \in fwanted /\ entry[val[n]][n] = "value"
        /\ val[n] <= source[n]
    BY <2>1, <2>2, <1>1, <1>3, <1>6 DEF AssignmentsInv, LateStages
  <2>4. val[n] \in Files
    BY <2>3, <1>1
  <2>5. val[n] \in DefinedIn(n)
    BY <2>1, <2>3, <2>4, <1>3 DEF DefinedIn
  <2>6. val[n] = source[n]
    BY <2>3, <2>4, <2>5, <1>3, <1>4, BoundsAssumption DEF Files
  <2> QED
    BY <2>2, <2>6, <1>3
<1> QED
  BY <1>5, <1>6

\* check_defined finds a value for every wanted ordinary name.
THEOREM ValuesKnown == LSpec => []WantedHaveValues
<1>1. LInv => WantedHaveValues
  BY WantedValue DEF WantedHaveValues
<1> QED
  BY <1>1, LinkInductive, PTL

\* The value of a wanted ordinary name comes from the first file on the
\* command line that defines it, but for an assignment that a fragment of a
\* later file beats.
THEOREM FirstWins == LSpec => []FirstDefinitionWins
<1>1. LInv => FirstDefinitionWins
  BY WantedValue DEF FirstDefinitionWins
<1> QED
  BY <1>1, LinkInductive, PTL

\* A finished link has the sizes the linker computed, and an assertion of the
\* second pass fails only after an error has been reported.
THEOREM SizesOwned == LSpec => []LinkerOwnsSizes
<1>1. LInv => LinkerOwnsSizes
  BY DEF LInv, LIInv, StageInv, SizesInv, LateStages, LinkerOwnsSizes
<1> QED
  BY <1>1, LinkInductive, PTL

\* Common blocks of the same name in several files are merged without an
\* error, but for those that ast wrote as a BLOCK.
THEOREM CommonsMerge == LSpec => []CommonMerges
<1>1. LInv => CommonMerges
  BY DEF LInv, LIInv
<1> QED
  BY <1>1, LinkInductive, PTL
=============================================================================
