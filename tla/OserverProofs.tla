---------------------------- MODULE OserverProofs ----------------------------
(***************************************************************************)
(* Proofs about the link server, for any boot files, any buffer size and   *)
(* any number of signals: kill_child never runs without a child, and the   *)
(* link takes the boot files in order, each byte once.                     *)
(***************************************************************************)
EXTENDS Oserver, DataLemmas

Labels == {"none", "setup", "fork", "register", "open", "fread", "write",
           "sleep", "read", "show", "exit", "atexit", "kill", "dead"}

\* The child is there wherever the parent is behind the fork, and kill_child
\* is not registered before it.
KillInv ==
  /\ pc \in [Processes -> Labels]
  /\ registered \subseteq Processes
  /\ pc["parent"] \in {"setup", "fork"} => "parent" \notin registered
  /\ "parent" \in registered => childPid = "child"
  /\ pc["parent"] \in {"register", "open", "fread", "write", "sleep", "atexit"}
       => childPid = "child"

\* Parts[d] is what the first d arguments amount to.
Parts == CHOOSE P : IsParts(P, Given, Octet) /\ FlattenSeq(Given) = P[Len(Given)]

Done == Len(Args) - Len(args)

BootTypeOK ==
  /\ args \in Seq(DOMAIN Content)
  /\ in \in Seq(Octet) /\ buf \in Seq(Octet) /\ link \in Seq(Octet)
  /\ i \in Nat /\ i <= Len(buf)

\* The arguments that are left are the last ones.
ArgsInv ==
  /\ Len(args) <= Len(Args)
  /\ \A j \in 1..Len(args) : args[j] = Args[Done + j]

\* What the link has taken, what is left of the buffer and what is left of
\* stdin are together what the arguments so far amount to.
CountInv ==
  /\ pc["parent"] \in {"setup", "fork", "register"} =>
        Done = 0 /\ in = Content["-"] /\ link = <<>>
  /\ pc["parent"] = "open" =>
        link = Parts[Done] /\ in = IF Done = 0 THEN Content["-"] ELSE <<>>
  /\ pc["parent"] = "fread" => Done >= 1 /\ link \o in = Parts[Done]
  /\ pc["parent"] = "write" =>
        /\ Done >= 1 /\ i < Len(buf)
        /\ link \o (SubSeq(buf, i + 1, Len(buf)) \o in) = Parts[Done]
  /\ pc["parent"] = "sleep" => link = Parts[Len(Args)]

\* The link never takes more than the parts.
LinkInv == \E k \in 0..Len(Args), t \in Seq(Octet) : link \o t = Parts[k]

BootInv == BootTypeOK /\ ArgsInv /\ CountInv /\ LinkInv

OInv == KillInv /\ BootInv

-----------------------------------------------------------------------------
(* Who may be killed *)

LEMMA InitKill == OInit => KillInv
BY DEF OInit, KillInv, Processes, Labels

\* Sending p to a label keeps pc a function to labels.
LEMMA GotoPc ==
  ASSUME pc \in [Processes -> Labels], NEW p \in Processes, NEW l \in Labels,
         Goto(p, l)
  PROVE  /\ pc' \in [Processes -> Labels]
         /\ pc'[p] = l
         /\ \A q \in Processes : q # p => pc'[q] = pc[q]
BY DEF Goto

LEMMA ParentKill == KillInv /\ ParentStep => KillInv'
<1> SUFFICES ASSUME KillInv, ParentStep  PROVE KillInv'
  OBVIOUS
<1> USE DEF Processes
<1>0. /\ pc \in [Processes -> Labels] /\ "parent" \in Processes
      /\ {"open", "fork", "exit", "dead", "atexit", "fread", "write", "sleep"}
            \subseteq Labels
  BY DEF KillInv, Labels
<1>1. CASE Setup
  BY <1>0, <1>1, GotoPc DEF Setup, At, KillInv
<1>2. CASE Fork
  BY <1>0, <1>2 DEF Fork, At, KillInv, Labels
<1>3. CASE ForkFails
  BY <1>0, <1>3, GotoPc DEF ForkFails, At, KillInv
<1>4. CASE OpenBoot
  BY <1>0, <1>4, GotoPc DEF OpenBoot, At, KillInv
<1>5. CASE AllBooted
  BY <1>0, <1>5, GotoPc DEF AllBooted, At, KillInv
<1>6. CASE FreadBoot
  <2>1. Goto("parent", "write") \/ Goto("parent", "open")
    BY <1>6 DEF FreadBoot
  <2> QED
    BY <1>0, <1>6, <2>1, GotoPc DEF FreadBoot, At, KillInv
<1>7. CASE WriteLink
  <2>1. Goto("parent", "write") \/ Goto("parent", "fread")
    BY <1>7 DEF WriteLink
  <2> QED
    BY <1>0, <1>7, <2>1, GotoPc DEF WriteLink, At, KillInv
<1>8. CASE WriteFails
  BY <1>0, <1>8, GotoPc DEF WriteFails, At, KillInv
<1>9. CASE kill_child
  BY <1>0, <1>9, GotoPc DEF kill_child, At, KillInv
<1>10. CASE RegisterAtexit("parent")
  BY <1>0, <1>10, GotoPc DEF RegisterAtexit, At, KillInv
<1>11. CASE Exit("parent")
  BY <1>0, <1>11, GotoPc DEF Exit, At, KillInv
<1> QED
  BY <1>1, <1>2, <1>3, <1>4, <1>5, <1>6, <1>7, <1>8, <1>9, <1>10, <1>11
  DEF ParentStep

LEMMA ChildKill == KillInv /\ ChildStep => KillInv'
<1> SUFFICES ASSUME KillInv, ChildStep  PROVE KillInv'
  OBVIOUS
<1> USE DEF Processes
<1>0. /\ pc \in [Processes -> Labels]
      /\ "parent" \in Processes /\ "child" \in Processes /\ "parent" # "child"
      /\ {"read", "show", "exit", "dead", "atexit", "kill"} \subseteq Labels
  BY DEF KillInv, Labels
<1>1. CASE ReadLink
  BY <1>0, <1>1, GotoPc DEF ReadLink, At, KillInv
<1>2. CASE ShowOutput
  BY <1>0, <1>2, GotoPc DEF ShowOutput, At, KillInv
<1>3. CASE GetPpid
  BY <1>0, <1>3, GotoPc DEF GetPpid, At, KillInv
<1>4. CASE kill_parent
  BY <1>0, <1>4, GotoPc DEF kill_parent, At, KillInv
<1>5. CASE RegisterAtexit("child")
  BY <1>0, <1>5, GotoPc DEF RegisterAtexit, At, KillInv
<1>6. CASE Exit("child")
  BY <1>0, <1>6, GotoPc DEF Exit, At, KillInv
<1> QED
  BY <1>1, <1>2, <1>3, <1>4, <1>5, <1>6 DEF ChildStep

LEMMA SignalKill ==
  ASSUME KillInv, NEW p \in Processes, graceful_exit(p)
  PROVE  KillInv'
<1>0. pc \in [Processes -> Labels] /\ {"dead", "exit"} \subseteq Labels
  BY DEF KillInv, Labels
<1>1. Goto(p, "dead") \/ Goto(p, "exit")
  BY DEF graceful_exit
<1> QED
  BY <1>0, <1>1, GotoPc DEF graceful_exit, KillInv, Processes

LEMMA NextKill == KillInv /\ [ONext]_ovars => KillInv'
<1> SUFFICES ASSUME KillInv, [ONext]_ovars  PROVE KillInv'
  OBVIOUS
<1>1. CASE UserSignal
  BY <1>1 DEF UserSignal, procVars, KillInv
<1>2. CASE UNCHANGED ovars
  BY <1>2 DEF ovars, procVars, KillInv
<1> QED
  BY <1>1, <1>2, ParentKill, ChildKill, SignalKill DEF ONext

\* kill_child never runs with the child_pid of a fork that failed or has not
\* happened (main, kill_child and exit in oserver.c), whatever fails and
\* whenever signals arrive.
THEOREM OnlyTheChild == OSpec => []KillsOnlyItsChild
<1>1. KillInv => KillsOnlyItsChild
  BY DEF KillInv, KillsOnlyItsChild
<1> QED
  BY <1>1, InitKill, NextKill, PTL DEF OSpec
-----------------------------------------------------------------------------
(* What the link takes *)

LEMMA GivenType == Given \in Seq(Seq(Octet)) /\ Len(Given) = Len(Args)
<1>1. /\ Args \in Seq(DOMAIN Content) /\ "-" \in DOMAIN Content
      /\ \A f \in DOMAIN Content : Content[f] \in Seq(Octet)
  BY OserverAssumption
<1>2. Len(Args) \in Nat /\ DOMAIN Args = 1..Len(Args)
  BY <1>1
<1>3. \A j \in 1..Len(Args) : Args[j] \in DOMAIN Content
  BY <1>1
<1> DEFINE G(j) == IF Args[j] # "-" THEN Content[Args[j]]
                   ELSE IF j = 1 THEN Content["-"] ELSE <<>>
<1>4. \A j \in 1..Len(Args) : G(j) \in Seq(Octet)
  <2>1. <<>> \in Seq(Octet)
    OBVIOUS
  <2> SUFFICES ASSUME NEW j \in 1..Len(Args)  PROVE G(j) \in Seq(Octet)
    OBVIOUS
  <2>2. Args[j] \in DOMAIN Content
    BY <1>3
  <2>3. Content[Args[j]] \in Seq(Octet) /\ Content["-"] \in Seq(Octet)
    BY <1>1, <2>2
  <2> HIDE DEF Octet
  <2> QED
    BY <2>1, <2>3
<1>5. Given = [j \in 1..Len(Args) |-> G(j)]
  BY <1>2 DEF Given
<1> HIDE DEF G
<1>6. Given \in [1..Len(Args) -> Seq(Octet)]
  BY <1>4, <1>5
<1> QED
  BY <1>2, <1>6

LEMMA PartsAre ==
  /\ Len(Args) \in Nat
  /\ Parts[0] = <<>>
  /\ \A d \in 0..Len(Args) : Parts[d] \in Seq(Octet)
  /\ \A d \in 1..Len(Args) : Parts[d] = Parts[d-1] \o Given[d]
  /\ FlattenSeq(Given) = Parts[Len(Args)]
  /\ \A d \in 0..Len(Args) : \E t \in Seq(Octet) : Parts[Len(Args)] = Parts[d] \o t
<1> DEFINE Good(P) == IsParts(P, Given, Octet) /\ FlattenSeq(Given) = P[Len(Given)]
<1>0. Given \in Seq(Seq(Octet)) /\ Len(Given) = Len(Args) /\ Len(Args) \in Nat
  BY GivenType, OserverAssumption
<1>1. \E P : Good(P)
  BY <1>0, FlattenParts
<1>2. Good(Parts)
  <2>1. Parts = CHOOSE P : Good(P)
    BY DEF Parts
  <2> HIDE DEF Good
  <2> QED
    BY <1>1, <2>1
<1>3. \A d \in 0..Len(Args) : \E t \in Seq(Octet) : Parts[Len(Args)] = Parts[d] \o t
  <2> SUFFICES ASSUME NEW d \in 0..Len(Args)
               PROVE  \E t \in Seq(Octet) : Parts[Len(Args)] = Parts[d] \o t
    OBVIOUS
  <2>1. IsParts(Parts, Given, Octet) /\ d \in 0..Len(Given)
    BY <1>0, <1>2
  <2>2. BeginsWith(Parts[Len(Given)], Parts[d], Octet)
    BY <1>0, <2>1, PartsGrow
  <2> QED
    BY <1>0, <2>2 DEF BeginsWith
<1> QED
  BY <1>0, <1>2, <1>3 DEF IsParts

\* A step that leaves the boot variables alone keeps BootInv when the parent
\* stays, leaves the loop, or is not in the loop yet.
LEMMA BootKept ==
  ASSUME BootInv, UNCHANGED bootVars,
         \/ pc'["parent"] = pc["parent"]
         \/ pc'["parent"] \in {"exit", "atexit", "dead"}
         \/ /\ pc["parent"] \in {"setup", "fork", "register"}
            /\ pc'["parent"] \in {"setup", "fork", "register"}
  PROVE  BootInv'
<1>1. BootTypeOK' /\ ArgsInv' /\ LinkInv'
  BY DEF BootInv, bootVars, BootTypeOK, ArgsInv, LinkInv, Done
<1>2. CountInv'
  BY DEF BootInv, bootVars, CountInv, Done
<1> QED
  BY <1>1, <1>2 DEF BootInv

LEMMA InitBoot == OInit => BootInv
<1> SUFFICES ASSUME OInit  PROVE BootInv
  OBVIOUS
<1>0. /\ Args \in Seq(DOMAIN Content) /\ Content["-"] \in Seq(Octet)
      /\ Len(Args) \in Nat
  BY OserverAssumption
<1>1. BootTypeOK
  BY <1>0 DEF OInit, BootTypeOK
<1>2. ArgsInv
  BY <1>0 DEF OInit, ArgsInv, Done
<1>3. CountInv
  BY <1>0 DEF OInit, CountInv, Done, Processes
<1>4. LinkInv
  <2>1. <<>> \in Seq(Octet) /\ <<>> \o <<>> = <<>>
    OBVIOUS
  <2>2. 0 \in 0..Len(Args) /\ Parts[0] = <<>> /\ link = <<>>
    BY <1>0, PartsAre DEF OInit
  <2> QED
    BY <2>1, <2>2 DEF LinkInv
<1> QED
  BY <1>1, <1>2, <1>3, <1>4 DEF BootInv

LEMMA RegisterBoot ==
  ASSUME KillInv, BootInv, RegisterAtexit("parent")
  PROVE  BootInv'
<1>0. pc["parent"] = "register" /\ pc'["parent"] = "open" /\ UNCHANGED bootVars
  BY DEF RegisterAtexit, At, Goto, KillInv, Processes
<1>1. BootTypeOK' /\ ArgsInv' /\ LinkInv'
  BY <1>0 DEF BootInv, bootVars, BootTypeOK, ArgsInv, LinkInv, Done
<1>2. Done = 0 /\ in = Content["-"] /\ link = Parts[0]
  BY <1>0, PartsAre DEF BootInv, CountInv
<1>3. CountInv'
  BY <1>0, <1>2 DEF bootVars, CountInv, Done
<1> QED
  BY <1>1, <1>3 DEF BootInv

\* The argument that is opened puts the next piece into stdin.
LEMMA OpenBootBoot ==
  ASSUME KillInv, BootInv, OpenBoot
  PROVE  BootInv'
<1>0. /\ pc["parent"] = "open" /\ args # <<>> /\ args' = Tail(args)
      /\ UNCHANGED <<buf, i, link>>
  BY DEF OpenBoot, At
<1>1. /\ Args \in Seq(DOMAIN Content) /\ Len(Args) \in Nat
      /\ \A f \in DOMAIN Content : Content[f] \in Seq(Octet)
  BY OserverAssumption
<1>2. /\ args \in Seq(DOMAIN Content) /\ in \in Seq(Octet) /\ link \in Seq(Octet)
      /\ Len(args) <= Len(Args) /\ \A j \in 1..Len(args) : args[j] = Args[Done + j]
      /\ link = Parts[Done] /\ in = IF Done = 0 THEN Content["-"] ELSE <<>>
  BY <1>0 DEF BootInv, BootTypeOK, ArgsInv, CountInv
<1>3. /\ Len(args) \in Nat \ {0} /\ args' \in Seq(DOMAIN Content)
      /\ Len(args') = Len(args) - 1
      /\ \A j \in 1..Len(args') : args'[j] = args[j+1]
      /\ Head(args) = args[1] /\ Head(args) \in DOMAIN Content
  BY <1>0, <1>2, EmptySeq, HeadTailProperties
<1>4. Done \in 0 .. Len(Args) - 1 /\ Done' = Done + 1
  BY <1>1, <1>2, <1>3 DEF Done
<1>5. Head(args) = Args[Done + 1]
  BY <1>2, <1>3
<1>6. ArgsInv'
  <2>1. Len(args') <= Len(Args)
    BY <1>1, <1>2, <1>3
  <2>2. ASSUME NEW j \in 1..Len(args')  PROVE args'[j] = Args[Done' + j]
    <3>1. args'[j] = args[j+1] /\ j + 1 \in 1..Len(args)
      BY <1>3
    <3>2. args[j+1] = Args[Done + (j + 1)]
      BY <1>2, <3>1
    <3>3. Done + (j + 1) = Done' + j
      BY <1>4
    <3> QED
      BY <3>1, <3>2, <3>3
  <2> QED
    BY <2>1, <2>2 DEF ArgsInv
<1>7. LinkInv'
  BY <1>0 DEF BootInv, LinkInv
<1>8. CASE /\ in' = IF Head(args) = "-" THEN in ELSE Content[Head(args)]
           /\ Goto("parent", "fread")
  <2>0. pc'["parent"] = "fread"
    BY <1>8 DEF Goto, KillInv, Processes
  <2>1. in' \in Seq(Octet)
    BY <1>1, <1>2, <1>3, <1>8
  <2>2. PICK d \in 1..Len(Args) : d = Done + 1 /\ d - 1 = Done
    BY <1>1, <1>4
  <2>3. in' = Given[d]
    <3>0. Given[d] = IF Args[d] # "-" THEN Content[Args[d]]
                     ELSE IF d = 1 THEN Content["-"] ELSE <<>>
      BY <1>1 DEF Given
    <3>1. d = 1 <=> Done = 0
      BY <1>4, <2>2
    <3>2. Head(args) = Args[d]
      BY <1>5, <2>2
    <3>3. CASE Args[d] = "-"
      BY <1>2, <1>8, <3>0, <3>1, <3>2, <3>3
    <3>4. CASE Args[d] # "-"
      BY <1>8, <3>0, <3>2, <3>4
    <3> QED
      BY <3>3, <3>4
  <2>4. Parts[d] = Parts[d-1] \o Given[d]
    BY PartsAre
  <2>5. link' \o in' = Parts[Done'] /\ Done' >= 1
    BY <1>0, <1>2, <1>4, <2>2, <2>3, <2>4
  <2>6. CountInv'
    BY <2>0, <2>5 DEF CountInv
  <2>7. BootTypeOK'
    BY <1>0, <1>3, <2>1 DEF BootInv, BootTypeOK
  <2> QED
    BY <1>6, <1>7, <2>6, <2>7 DEF BootInv
<1>9. CASE in' = <<>> /\ Goto("parent", "exit")
  <2>0. pc'["parent"] = "exit"
    BY <1>9 DEF Goto, KillInv, Processes
  <2>1. CountInv'
    BY <2>0 DEF CountInv
  <2>2. BootTypeOK'
    BY <1>0, <1>3, <1>9 DEF BootInv, BootTypeOK
  <2> QED
    BY <1>6, <1>7, <2>1, <2>2 DEF BootInv
<1> QED
  BY <1>8, <1>9 DEF OpenBoot

LEMMA AllBootedBoot ==
  ASSUME KillInv, BootInv, AllBooted
  PROVE  BootInv'
<1>0. /\ pc["parent"] = "open" /\ pc'["parent"] = "sleep" /\ args = <<>>
      /\ UNCHANGED bootVars
  BY DEF AllBooted, At, Goto, KillInv, Processes
<1>1. BootTypeOK' /\ ArgsInv' /\ LinkInv'
  BY <1>0 DEF BootInv, bootVars, BootTypeOK, ArgsInv, LinkInv, Done
<1>2. link = Parts[Done] /\ Done = Len(Args)
  BY <1>0, OserverAssumption DEF BootInv, CountInv, Done
<1>3. CountInv'
  BY <1>0, <1>2 DEF bootVars, CountInv
<1> QED
  BY <1>1, <1>3 DEF BootInv

LEMMA FreadBootBoot ==
  ASSUME KillInv, BootInv, FreadBoot
  PROVE  BootInv'
<1> DEFINE n == IF Len(in) < BUFSIZ THEN Len(in) ELSE BUFSIZ
<1>0. /\ pc["parent"] = "fread" /\ buf' = SubSeq(in, 1, n)
      /\ in' = SubSeq(in, n + 1, Len(in)) /\ i' = 0
      /\ Goto("parent", IF n > 0 THEN "write" ELSE "open")
      /\ UNCHANGED <<args, link>>
  BY DEF FreadBoot, At
<1>1. /\ in \in Seq(Octet) /\ link \in Seq(Octet) /\ Done >= 1 /\ Done # 0
      /\ link \o in = Parts[Done]
  <2>1. Done \in Int
    BY OserverAssumption DEF BootInv, BootTypeOK, Done
  <2> QED
    BY <1>0, <2>1 DEF BootInv, BootTypeOK, CountInv
<1>2. n \in 0..Len(in) /\ (n = 0 => Len(in) = 0) /\ Len(in) \in Nat
  BY <1>1, OserverAssumption
<1> HIDE DEF n
<1>3. /\ buf' \in Seq(Octet) /\ Len(buf') = n /\ in' \in Seq(Octet)
      /\ buf' \o in' = in
  BY <1>0, <1>1, <1>2, Halves
<1>4. BootTypeOK'
  <2>1. i' \in Nat /\ i' <= Len(buf')
    BY <1>0, <1>2, <1>3
  <2> QED
    BY <1>0, <1>3, <2>1 DEF BootInv, BootTypeOK
<1>5. ArgsInv' /\ LinkInv' /\ Done' = Done
  BY <1>0 DEF BootInv, ArgsInv, LinkInv, Done
<1>6. CASE n > 0
  <2>1. pc'["parent"] = "write"
    BY <1>0, <1>6 DEF Goto, KillInv, Processes
  <2>2. SubSeq(buf', i' + 1, Len(buf')) = buf'
    BY <1>0, <1>3, SubSeqFull
  <2>3. i' < Len(buf')
    BY <1>0, <1>3, <1>6
  <2>4. CountInv'
    BY <1>0, <1>1, <1>3, <1>5, <2>1, <2>2, <2>3 DEF CountInv
  <2> QED
    BY <1>4, <1>5, <2>4 DEF BootInv
<1>7. CASE ~ (n > 0)
  <2>0. n = 0 /\ in = <<>>
    BY <1>1, <1>2, <1>7
  <2>1. pc'["parent"] = "open"
    BY <1>0, <1>7 DEF Goto, KillInv, Processes
  <2>2. in' = <<>> /\ link = Parts[Done]
    BY <1>0, <1>1, <2>0
  <2>3. CountInv'
    BY <1>0, <1>1, <1>5, <2>1, <2>2 DEF CountInv
  <2> QED
    BY <1>4, <1>5, <2>3 DEF BootInv
<1> QED
  BY <1>6, <1>7

\* A short write leaves the rest of the buffer for the next one.
LEMMA WriteLinkBoot ==
  ASSUME KillInv, BootInv, WriteLink
  PROVE  BootInv'
<1>0. /\ pc["parent"] = "write" /\ UNCHANGED <<args, in, buf>>
  BY DEF WriteLink, At
<1>1. PICK k \in 0 .. Len(buf) - i :
         /\ link' = link \o SubSeq(buf, i + 1, i + k)
         /\ i' = i + k
         /\ Goto("parent", IF i' < Len(buf) THEN "write" ELSE "fread")
  BY DEF WriteLink, Advance
<1>2. /\ in \in Seq(Octet) /\ link \in Seq(Octet) /\ buf \in Seq(Octet)
      /\ i \in Nat /\ i < Len(buf) /\ Done >= 1 /\ Len(buf) \in Nat
      /\ link \o (SubSeq(buf, i + 1, Len(buf)) \o in) = Parts[Done]
  <2>1. /\ in \in Seq(Octet) /\ link \in Seq(Octet) /\ buf \in Seq(Octet)
        /\ i \in Nat /\ Len(buf) \in Nat
    BY DEF BootInv, BootTypeOK
  <2>2. /\ Done >= 1 /\ i < Len(buf)
        /\ link \o (SubSeq(buf, i + 1, Len(buf)) \o in) = Parts[Done]
    BY <1>0, Zenon DEF BootInv, CountInv
  <2> QED
    BY <2>1, <2>2
<1>3. /\ i' \in Nat /\ i' <= Len(buf)
      /\ i + 1 \in 1..(Len(buf) + 1) /\ i' \in ((i + 1) - 1)..Len(buf)
  BY <1>1, <1>2
<1> DEFINE now == SubSeq(buf, i + 1, i')
           rest == SubSeq(buf, i' + 1, Len(buf))
<1>4. /\ now \in Seq(Octet) /\ rest \in Seq(Octet)
      /\ now \o rest = SubSeq(buf, i + 1, Len(buf))
  BY <1>2, <1>3, Adjacent, Zenon
<1>5. link' = link \o now
  BY <1>1
<1>6. i' = Len(buf) => rest = <<>>
  BY <1>2, <1>3
<1>6a. rest = SubSeq(buf', i' + 1, Len(buf'))
  BY <1>0
<1> HIDE DEF now, rest
<1>7. link' \in Seq(Octet) /\ rest \o in \in Seq(Octet)
  BY <1>2, <1>4, <1>5, ConcatProperties
<1>8. link' \o (rest \o in) = Parts[Done]
  <2>0. Groups(Octet)
    BY ConcatGroups
  <2>1. (link \o now) \o (rest \o in) = link \o (now \o (rest \o in))
    BY <1>2, <1>4, <1>7, <2>0 DEF Groups
  <2>2. (now \o rest) \o in = now \o (rest \o in)
    BY <1>2, <1>4, <2>0 DEF Groups
  <2> QED
    BY <1>2, <1>4, <1>5, <2>1, <2>2
<1>9. Done' = Done /\ ArgsInv'
  BY <1>0 DEF BootInv, ArgsInv, Done
<1>10. BootTypeOK'
  BY <1>0, <1>3, <1>7 DEF BootInv, BootTypeOK
<1>11. LinkInv'
  <2>1. Done \in 0..Len(Args)
    BY <1>2, OserverAssumption DEF BootInv, BootTypeOK, ArgsInv, Done
  <2> QED
    BY <1>7, <1>8, <2>1 DEF LinkInv
<1>12. CASE i' < Len(buf)
  <2>1. pc'["parent"] = "write"
    BY <1>1, <1>12 DEF Goto, KillInv, Processes
  <2>2. link' \o (SubSeq(buf', i' + 1, Len(buf')) \o in') = Parts[Done']
    BY <1>0, <1>6a, <1>8, <1>9
  <2>3. CountInv'
    BY <1>0, <1>2, <1>9, <1>12, <2>1, <2>2 DEF CountInv
  <2> QED
    BY <1>9, <1>10, <1>11, <2>3 DEF BootInv
<1>13. CASE ~ (i' < Len(buf))
  <2>1. pc'["parent"] = "fread"
    BY <1>1, <1>13 DEF Goto, KillInv, Processes
  <2>2. rest = <<>>
    BY <1>2, <1>3, <1>6, <1>13
  <2>3. rest \o in = in
    BY <1>2, <2>2, ConcatEmptySeq
  <2>4. CountInv'
    BY <1>0, <1>2, <1>8, <1>9, <2>1, <2>3 DEF CountInv
  <2> QED
    BY <1>9, <1>10, <1>11, <2>4 DEF BootInv
<1> QED
  BY <1>12, <1>13

LEMMA ParentBoot ==
  ASSUME KillInv, BootInv, ParentStep
  PROVE  BootInv'
<1>0. pc \in [Processes -> Labels] /\ "parent" \in Processes
  BY DEF KillInv, Processes
<1>1. CASE Setup
  BY <1>0, <1>1, BootKept DEF Setup, At, Goto
<1>2. CASE Fork
  BY <1>0, <1>2, BootKept DEF Fork, At
<1>3. CASE ForkFails
  BY <1>0, <1>3, BootKept DEF ForkFails, Goto
<1>4. CASE WriteFails
  BY <1>0, <1>4, BootKept DEF WriteFails, Goto
<1>5. CASE kill_child
  BY <1>0, <1>5, BootKept DEF kill_child, Goto
<1>6. CASE Exit("parent")
  BY <1>0, <1>6, BootKept DEF Exit, Goto
<1> QED
  BY <1>1, <1>2, <1>3, <1>4, <1>5, <1>6, RegisterBoot, OpenBootBoot,
     AllBootedBoot, FreadBootBoot, WriteLinkBoot DEF ParentStep

LEMMA ChildBoot ==
  ASSUME KillInv, BootInv, ChildStep
  PROVE  BootInv'
<1>0. pc \in [Processes -> Labels] /\ "parent" \in Processes /\ "parent" # "child"
  BY DEF KillInv, Processes
<1>1. pc'["parent"] = pc["parent"]
  BY <1>0 DEF ChildStep, ReadLink, ShowOutput, GetPpid, kill_parent,
              RegisterAtexit, Exit, Goto
<1>2. UNCHANGED bootVars
  BY DEF ChildStep, ReadLink, ShowOutput, GetPpid, kill_parent,
         RegisterAtexit, Exit
<1> QED
  BY <1>1, <1>2, BootKept

LEMMA NextOInv == OInv /\ [ONext]_ovars => OInv'
<1> SUFFICES ASSUME KillInv, BootInv, [ONext]_ovars  PROVE BootInv'
  BY NextKill DEF OInv
<1>1. CASE UserSignal
  BY <1>1, BootKept DEF UserSignal, procVars
<1>2. CASE UNCHANGED ovars
  BY <1>2, BootKept DEF ovars, procVars
<1>3. ASSUME NEW p \in Processes, graceful_exit(p)  PROVE BootInv'
  <2>1. pc \in [Processes -> Labels] /\ "parent" \in Processes
    BY DEF KillInv, Processes
  <2>2. pc'["parent"] = pc["parent"] \/ pc'["parent"] \in {"dead", "exit"}
    BY <1>3, <2>1 DEF graceful_exit, Goto
  <2> QED
    BY <1>3, <2>2, BootKept DEF graceful_exit
<1> QED
  BY <1>1, <1>2, <1>3, ParentBoot, ChildBoot DEF ONext

\* However the link driver splits the writes and wherever a signal or an error
\* stops the parent (main in oserver.c), the link has taken the beginning of
\* the boot files in the order of the arguments, and all of it once the parent
\* sleeps.
THEOREM ImageReachesTheLink == OSpec => []BootImageIntact
<1>1. OInv => BootImageIntact
  <2> SUFFICES ASSUME OInv  PROVE BootImageIntact
    OBVIOUS
  <2>1. PICK k \in 0..Len(Args), t \in Seq(Octet) : link \o t = Parts[k]
    BY DEF OInv, BootInv, LinkInv
  <2>2. PICK u \in Seq(Octet) : Parts[Len(Args)] = Parts[k] \o u
    BY PartsAre
  <2>3. link \in Seq(Octet) /\ t \o u \in Seq(Octet)
    BY ConcatProperties DEF OInv, BootInv, BootTypeOK
  <2>4. Parts[Len(Args)] = link \o (t \o u)
    <3>1. Groups(Octet)
      BY ConcatGroups
    <3>2. (link \o t) \o u = link \o (t \o u)
      BY <2>3, <3>1 DEF Groups
    <3> QED
      BY <2>1, <2>2, <3>2
  <2>5. IsPrefix(link, Parts[Len(Args)])
    <3>1. IsPrefix(link, link \o (t \o u))
      BY <2>3, ConcatPrefix
    <3> QED
      BY <2>4, <3>1
  <2>6. pc["parent"] = "sleep" => link = Parts[Len(Args)]
    BY DEF OInv, BootInv, CountInv
  <2>7. FlattenSeq(Given) = Parts[Len(Args)]
    BY PartsAre
  <2> QED
    BY <2>5, <2>6, <2>7 DEF BootImageIntact
<1>2. OInit => OInv
  BY InitKill, InitBoot DEF OInv
<1> QED
  BY <1>1, <1>2, NextOInv, PTL DEF OSpec
=============================================================================
