------------------------------ MODULE Oserver ------------------------------
(***************************************************************************)
(* oserver/oserver.c: the parent process boots the transputer by writing   *)
(* the boot files to the link, the child copies what the transputer sends  *)
(* to stdout, and each is meant to take the other down with it: an exit    *)
(* runs the atexit function, which sends SIGTERM to the other process, and *)
(* the handler of SIGTERM calls exit in turn.                              *)
(*                                                                         *)
(* The bytes that come back from the transputer are left out; a read or a  *)
(* write that times out returns 0 and is tried again.                      *)
(***************************************************************************)
EXTENDS Naturals, SequencesExt

CONSTANTS Args,          \* the BOOTFILE arguments, "-" for stdin
          Content,       \* Content[f]: the bytes of boot file f
          BUFSIZ,        \* the bytes one fread returns at most
          Targets,       \* the sets of processes a signal of the user reaches
          MaxSignals     \* bound: signals the user sends

Octet == 0 .. 255

ASSUME OserverAssumption ==
    /\ BUFSIZ \in Nat \ {0}
    /\ MaxSignals \in Nat
    /\ Targets \subseteq SUBSET {"parent", "child"}
    /\ Args \in Seq(DOMAIN Content)
    /\ "-" \in DOMAIN Content
    /\ \A f \in DOMAIN Content : Content[f] \in Seq(Octet)

Processes == {"parent", "child"}
Signals == {"HUP", "INT", "TERM"}

VARIABLES
    pc,          \* where each process is; "none" before the fork
    childPid,    \* child_pid in the parent: "child" once fork has returned it
    ppid,        \* what getppid returned in kill_parent
    registered,  \* processes with their atexit function still to be called
    pending,     \* signals sent to each process and not yet delivered
    blocked,     \* signals whose handler is running
    args, in, buf, i,   \* main: arguments left, rest of stdin, buf, i
    link,        \* bytes the link driver has taken
    sent         \* signals the user has sent

procVars == <<pc, childPid, ppid, registered>>
sigVars == <<pending, blocked, sent>>
bootVars == <<args, in, buf, i, link>>
ovars == <<procVars, sigVars, bootVars>>

Goto(p, label) == pc' = [pc EXCEPT ![p] = label]

Alive(p) == pc[p] \notin {"none", "dead"}

(* Every step holds a system call or ends in one, and the kernel delivers  *)
(* a signal that is not blocked before a process goes on from there.       *)
At(p, label) == pc[p] = label /\ pending[p] \subseteq blocked[p]

OInit == /\ pc = [p \in Processes |-> IF p = "parent" THEN "setup" ELSE "none"]
         /\ childPid = "unset" /\ ppid = "unset"
         /\ registered = {}
         /\ pending = [p \in Processes |-> {}]
         /\ blocked = [p \in Processes |-> {}]
         /\ args = Args /\ in = Content["-"] /\ buf = <<>> /\ i = 0
         /\ link = <<>>
         /\ sent = 0

-----------------------------------------------------------------------------
(* A plausible bug (mutant): kill_child is registered before the fork. *)
SetupRegisters == /\ At("parent", "setup")
                  /\ \/ Goto("parent", "fork") /\ registered' = {"parent"}
                     \/ Goto("parent", "exit") /\ UNCHANGED registered
                  /\ UNCHANGED <<childPid, ppid, sigVars, bootVars>>

(* Open and reset the link, set its timeouts, install the handlers. *)
Setup == /\ At("parent", "setup")
         /\ Goto("parent", "fork") \/ Goto("parent", "exit")
         /\ UNCHANGED <<childPid, ppid, registered, sigVars, bootVars>>

Fork == /\ At("parent", "fork")
        /\ pc' = [p \in Processes |-> "register"]
        /\ childPid' = "child"
        /\ UNCHANGED <<ppid, registered, sigVars, bootVars>>

ForkFails == /\ At("parent", "fork")
             /\ Goto("parent", "exit")
             /\ childPid' = "failed"
             /\ UNCHANGED <<ppid, registered, sigVars, bootVars>>

RegisterAtexit(p) == /\ At(p, "register")
                     /\ registered' = registered \union {p}
                     /\ Goto(p, IF p = "parent" THEN "open" ELSE "read")
                     /\ UNCHANGED <<childPid, ppid, sigVars, bootVars>>

-----------------------------------------------------------------------------
(* The parent's loop over the boot files. *)
OpenBoot == /\ At("parent", "open")
            /\ args # <<>>
            /\ args' = Tail(args)
            /\ \/ /\ in' = IF Head(args) = "-" THEN in ELSE Content[Head(args)]
                  /\ Goto("parent", "fread")
               \/ /\ Head(args) # "-"
                  /\ in' = <<>>
                  /\ Goto("parent", "exit")
            /\ UNCHANGED <<childPid, ppid, registered, sigVars, buf, i, link>>

AllBooted == /\ At("parent", "open")
             /\ args = <<>>
             /\ Goto("parent", "sleep")
             /\ UNCHANGED <<childPid, ppid, registered, sigVars, bootVars>>

FreadBoot ==
    LET n == IF Len(in) < BUFSIZ THEN Len(in) ELSE BUFSIZ IN
    /\ At("parent", "fread")
    /\ buf' = SubSeq(in, 1, n)
    /\ in' = SubSeq(in, n + 1, Len(in))
    /\ i' = 0
    /\ Goto("parent", IF n > 0 THEN "write" ELSE "open")
    /\ UNCHANGED <<childPid, ppid, registered, sigVars, args, link>>

(* A plausible bug (mutant): a short write is taken for a whole one. *)
AdvanceWhole(k) == IF k = 0 THEN i ELSE Len(buf)

Advance(k) == i + k

WriteLink == /\ At("parent", "write")
             /\ \E k \in 0 .. Len(buf) - i :
                   /\ link' = link \o SubSeq(buf, i + 1, i + k)
                   /\ i' = Advance(k)
                   /\ Goto("parent", IF i' < Len(buf) THEN "write" ELSE "fread")
             /\ UNCHANGED <<childPid, ppid, registered, sigVars, args, in, buf>>

WriteFails == /\ At("parent", "write")
              /\ Goto("parent", "exit")
              /\ UNCHANGED <<childPid, ppid, registered, sigVars, bootVars>>

-----------------------------------------------------------------------------
(* reader: the link or stdout may fail. *)
ReadLink == /\ At("child", "read")
            /\ Goto("child", "show") \/ Goto("child", "exit")
            /\ UNCHANGED <<childPid, ppid, registered, sigVars, bootVars>>

ShowOutput == /\ At("child", "show")
              /\ Goto("child", "read") \/ Goto("child", "exit")
              /\ UNCHANGED <<childPid, ppid, registered, sigVars, bootVars>>

-----------------------------------------------------------------------------
(* exit takes each atexit function off its list before calling it, so that *)
(* an exit from a handler inside it goes on with the rest of the list.     *)
Exit(p) == /\ At(p, "exit")
           /\ registered' = registered \ {p}
           /\ Goto(p, IF p \in registered THEN "atexit" ELSE "dead")
           /\ UNCHANGED <<childPid, ppid, sigVars, bootVars>>

(* kill reaches a process that is there; "TERM" stays pending once. *)
Kill(p) == pending' = [pending EXCEPT ![p] = IF Alive(p) THEN @ \union {"TERM"}
                                                        ELSE @]

kill_child == /\ At("parent", "atexit")
              /\ Kill("child")
              /\ Goto("parent", "exit")
              /\ UNCHANGED <<childPid, ppid, registered, blocked, sent, bootVars>>

(* init adopts the child of a parent that is gone. *)
GetPpid == /\ At("child", "atexit")
           /\ ppid' = IF Alive("parent") THEN "parent" ELSE "init"
           /\ Goto("child", "kill")
           /\ UNCHANGED <<childPid, registered, sigVars, bootVars>>

(* A plausible bug (mutant): the sense of the test for init is inverted. *)
KillParentInverted ==
    /\ At("child", "kill")
    /\ IF ppid = "init" THEN Kill("parent") ELSE UNCHANGED pending
    /\ Goto("child", "exit")
    /\ UNCHANGED <<childPid, ppid, registered, blocked, sent, bootVars>>

kill_parent == /\ At("child", "kill")
               /\ IF ppid # "init" THEN Kill("parent") ELSE UNCHANGED pending
               /\ Goto("child", "exit")
               /\ UNCHANGED <<childPid, ppid, registered, blocked, sent, bootVars>>

-----------------------------------------------------------------------------
(* The user's signal, from a terminal or kill(1). *)
UserSignal == /\ sent < MaxSignals
              /\ sent' = sent + 1
              /\ \E T \in Targets, sig \in Signals :
                    pending' = [p \in Processes |->
                        pending[p] \union IF p \in T /\ Alive(p) THEN {sig} ELSE {}]
              /\ UNCHANGED <<procVars, blocked, bootVars>>

(* The handler of the three signals; a signal ends a process that has no   *)
(* handler yet, and sends any other into exit.                             *)
graceful_exit(p) ==
    /\ Alive(p)
    /\ \E sig \in pending[p] \ blocked[p] :
          /\ pending' = [pending EXCEPT ![p] = @ \ {sig}]
          /\ blocked' = [blocked EXCEPT ![p] = @ \union {sig}]
          /\ Goto(p, IF pc[p] = "setup" THEN "dead" ELSE "exit")
    /\ UNCHANGED <<childPid, ppid, registered, sent, bootVars>>

ParentStep == \/ Setup \/ Fork \/ ForkFails
              \/ OpenBoot \/ AllBooted \/ FreadBoot \/ WriteLink \/ WriteFails
              \/ kill_child
              \/ RegisterAtexit("parent") \/ Exit("parent")

ChildStep == \/ ReadLink \/ ShowOutput \/ GetPpid \/ kill_parent
             \/ RegisterAtexit("child") \/ Exit("child")

ONext == ParentStep \/ ChildStep \/ UserSignal \/ \E p \in Processes : graceful_exit(p)

(* The kernel runs a process that can run, and delivers a pending signal. *)
OSpec == /\ OInit /\ [][ONext]_ovars
         /\ WF_ovars(ParentStep) /\ WF_ovars(ChildStep)
         /\ \A p \in Processes : WF_ovars(graceful_exit(p))

-----------------------------------------------------------------------------
(* "Make sure the second process exits too if we get a signal": once one   *)
(* of the two processes is gone the other one goes too, whichever of them  *)
(* failed or was signalled, and wherever the other one was at the time     *)
(* (main and reader with kill_child, kill_parent and graceful_exit).       *)
OneTakesTheOther ==
    (childPid = "child" /\ "dead" \in {pc[p] : p \in Processes})
        ~> (\A p \in Processes : pc[p] = "dead")

(* kill_child never runs with the child_pid of a fork that failed or has   *)
(* not happened: kill(-1, SIGTERM) would signal every process of the user. *)
KillsOnlyItsChild == pc["parent"] = "atexit" => childPid = "child"

(* What an argument adds to the image.  freopen puts a boot file in the    *)
(* place of stdin, so that a "-" behind any other argument, or a second    *)
(* one, finds stdin at its end and adds nothing.                           *)
Given == [j \in DOMAIN Args |->
             IF Args[j] # "-" THEN Content[Args[j]]
             ELSE IF j = 1 THEN Content["-"] ELSE <<>>]

(* The bytes the link takes are those of the boot files in the order of    *)
(* the arguments, each once, however the driver splits the writes, and all *)
(* of them have been taken when the parent goes to sleep.                  *)
BootImageIntact ==
    LET image == FlattenSeq(Given) IN
    /\ IsPrefix(link, image)
    /\ pc["parent"] = "sleep" => link = image
=============================================================================
