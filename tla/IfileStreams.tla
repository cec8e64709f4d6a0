---------------------------- MODULE IfileStreams ----------------------------
(***************************************************************************)
(* How the linker gets at its input files (lit/lit.c): ifile_add for a     *)
(* file, ifile_open_archive for the members of an archive, all of which    *)
(* share the stream of the archive, ifile_fopen, which closes the stream   *)
(* of another file when no more can be opened, and the three readings of   *)
(* a file, each of which goes on where the one before stopped.             *)
(***************************************************************************)
EXTENDS Integers, Sequences, FiniteSetsExt

CONSTANTS Disk,     \* path |-> [archive, members]; a member has a size, and
                    \* table says that it holds the long member names
          Commands, \* sequences of paths: the files given, libraries last
          MaxOpen   \* input streams the system lets the linker have open

ASSUME StreamsAssumption ==
    /\ MaxOpen \in Nat \ {0}
    /\ Commands \subseteq Seq(DOMAIN Disk)
    /\ \A path \in DOMAIN Disk :
          /\ Disk[path] \in [archive : BOOLEAN, members : Seq([size : Nat, table : BOOLEAN])]
          /\ ~ Disk[path].archive => Len(Disk[path].members) = 1 /\ ~ Disk[path].members[1].table

SARMAG == 8      \* length of the magic string
HEADER == 60     \* sizeof (struct ar_hdr)
\* Each of the three areas is one byte long here.

VARIABLES args,      \* files still to be added
          ifiles,    \* sequence of [path, master, lo, pos, wanted]
          proper,    \* proper[i]: stream_proper, "null", "wild" or "open"
          at,        \* at[i]: where that stream is
          scanning,  \* the archive whose headers are being read, or 0
          current,   \* index of the ifile to be read next
          reading,   \* the area being read: 0, 1, 2, or 3 when all is read
          lastread,  \* <<ifile, area, offset>> of the last reading, or <<>>
          ifstatus   \* "running", "fatal", "crashed", "errors"

svars == <<args, ifiles, proper, at, scanning, current, reading, lastread, ifstatus>>

Padded(n) == n + (n % 2)

SInit ==
    /\ args \in Commands
    /\ ifiles = <<>> /\ proper = <<>> /\ at = <<>>
    /\ scanning = 0 /\ current = 1 /\ reading = 0
    /\ lastread = <<>> /\ ifstatus = "running"

Master(i) == ifiles[i].master
OpenCount(P) == Cardinality({i \in DOMAIN P : P[i] = "open"})

\* A plausible bug (mutant): nothing is closed.
FopenPlain(P, closable) ==
    IF OpenCount(P) < MaxOpen THEN [proper |-> P, status |-> "running"]
    ELSE [proper |-> P, status |-> "fatal"]

\* The stream of the last ifile that has one is closed when fopen fails.
\* closable: the stream owners of the ifiles, in their order.
ifile_fopen(P, closable) ==
    LET has == {i \in DOMAIN closable : P[closable[i]] # "null"}
        victim == closable[Max(has)]
    IN  CASE OpenCount(P) < MaxOpen -> [proper |-> P, status |-> "running"]
          [] OpenCount(P) >= MaxOpen /\ has = {} -> [proper |-> P, status |-> "fatal"]
          [] OpenCount(P) >= MaxOpen /\ has # {} /\ P[victim] = "wild" ->
               [proper |-> P, status |-> "crashed"]
          [] OTHER -> [proper |-> [P EXCEPT ![victim] = "null"], status |-> "running"]

Owners(fs) == [i \in DOMAIN fs |-> fs[i].master]

-----------------------------------------------------------------------------
(* ifile_add, the open, and ifile_isarchive.  The ifile is in the list      *)
(* before its stream is set: what xmalloc left there counts as a stream.    *)

AddFile ==
    /\ ifstatus = "running" /\ reading = 0 /\ args # <<>>
    /\ scanning = 0 /\ current > Len(ifiles)
    /\ \E left \in {"null", "wild"} :
         LET n == Len(ifiles) + 1
             fs == Append(ifiles, [path |-> Head(args), master |-> n, lo |-> 0, pos |-> 0,
                                   wanted |-> FALSE])
             f == ifile_fopen(Append(proper, left), Owners(fs))
             archive == Disk[Head(args)].archive
         IN  /\ ifiles' = fs
             /\ ifstatus' = f.status
             /\ proper' = IF f.status = "running" THEN [f.proper EXCEPT ![n] = "open"] ELSE f.proper
             /\ at' = Append(at, IF archive THEN SARMAG ELSE 0)
             /\ scanning' = IF archive THEN n ELSE 0
             /\ current' = IF archive THEN n + 1 ELSE n
    /\ args' = Tail(args)
    /\ UNCHANGED <<reading, lastread>>

\* Where the header behind the first k members of an archive is.
HeaderAt(path) ==
    LET off[k \in 0..Len(Disk[path].members)] ==
          IF k = 0 THEN SARMAG
          ELSE off[k - 1] + HEADER + Padded(Disk[path].members[k].size)
    IN  off

\* Where member k of a file starts.
StartOf(path, k) == IF Disk[path].archive THEN HeaderAt(path)[k - 1] + HEADER ELSE 0

MembersFrom(path, offset) ==
    {k \in DOMAIN Disk[path].members : StartOf(path, k) = offset + HEADER}

ScanPath == ifiles[scanning].path

\* One turn of the loop of ifile_open_archive.
ScanMember ==
    /\ ifstatus = "running" /\ scanning # 0
    /\ \E k \in MembersFrom(ScanPath, at[scanning]) :
         LET m == Disk[ScanPath].members[k]
             startpos == at[scanning] + HEADER
         IN  /\ at' = [at EXCEPT ![scanning] = startpos + Padded(m.size)]
                      \o (IF m.table THEN <<>> ELSE <<0>>)
             /\ ifiles' = IF m.table THEN ifiles
                          ELSE Append(ifiles, [path |-> ScanPath, master |-> scanning,
                                               lo |-> startpos, pos |-> startpos, wanted |-> FALSE])
             /\ proper' = IF m.table THEN proper ELSE Append(proper, "null")
    /\ UNCHANGED <<args, scanning, current, reading, lastread, ifstatus>>

EndOf(path) == HeaderAt(path)[Len(Disk[path].members)]

ScanEnd ==
    /\ ifstatus = "running" /\ scanning # 0
    /\ MembersFrom(ScanPath, at[scanning]) = {}
    /\ ifstatus' = IF at[scanning] = EndOf(ScanPath) THEN "running" ELSE "errors"
    /\ scanning' = 0
    /\ UNCHANGED <<args, ifiles, proper, at, current, reading, lastread>>

-----------------------------------------------------------------------------
(* The readings.  Each opens the stream again if it was closed, seeks to    *)
(* pos, and leaves in pos where its area ended.                             *)

Reopened(i) ==
    IF proper[Master(i)] # "null" THEN [proper |-> proper, status |-> "running"]
    ELSE LET f == ifile_fopen(proper, Owners(ifiles))
         IN  IF f.status # "running" THEN f
             ELSE [f EXCEPT !.proper = [f.proper EXCEPT ![Master(i)] = "open"]]

\* A plausible bug (mutant): only the first reading seeks.
SeekFirst(i) == IF reading = 0 THEN ifiles[i].pos ELSE at[Master(i)]

SeekTo(i) == ifiles[i].pos

ReadArea(i) ==
    LET r == Reopened(i) IN
    /\ ifstatus' = r.status
    /\ proper' = r.proper
    /\ lastread' = <<i, reading, SeekTo(i)>>
    /\ at' = [at EXCEPT ![Master(i)] = SeekTo(i) + 1]
    /\ ifiles' = [ifiles EXCEPT ![i].pos = SeekTo(i) + 1]

\* ifile_read_nametable; whether a file is wanted is LitResolve's matter.
ReadNametable ==
    /\ ifstatus = "running" /\ reading = 0 /\ scanning = 0 /\ current <= Len(ifiles)
    /\ ReadArea(current)
    /\ current' = current + 1
    /\ UNCHANGED <<args, scanning, reading>>

\* All names are known: main goes through the wanted files, twice.
SecondPass ==
    /\ ifstatus = "running" /\ reading = 0 /\ scanning = 0
    /\ args = <<>> /\ current > Len(ifiles)
    /\ \E W \in SUBSET {i \in DOMAIN ifiles : ifiles[i].pos > 0} :
         ifiles' = [i \in DOMAIN ifiles |-> [ifiles[i] EXCEPT !.wanted = i \in W]]
    /\ reading' = 1 /\ current' = 1
    /\ UNCHANGED <<args, proper, at, scanning, lastread, ifstatus>>

\* ifile_read_segments and ifile_read_definitions.
ReadWanted ==
    /\ ifstatus = "running" /\ reading \in 1..2 /\ current <= Len(ifiles)
    /\ IF ifiles[current].wanted THEN ReadArea(current)
       ELSE UNCHANGED <<ifiles, proper, at, lastread, ifstatus>>
    /\ current' = current + 1
    /\ UNCHANGED <<args, scanning, reading>>

NextReading ==
    /\ ifstatus = "running" /\ reading \in 1..2 /\ current > Len(ifiles)
    /\ reading' = reading + 1 /\ current' = 1
    /\ UNCHANGED <<args, ifiles, proper, at, scanning, lastread, ifstatus>>

SNext == \/ AddFile \/ ScanMember \/ ScanEnd \/ ReadNametable \/ SecondPass
         \/ ReadWanted \/ NextReading

SSpec == SInit /\ [][SNext]_svars

-----------------------------------------------------------------------------
(* Whatever streams were closed and opened again in between, and although  *)
(* the members of an archive move one stream about, every reading is of    *)
(* the next area of the file it is meant for: of the member the ifile      *)
(* stands for, and each member has its ifile (ifi->pos, ifi->stream).      *)
Rank(path, k) == Cardinality({j \in 1..k : ~ Disk[path].members[j].table})
NthOf(i) == Cardinality({j \in 1..i : ifiles[j].master = Master(i)
                                      /\ (Disk[ifiles[i].path].archive => ifiles[j].lo > 0)})
ReadsItsPlace ==
    /\ lastread # <<>> =>
         LET i == lastread[1]
             path == ifiles[i].path
         IN  \E k \in DOMAIN Disk[path].members :
               /\ ~ Disk[path].members[k].table /\ Rank(path, k) = NthOf(i)
               /\ lastread[3] = StartOf(path, k) + lastread[2]
    /\ ifstatus # "errors"

(* The limit on open files never stops the linker: it can always close a   *)
(* stream, and no more than MaxOpen are open.  It closes one it never      *)
(* opened, the rest of some freed memory, only when a file is added while  *)
(* MaxOpen are open (ifile_fopen sees the ifile under construction).       *)
GoesOnAtTheLimit ==
    /\ ifstatus # "fatal"
    /\ OpenCount(proper) <= MaxOpen
    /\ ifstatus = "crashed" => reading = 0 /\ OpenCount(proper) = MaxOpen
=============================================================================
