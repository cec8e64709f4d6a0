------------------------------- MODULE MCDast -------------------------------
EXTENDS Dast

\* Both sides of every power of 16 a 32-bit argument can cross.
MCEdges == {s * w + d : s \in {-1, 1}, w \in {16, 256, 268435456},
                        d \in {-1, 0}} \cup {-1, 0, 2147483647, -2147483647}

MCCommands == [op : {"j"}, arg : MCEdges, slot : {0}]
         \cup [op : {"ldc"}, arg : {-17, 2, 300}, slot : {0, 4}]
         \cup [op : {"opr"}, arg : {11}, slot : {0, 2}]
         \cup [op : {"opr"}, arg : {171}, slot : {0}]

MCFpuCodes == 1..3
=============================================================================
