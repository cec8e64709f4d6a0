------------------------------- MODULE MCRelax -------------------------------
EXTENDS Relax

CONSTANT Gaps   \* constant bytes after each element

\* Label a stands behind element a and its gap; label 0 starts the fragment.
MCArg(a, b, c, cancel, slot) ==
    [kind |-> "cmd",
     pos  |-> IF cancel THEN (b + 1)..a ELSE 1..a,
     neg  |-> IF cancel THEN (a + 1)..b ELSE 1..b,
     c    |-> c, slot |-> slot]

\* A jump from element i to label a: relative to the end of the jump.
MCJumps(i, g) == {MCArg(a, i, g * (a - i + 1), x, 0) : a \in 0..N, x \in BOOLEAN}

MCElement(i, g) ==
    MCJumps(i, g)
    \cup {MCArg(N, i, g * (N - i + 1), TRUE, 1)}
    \cup {MCArg(N, 0, g * N + 4, TRUE, 0), MCArg(0, N, -g * N, FALSE, 0)}
    \cup [kind : {"align"}, c : {g * (i - 1)}, to : {4}, known : BOOLEAN]

\* N = 3
MCPrograms ==
    UNION {{<<a, b, c>> : a \in MCElement(1, g), b \in MCElement(2, g),
                          c \in MCElement(3, g)} : g \in Gaps}
=============================================================================
