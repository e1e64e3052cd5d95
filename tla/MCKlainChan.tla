---------------------------- MODULE MCKlainChan -----------------------------
\* KlainChan for TLC: channel 1 is a rendezvous, channel 2 has one slot.
EXTENDS KlainChan, TLC

CONSTANT
    Closable  \* the channels some task closes

MCChans == {1, 2}
MCCap == [c \in MCChans |-> c - 1]

Case(c, d, v) == [ch |-> c, dir |-> d, val |-> v]
Select(cases) == [cases |-> cases, default |-> FALSE]

\* Plain operations, and selects that name the channels in either order, in
\* both directions.  Every operation that sends has a value of its own.
CoreOps ==
    {Select(<<Case(c, "send", c)>>) : c \in MCChans}
    \cup {Select(<<Case(c, "recv", 0)>>) : c \in MCChans}
    \cup {Select(<<Case(c, "close", 0)>>) : c \in Closable}
    \cup {Select(<<Case(1, "recv", 0), Case(2, "recv", 0)>>),
          Select(<<Case(2, "recv", 0), Case(1, "send", 3)>>)}

\* Also a select with a channel in both directions, one with a default, and
\* select {}.
AllOps ==
    CoreOps \cup {Select(<<Case(1, "recv", 0), Case(1, "send", 4)>>),
                  [cases |-> <<Case(1, "send", 5), Case(2, "send", 6)>>, default |-> TRUE],
                  Select(<<>>)}

Symmetry == Permutations(Tasks)

=============================================================================
