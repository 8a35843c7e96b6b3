---------------------------- MODULE MCChangeFeed ----------------------------
(* ChangeFeed on small instances.                                          *)
EXTENDS ChangeFeed, TLC

CONSTANTS
    MaxClock,         \* revisions drawn per database
    MaxDb,            \* times the database is replaced
    MaxEpochs,        \* epochs drawn
    Committers,       \* consumers that commit a named cursor
    s, t, p, q,       \* two catalog rows, and a presence of each
    e, f, g,          \* other rows
    cat, pres, ev, mk, tool,
    v1, v2, d1, d2, c1, c2

Kind(k) == CASE k \in {s, t} -> cat [] k \in {p, q} -> pres
             [] k = e -> ev [] k = f -> mk [] k = g -> tool
OwnKinds == [k \in Keys |-> Kind(k)]
OfSession == [k \in Keys |-> CASE k = p -> s [] k = q -> t [] OTHER -> None]

Symmetry == Permutations(Drains) \cup Permutations(Values) \cup Permutations(Consumers)

Bounded ==
    /\ clock' <= MaxClock /\ db' <= MaxDb /\ lastEpoch' <= MaxEpochs
    /\ \A c \in Consumers \ Committers : cursor'[c] = NoCursor

MCNext == Next /\ Bounded
MCSpec == Init /\ [][MCNext]_vars
=============================================================================
