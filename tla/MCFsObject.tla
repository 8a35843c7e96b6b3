---------------------------- MODULE MCFsObject ------------------------------
(* FsObject on small instances.                                            *)
EXTENDS FsObject, TLC

CONSTANTS MaxVersions,    \* times the object is written
          p1, p2, p3, b1, b2

Put(mode, body, expect, digest) ==
    [mode |-> mode, body |-> body, expect |-> expect, digest |-> digest]

\* Creates and swaps of either content, a swap of the next version, an unconditional put, an upload that
\* declares no digest and one that declares a wrong one.
Puts ==
    {Put("create", b, 1, None) : b \in Bodies}
        \cup {Put("update", b, 1, None) : b \in Bodies}
        \cup {Put("update", b1, 2, None), Put("overwrite", b1, 1, b1), Put("multipart", b2, 1, None),
              Put("multipart", b1, 1, b2)}

Symmetry == Permutations(Procs)

MCNext == Next /\ Len(bodies') <= MaxVersions
MCSpec == Init /\ [][MCNext]_vars
=============================================================================
