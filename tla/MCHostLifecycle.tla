---------------------------- MODULE MCHostLifecycle ----------------------------
(* Two keys and four releases: a newer one, an older one, one whose checksum   *)
(* is wrong and one that does not start.                                       *)
EXTENDS HostLifecycle, TLC

Offer(version) ==
    [version |-> version, manifest |-> version, listed |-> TRUE, checksum |-> TRUE, launches |-> TRUE]

MCInstalled == Offer(2)
MCReleases ==
    {Offer(1), Offer(3), [Offer(3) EXCEPT !.checksum = FALSE], [Offer(3) EXCEPT !.launches = FALSE]}

MCOwned == {{}, {"codex"}}

KeySymmetry == Permutations(Keys)
================================================================================
