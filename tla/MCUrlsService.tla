-------------------------- MODULE MCUrlsService --------------------------
(* Instances of UrlsService for TLC: model values for requests, codes and users. *)
EXTENDS UrlsService, TLC

CONSTANTS r1, r2, g1, g2, c1, c2

\* Requests are alike, and so are the codes of one kind.
Symmetry == Permutations(Reqs) \cup Permutations(Generated) \cup Permutations(Custom)
=============================================================================
