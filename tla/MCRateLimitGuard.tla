-------------------------- MODULE MCRateLimitGuard --------------------------
(* Small instances of RateLimitGuard for TLC.                              *)
EXTENDS RateLimitGuard, TLC

CONSTANTS r1, r2, r3, r4

\* UrlsController: POST /urls and GET /urls share a path and differ in their limits
\* (urls.controller.ts:37, 51); GET /urls/user has a path of its own (:61).
MCHandlers  == {"create", "findAll", "findByUser"}
MCPaths     == {"/urls", "/urls/user"}
MCRoutePath == [create |-> "/urls", findAll |-> "/urls", findByUser |-> "/urls/user"]
MCLimit     == [create |-> 1, findAll |-> 2, findByUser |-> 1]

\* One path, two limits: the smallest instance where the counter is shared.
TwoHandlers  == {"create", "findAll"}
TwoRoutePath == [create |-> "/urls", findAll |-> "/urls"]
TwoLimit     == [create |-> 1, findAll |-> 2]
OnePath      == {"/urls"}

RequestSymmetry == Permutations(Requests)
=============================================================================
