----------------------------- MODULE MCFbServe -----------------------------
(* A buffer of three bytes; requests that are shorter, that fill it exactly, *)
(* that have more bytes after the header, and one whose header never ends.   *)
EXTENDS FbServe

req(asks, head, length) == [asks |-> asks, head |-> head, length |-> length]
MCRequests == {req("bitmap", 2, 2), req("health", 3, 3), req("other_method", 2, 4),
               req("junk", 2, 2), req("junk", 0, 2)}
=============================================================================
