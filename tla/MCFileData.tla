----------------------------- MODULE MCFileData ------------------------------
(* Two files of one id and topic, with and without a tenancy, of two days: *)
(* one of two parts, the second shorter, and one of a single part.  The    *)
(* URLs carry the shadow path of the tenancy, as by default; the servers   *)
(* are one without tenancies, and some that look a tenancy up by either    *)
(* path, and know it as not active, blocked, or by another name.  The      *)
(* cache holds another tenancy too, in one of them with a path that is the *)
(* shadow path of the first.                                               *)
EXTENDS FileDataService

MCFile == {"a", "b"}

MCInfo ==
    [a |-> [id |-> "x", tenancy |-> "", topic |-> "y", size |-> 3, partSize |-> 2, created |-> 1],
     b |-> [id |-> "x", tenancy |-> "t", topic |-> "y", size |-> 1, partSize |-> 0, created |-> 2]]

MCTenancy == [t |-> [path |-> "p", shadowPath |-> "s"]]

State(path, shadowPath, active, blocked) ==
    [path |-> path, shadowPath |-> shadowPath, active |-> active, blockedPath |-> blocked, blockedShadowPath |-> blocked]

Multitenant(shadow, allowBlocked, t, u) ==
    [multitenancy |-> TRUE, SHADOW_TENANCY_PATH |-> shadow, ALLOW_BLOCKED_TENANCY_PATH |-> allowBlocked,
     tenancies |-> [t |-> t, u |-> u]]

MCServer ==
    {[multitenancy |-> FALSE, SHADOW_TENANCY_PATH |-> FALSE, ALLOW_BLOCKED_TENANCY_PATH |-> FALSE, tenancies |-> <<>>]}
    \union {Multitenant(FALSE, FALSE, State("p", "s", TRUE, FALSE), State(other, "o", TRUE, FALSE)) : other \in {"q", "s"}}
    \union {Multitenant(TRUE, FALSE, State("p", name, active, FALSE), State("q", "o", TRUE, FALSE)) :
              name \in {"s", "renamed"}, active \in BOOLEAN}
    \union {Multitenant(TRUE, allow, State("p", "s", TRUE, TRUE), State("q", "o", TRUE, FALSE)) : allow \in BOOLEAN}

MCPrefixes == {<<"topic", "y">>}

MCOptions == {[fromPart |-> 0, maxCount |-> 0], [fromPart |-> 1, maxCount |-> 1]}

WorkerSymmetry == Permutations(Worker)
=============================================================================
