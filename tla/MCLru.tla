------------------------------- MODULE MCLru -------------------------------
(* Values for LruRecency: more uids than the cache can hold, two contents. *)
EXTENDS LruRecency

CONSTANTS u1, u2, u3, u4, v1, v2

MCUids == {u1, u2, u3, u4}
MCVersions == {v1, v2}
=============================================================================
