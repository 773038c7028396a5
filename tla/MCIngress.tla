----------------------------- MODULE MCIngress ------------------------------
(***************************************************************************)
(* Ingress: two tenants, three chat users (two of one tenant), two agents  *)
(* and one rotation of the keys; HTTP callers that share a subject, a      *)
(* tenant or neither; two requests that look for two keys; more tenants    *)
(* than the map of buckets holds.                                          *)
(***************************************************************************)
EXTENDS Ingress

CONSTANTS x, y, z, k1, k2, th1, th2

const_Users == {"u1", "u2", "u3"}
const_Home == [u \in const_Users |-> IF u = "u3" THEN "t2" ELSE "t1"]
Key(id, len) == [id |-> id, len |-> len]
const_OldKey == Key("k1", 3)
const_NewKey == Key("k2", 3)
const_ShortKey == Key("k0", 1)
const_Agents ==
    {[id |-> "a1", exact |-> {"a"}, prefix |-> {}, part |-> {"b"}],
     [id |-> "a2", exact |-> {"b"}, prefix |-> {"a"}, part |-> {}]}
Config(identity, router, courier, polled, key) ==
    [identity |-> identity, router |-> router, courier |-> courier, keys |-> << key >>,
     outbound |-> courier \/ (identity = "table" /\ ~router), polled |-> polled]
const_Configs ==
    {Config("table", FALSE, FALSE, FALSE, const_OldKey), Config("azure", TRUE, FALSE, FALSE, const_OldKey),
     Config("table", FALSE, TRUE, FALSE, const_OldKey), Config("enrol", FALSE, TRUE, FALSE, const_OldKey),
     Config("upstream", TRUE, FALSE, FALSE, const_OldKey), Config("upstream", FALSE, FALSE, TRUE, const_OldKey),
     Config("upstream", FALSE, FALSE, FALSE, const_OldKey), Config("table", FALSE, FALSE, FALSE, const_ShortKey)}

Principal(iss, sub, tenant, ops) == [iss |-> iss, sub |-> sub, tenant |-> tenant, ops |-> ops]
const_Principals ==
    {Principal("i1", "s1", "t1", FALSE), Principal("i2", "s1", "t1", FALSE),
     Principal("i1", "s2", "t2", TRUE), Principal("i1", "s3", "-", FALSE),
     Principal("i1", "s4", "-", TRUE), Principal("i1", "op", "t1", TRUE)}
const_Operators == { <<"t1", "op">> }

ThreeTenants == {x, y, z}
TwoKeys == {k1, k2}
TwoThreads == {th1, th2}
AllLimiters == {"adapter", "tenants", "window"}
=============================================================================
