------------------------------ MODULE MCVmInfo ------------------------------
(***************************************************************************)
(* Records of up to three parameters: counts at and above the size of the  *)
(* embedded arrays, repeated or missing, scalars, and fields of devices.   *)
(***************************************************************************)
EXTENDS VmInfo

Param(prefix, num, name, value) ==
    [prefix |-> prefix, num |-> num, name |-> name, value |-> value]
Plain(f, values) == {Param(f[1], NoNum, f[2], v) : v \in values}

Params ==
    Plain(<<"vcpu.", "maximum">>, {2, 3}) \cup Plain(<<"block.", "count">>, {1, 2})
    \cup Plain(<<"net.", "count">>, {1, 2}) \cup Plain(<<"cpu.", "time">>, {5, 6})
    \cup Plain(<<"vcpu.", "current">>, {2}) \cup Plain(<<"balloon.", "current">>, {7})
    \cup {Param("vcpu.", 1, "state", 1), Param("block.", 0, "physical", 9),
          Param("block.", 1, "allocation", 4), Param("net.", 0, "rx.bytes", 3)}

MCRecords == UNION {[1 .. n -> Params] : n \in 0 .. 3}
MCEmbedded == [vcpu |-> 2, block |-> 1, iface |-> 1]
=============================================================================
