------------------------------- MODULE VmInfo -------------------------------
(***************************************************************************)
(* lib/vminfo.c, lib/vminfo_parse.c, lib/vminfo_print.c and the loop of    *)
(* collect_success (src/sampler.c): a libvirt record is parsed into a      *)
(* VmInfo, which is checked against the usage threshold, printed and freed.*)
(*                                                                         *)
(* A VmInfo keeps the statistics of its devices in arrays of fixed size    *)
(* and, when there are more devices, in arrays from the heap.  A record is *)
(* a sequence of typed parameters; a parameter's name is a prefix, for a   *)
(* device its number, and a name.  Values are opaque, counts excepted.     *)
(***************************************************************************)
EXTENDS Integers, Sequences

CONSTANTS
    Records,     \* sequences of [prefix, num, name, value]; num = NoNum: none
    Embedded,    \* VCPU_STATS_NUM, BLOCK_STATS_NUM, IFACE_STATS_NUM
    Percs,       \* values of conf.disk_usage_perc
    IntBits,     \* the width of int; CHUNK * MEGAB is 2^(IntBits - 1)
    LongBits     \* the width of unsigned long long

NoNum == -1
Subsets == {"vcpu", "block", "iface"}

ASSUME VmInfoAssumption ==
    /\ Embedded \in [Subsets -> Nat \ {0}]
    /\ Percs \subseteq 0 .. 99
    /\ Records \subseteq Seq([prefix : STRING, num : Int, name : STRING, value : Nat])
\* Widths are positive; what is said of the powers holds of any width.
ASSUME WidthAssumption ==
    /\ IntBits \in Nat \ {0} /\ LongBits \in Nat \ {0}
    /\ 2^IntBits \in Nat /\ 2^(IntBits - 1) \in 1 .. 2^IntBits - 1
    /\ 2^LongBits \in Nat \ {0}

VARIABLES
    perc, events_only,  \* of the configuration
    pc, i,              \* place in collect_success, index of the loop there
    rec,                \* the record
    ret,                \* what vminfo_parse returns, unused by its caller
    nstats, xstats,     \* nstats[s]; xstats[s]: "null", "live" or "freed"
    stats,              \* stats[s]: what is stored, as <<device, name, value>>
    scalars,            \* the stored fields of no device
    out,                \* the response: events, whether printed, and what
    failed, faults      \* history: calloc failed; memory errors

conf == <<perc, events_only>>
vm == <<nstats, xstats, stats, scalars>>
vars == <<conf, pc, i, rec, ret, vm, out, failed, faults>>

VcpuCurrent == <<"vcpu.", "current">>
\* Fields compared with their whole name, those of them that are printed, and
\* the prefixes that scan_field is given for the devices.
Scalars == {<<"cpu.", "time">>, <<"cpu.", "user">>, <<"cpu.", "system">>,
            <<"balloon.", "current">>, <<"balloon.", "maximum">>, VcpuCurrent}
Printed == Scalars \ {VcpuCurrent}
Count == [vcpu |-> <<"vcpu.", "maximum">>, block |-> <<"block.", "count">>,
          iface |-> <<"net.", "count">>]
Prefix == [vcpu |-> "vcpu.", block |-> "block.", iface |-> "iface."]
\* The names SETUP and DISPATCH know.
Names ==
    [vcpu |-> {"state", "time"},
     block |-> {"name", "rd.reqs", "rd.bytes", "rd.times", "wr.reqs", "wr.bytes", "wr.times",
                "fl.bytes", "fl.times", "allocation", "capacity", "physical"},
     iface |-> {"name", "rx.bytes", "rx.pkts", "rx.errs", "rx.drop",
                "tx.bytes", "tx.pkts", "tx.errs", "tx.drop"}]

FieldIs(p, f) == p.prefix = f[1] /\ p.num = NoNum /\ p.name = f[2]

\* The devices printed in each section, and the printed fields of no device.
NoResponse == [events |-> 0, printed |-> FALSE, sections |-> [s \in Subsets |-> {}],
               scalars |-> [f \in Printed |-> 0]]

NoStats == [s \in Subsets |-> 0]
NoValues == [s \in Subsets |-> {}]
NoScalars == [f \in Scalars |-> 0]

Init ==
    /\ perc \in Percs /\ events_only \in BOOLEAN
    /\ pc = "begin" /\ i = 1 /\ rec = <<>> /\ ret = 0 /\ out = NoResponse
    /\ nstats = NoStats /\ stats = NoValues /\ scalars = NoScalars
    /\ xstats = [s \in Subsets |-> "null"] /\ failed = FALSE /\ faults = {}

Goto(label) == pc' = label /\ i' = 1

-----------------------------------------------------------------------------
(* Parsing *)

\* Mutation: only the pointers are cleared.
vminfo_init_Keep ==
    /\ pc = "begin" /\ Goto("setup")
    /\ rec' \in Records
    /\ xstats' = [s \in Subsets |-> "null"]
    /\ failed' = FALSE /\ faults' = {}
    /\ UNCHANGED <<conf, ret, nstats, stats, scalars, out>>
\* The next record.  Its VmInfo is a new one on the stack, where the last one
\* was, and all of it is cleared.
vminfo_init ==
    /\ pc = "begin" /\ Goto("setup")
    /\ rec' \in Records
    /\ nstats' = NoStats /\ stats' = NoValues /\ scalars' = NoScalars
    /\ xstats' = [s \in Subsets |-> "null"]
    /\ failed' = FALSE /\ faults' = {}
    /\ UNCHANGED <<conf, ret, out>>

\* One parameter in the loop of vminfo_setup, then the allocations.
vminfo_setup ==
    /\ pc = "setup"
    /\ IF i > Len(rec) THEN Goto("vcpu") /\ UNCHANGED <<nstats, scalars>>
       ELSE LET p == rec[i]
            IN  /\ nstats' = [s \in Subsets |->
                       IF FieldIs(p, Count[s]) THEN p.value ELSE nstats[s]]
                /\ scalars' = IF FieldIs(p, VcpuCurrent)
                              THEN [scalars EXCEPT ![VcpuCurrent] = p.value]
                              ELSE scalars
                /\ i' = i + 1 /\ UNCHANGED pc
    /\ UNCHANGED <<conf, rec, ret, xstats, stats, out, failed, faults>>

AfterAlloc == [vcpu |-> "block", block |-> "iface", iface |-> "uuid"]

\* Mutation: the array is allocated one device too late.
NeedsHeap_Late(s) == nstats[s] > Embedded[s] + 1
NeedsHeap(s) == nstats[s] > Embedded[s]

Allocate(s) ==
    /\ pc = s /\ Goto(AfterAlloc[s])
    /\ xstats' = IF NeedsHeap(s) THEN [xstats EXCEPT ![s] = "live"] ELSE xstats
    /\ UNCHANGED <<conf, rec, ret, nstats, stats, scalars, out, failed, faults>>

\* calloc fails: what was allocated is freed, and the pointers stay.
AllocateFails(s) ==
    /\ pc = s /\ NeedsHeap(s) /\ Goto("events")
    /\ xstats' = [x \in Subsets |-> IF xstats[x] = "live" THEN "freed" ELSE xstats[x]]
    /\ ret' = -1 /\ failed' = TRUE
    /\ UNCHANGED <<conf, rec, nstats, stats, scalars, out, faults>>

virDomainGetUUIDString ==
    /\ pc = "uuid"
    /\ \/ Goto("parse") /\ UNCHANGED ret
       \/ Goto("events") /\ ret' = -1
    /\ UNCHANGED <<conf, rec, vm, out, failed, faults>>

\* The prefix is compared but not skipped: the scan for digits starts at its
\* first letter, so that the device is always 0 and the rest of the field,
\* which begins inside the prefix, is never a known name.
scan_field(s, p) ==
    [ok |-> p.prefix = Prefix[s] /\ 0 < nstats[s], offset |-> 0, suffix |-> "(cut)"]

\* The stats of subset s after parameter p.
device_parse(s, p) ==
    LET match == scan_field(s, p)
    IN  IF match.ok /\ match.suffix \in Names[s]
        THEN {x \in stats[s] : x[1] # match.offset \/ x[2] # match.suffix}
                 \cup {<<match.offset, match.suffix, p.value>>}
        ELSE stats[s]

\* pcpuinfo_parse, ballooninfo_parse; vcpu.current was stored by vminfo_setup.
scalar_parse(p) ==
    [f \in Scalars |-> IF f # VcpuCurrent /\ FieldIs(p, f) THEN p.value ELSE scalars[f]]

\* One parameter in the loop of vminfo_parse.
vminfo_parse ==
    /\ pc = "parse"
    /\ IF i > Len(rec) THEN Goto("events") /\ UNCHANGED <<scalars, stats>>
       ELSE /\ scalars' = scalar_parse(rec[i])
            /\ stats' = [s \in Subsets |-> device_parse(s, rec[i])]
            /\ i' = i + 1 /\ UNCHANGED pc
    /\ UNCHANGED <<conf, rec, ret, nstats, xstats, out, failed, faults>>

-----------------------------------------------------------------------------
(* Reporting *)

\* Reading the first n entries of (xstats) ? xstats : stats.
ReadFaults(s, n) ==
    IF n = 0 THEN {}
    ELSE IF xstats[s] = "freed" THEN {"use_after_free"}
    ELSE IF xstats[s] = "null" /\ n > Embedded[s] THEN {"out_of_bounds"} ELSE {}

Stored(s, d, name) ==
    IF \E v \in stats[s] : v[1] = d /\ v[2] = name
    THEN (CHOOSE v \in stats[s] : v[1] = d /\ v[2] = name)[3] ELSE 0

\* disk_usage_perc * CHUNK * MEGAB in an int, divided as C does, and then
\* converted to an unsigned long long.
Wrap(x) == ((x + 2^(IntBits - 1)) % 2^IntBits) - 2^(IntBits - 1)
Quotient(x, y) == IF x >= 0 THEN x \div y ELSE -((-x) \div y)
disk_usage_threshold ==
    Quotient(Wrap(perc * 2^(IntBits - 1)), 100) % 2^LongBits

\* Mutation: a disk at the threshold triggers.
Triggered_Equal(d) ==
    (Stored("block", d, "physical") - Stored("block", d, "allocation")) % 2^LongBits
        <= disk_usage_threshold
\* vm_check_triggered_usage_threshold
Triggered(d) ==
    (Stored("block", d, "physical") - Stored("block", d, "allocation")) % 2^LongBits
        < disk_usage_threshold

\* The loop runs once per device and looks at the first one each time.
vminfo_send_events ==
    /\ pc = "events" /\ Goto("print")
    /\ out' = [out EXCEPT !.events = IF Triggered(0) THEN nstats["block"] ELSE 0]
    /\ faults' = faults \cup ReadFaults("block", IF nstats["block"] = 0 THEN 0 ELSE 1)
    /\ UNCHANGED <<conf, rec, ret, vm, failed>>

\* The devices of a section; vcpus nothing is known of are skipped.
Present(d) == \E v \in stats["vcpu"] : v[1] = d
Section(s) == {d \in 0 .. nstats[s] - 1 : s = "vcpu" => Present(d)}

vminfo_print_json ==
    /\ pc = "print" /\ Goto("free")
    /\ IF events_only THEN UNCHANGED <<out, faults>>
       ELSE /\ out' = [out EXCEPT !.printed = TRUE,
                                  !.sections = [s \in Subsets |-> Section(s)],
                                  !.scalars = [f \in Printed |-> scalars[f]]]
            /\ faults' = faults \cup UNION {ReadFaults(s, nstats[s]) : s \in Subsets}
    /\ UNCHANGED <<conf, rec, ret, vm, failed>>

\* Mutation: the interfaces are forgotten.
Freed_NoIface == {"vcpu", "block"}
\* The subsets whose arrays are freed.
Freed == {"vcpu", "block", "iface"}

\* The names of the devices are freed first, then the arrays.  The VmInfo goes
\* out of scope with its fields as they are; the response is written.
vminfo_free ==
    /\ pc = "free" /\ Goto("begin")
    /\ faults' = faults
           \cup (UNION {ReadFaults(s, nstats[s]) : s \in Freed \ {"vcpu"}})
           \cup {f \in {"double_free"} : \E s \in Freed : xstats[s] = "freed"}
    /\ xstats' = [s \in Subsets |->
                      IF xstats[s] = "live" /\ s \in Freed THEN "freed" ELSE xstats[s]]
    /\ rec' = <<>> /\ ret' = 0 /\ out' = NoResponse
    /\ UNCHANGED <<conf, nstats, stats, scalars, failed>>

Next ==
    \/ vminfo_init \/ vminfo_setup
    \/ \E s \in Subsets : Allocate(s) \/ AllocateFails(s)
    \/ virDomainGetUUIDString \/ vminfo_parse
    \/ vminfo_send_events \/ vminfo_print_json \/ vminfo_free

Spec == Init /\ [][Next]_vars

-----------------------------------------------------------------------------
TypeOK ==
    /\ perc \in Percs /\ events_only \in BOOLEAN
    /\ pc \in Subsets \cup {"begin", "setup", "uuid", "parse", "events", "print", "free"}
    /\ rec \in Records \cup {<<>>} /\ i \in 1 .. Len(rec) + 1
    /\ ret \in {0, -1}
    /\ nstats \in [Subsets -> Nat] /\ xstats \in [Subsets -> {"null", "live", "freed"}]
    /\ \A s \in Subsets : \A v \in stats[s] : v[1] \in Nat /\ v[2] \in Names[s]
    /\ DOMAIN scalars = Scalars
    /\ out.events \in Nat /\ out.printed \in BOOLEAN
    /\ failed \in BOOLEAN
    /\ faults \subseteq {"use_after_free", "out_of_bounds", "double_free"}

\* As long as calloc succeeds, no statistics array is read past its end, used
\* after it was freed or freed twice: the count that decides where the arrays
\* are is the one every loop runs to, whatever counts a record repeats.
MemorySafe == failed \/ faults = {}

\* Between two records nothing that was allocated is left, also after a
\* failure half-way through vminfo_setup.
NoLeak == pc = "begin" => \A s \in Subsets : xstats[s] # "live"

\* The value a record gives a field: the last one, or 0.
Given(f) ==
    LET ks == {k \in DOMAIN rec : FieldIs(rec[k], f)}
    IN  IF ks = {} THEN 0 ELSE rec[CHOOSE k \in ks : \A l \in ks : l <= k].value

\* A printed response is about its own record and no other, also when parsing
\* failed and the caller did not look.  It has an entry for each block device
\* and interface the record counts, and of the five fields printed for the
\* whole domain the last values in the record, or zeros after a failure.
ReportsRecord ==
    out.printed =>
        /\ \A s \in {"block", "iface"} : out.sections[s] = 0 .. Given(Count[s]) - 1
        /\ \A f \in Printed : out.scalars[f] = IF ret = 0 THEN Given(f) ELSE 0

\* No event is sent when the usage monitor is off, at the edge where a disk
\* has nothing left and the threshold is 0.
QuietWhenOff == perc = 0 => out.events = 0

\* "skip '.' separator" (vminfo_parse.c:253): what follows the number of a
\* device is stored for that device.
DeviceFieldsReported ==
    out.printed /\ ret = 0 =>
        \A k \in DOMAIN rec, s \in {"vcpu", "block"} :
            rec[k].prefix = Prefix[s] /\ rec[k].num \in 0 .. nstats[s] - 1
                /\ rec[k].name \in Names[s] =>
                \E v \in stats[s] : v[1] = rec[k].num /\ v[2] = rec[k].name
=============================================================================
