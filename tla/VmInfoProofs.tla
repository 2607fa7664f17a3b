---------------------------- MODULE VmInfoProofs ----------------------------
(***************************************************************************)
(* Proofs about VmInfo, for every set of records, every size of the        *)
(* embedded arrays and every number of devices.                            *)
(***************************************************************************)
EXTENDS VmInfo, SequenceTheorems, TLAPS

Loaded == {"events", "print", "free"}
Places == Subsets \cup Loaded \cup {"begin", "setup", "uuid", "parse"}

\* Where main is once the array of subset s has been dealt with.
Past(s) ==
    CASE s = "vcpu" -> {"block", "iface", "uuid", "parse"} \cup Loaded
      [] s = "block" -> {"iface", "uuid", "parse"} \cup Loaded
      [] s = "iface" -> {"uuid", "parse"} \cup Loaded

\* The value of field f in the first n parameters of record r.
Last(r, f, n) ==
    LET ks == {k \in 1 .. n : FieldIs(r[k], f)}
    IN  IF ks = {} THEN 0 ELSE r[CHOOSE k \in ks : \A l \in ks : l <= k].value

(***************************************************************************)
(* The parts of the inductive invariant                                    *)
(***************************************************************************)

Shape ==
    /\ perc \in Percs /\ events_only \in BOOLEAN
    /\ pc \in Places
    /\ rec \in Records \cup {<<>>} /\ i \in 1 .. Len(rec) + 1
    /\ ret \in {0, -1}
    /\ nstats \in [Subsets -> Nat] /\ xstats \in [Subsets -> {"null", "live", "freed"}]
    /\ stats = NoValues
    /\ DOMAIN scalars = Scalars
    /\ failed \in BOOLEAN
    /\ faults \subseteq {"use_after_free", "out_of_bounds", "double_free"}

\* An array is on the heap exactly when the count says so, unless calloc
\* failed; a freed one is only seen then, or between two records.
Heap ==
    /\ \A s \in Subsets : xstats[s] = "freed" => failed \/ pc = "begin"
    /\ \A s \in Subsets : ~failed /\ pc \in Past(s) => (xstats[s] = "live" <=> NeedsHeap(s))
    /\ \A s \in Subsets : pc \notin Past(s) /\ pc # "begin" => xstats[s] = "null"

\* The counts come from the first pass over the record.
Counts ==
    /\ pc = "setup" => \A s \in Subsets : nstats[s] = Last(rec, Count[s], i - 1)
    /\ pc \notin {"begin", "setup"} => \A s \in Subsets : nstats[s] = Last(rec, Count[s], Len(rec))

\* vcpu.current comes from the first pass, too; the others from the second,
\* and if that is not reached they are still cleared.
Values ==
    /\ pc \notin Loaded => ret = 0
    /\ pc = "setup" => scalars[VcpuCurrent] = Last(rec, VcpuCurrent, i - 1)
    /\ pc \in Subsets \cup {"uuid", "parse"} => scalars[VcpuCurrent] = Last(rec, VcpuCurrent, Len(rec))
    /\ pc \in Subsets \cup {"setup", "uuid"} => \A f \in Printed : scalars[f] = 0
    /\ pc = "parse" => \A f \in Printed : scalars[f] = Last(rec, f, i - 1)
    /\ pc \in Loaded => \A f \in Printed : scalars[f] = IF ret = 0 THEN Last(rec, f, Len(rec)) ELSE 0

Output ==
    /\ DOMAIN out = {"events", "printed", "sections", "scalars"}
    /\ out.events \in Nat /\ out.printed \in BOOLEAN
    /\ out.printed => /\ pc = "free" /\ out.scalars = [f \in Printed |-> scalars[f]]
                      /\ \A s \in {"block", "iface"} : out.sections[s] = 0 .. nstats[s] - 1

USE VmInfoAssumption

(***************************************************************************)
(* Lemmas about the operators                                              *)
(***************************************************************************)

\* Any record is a sequence of parameters with natural values.
LEMMA RecordType ==
    ASSUME Shape
    PROVE  /\ rec \in Seq([prefix : STRING, num : Int, name : STRING, value : Nat])
           /\ Len(rec) \in Nat /\ DOMAIN rec = 1 .. Len(rec)
<1> DEFINE P == [prefix : STRING, num : Int, name : STRING, value : Nat]
<1>1. Records \subseteq Seq(P) /\ rec \in Records \cup {<<>>}
  BY DEF Shape
<1> HIDE DEF P
<1>2. rec \in Seq(P)
  BY <1>1, EmptySeq
<1>3. Len(rec) \in Nat /\ DOMAIN rec = 1 .. Len(rec)
  BY <1>2, LenProperties
<1> QED
  BY <1>2, <1>3 DEF P

\* One more parameter decides the value of a field, or leaves it.
LEMMA LastStep ==
    ASSUME NEW r, NEW f, NEW n \in Nat
    PROVE  Last(r, f, n + 1) = IF FieldIs(r[n + 1], f) THEN r[n + 1].value ELSE Last(r, f, n)
<1> DEFINE K(m) == {k \in 1 .. m : FieldIs(r[k], f)}
<1>1. CASE FieldIs(r[n + 1], f)
  <2>1. n + 1 \in K(n + 1) /\ \A l \in K(n + 1) : l <= n + 1
    BY <1>1
  <2>2. \A k \in K(n + 1) : (\A l \in K(n + 1) : l <= k) => k = n + 1
    BY <2>1
  <2>3. (CHOOSE k \in K(n + 1) : \A l \in K(n + 1) : l <= k) = n + 1
    BY <2>1, <2>2
  <2>4. Last(r, f, n + 1) = IF K(n + 1) = {} THEN 0
            ELSE r[CHOOSE k \in K(n + 1) : \A l \in K(n + 1) : l <= k].value
    BY Zenon DEF Last
  <2> HIDE DEF K
  <2>5. Last(r, f, n + 1) = r[n + 1].value
    BY <2>1, <2>3, <2>4
  <2> QED
    BY <1>1, <2>5
<1>2. CASE ~FieldIs(r[n + 1], f)
  <2>1. K(n + 1) = K(n)
    BY <1>2
  <2> DEFINE L(S) == IF S = {} THEN 0 ELSE r[CHOOSE k \in S : \A l \in S : l <= k].value
  <2>2. Last(r, f, n) = L(K(n)) /\ Last(r, f, n + 1) = L(K(n + 1))
    BY Zenon DEF Last
  <2> HIDE DEF K, L
  <2>3. Last(r, f, n + 1) = Last(r, f, n)
    BY <2>1, <2>2
  <2> QED
    BY <1>2, <2>3
<1> QED
  BY <1>1, <1>2

LEMMA CurrentIsScalar == VcpuCurrent \in Scalars
  BY DEF Scalars

\* No parameter, no value.
LEMMA LastZero ==
    ASSUME NEW r, NEW f
    PROVE  Last(r, f, 0) = 0
<1>1. {k \in 1 .. 0 : FieldIs(r[k], f)} = {}
  OBVIOUS
<1> QED
  BY <1>1 DEF Last

\* After the last parameter Last is what the property calls given.
LEMMA LastGiven ==
    ASSUME Shape, NEW f
    PROVE  Last(rec, f, Len(rec)) = Given(f)
<1>1. DOMAIN rec = 1 .. Len(rec)
  BY RecordType
<1> DEFINE L(S) == IF S = {} THEN 0 ELSE rec[CHOOSE k \in S : \A l \in S : l <= k].value
<1>2. /\ Last(rec, f, Len(rec)) = L({k \in 1 .. Len(rec) : FieldIs(rec[k], f)})
      /\ Given(f) = L({k \in DOMAIN rec : FieldIs(rec[k], f)})
  BY Zenon DEF Last, Given
<1> HIDE DEF L
<1> QED
  BY <1>1, <1>2

\* No parameter reaches the statistics of a device: what scan_field leaves of
\* the field is not a name.
LEMMA NothingStored ==
    ASSUME stats = NoValues, NEW s \in Subsets, NEW p
    PROVE  device_parse(s, p) = {}
<1>1. "(cut)" \notin Names[s]
  BY DEF Names, Subsets
<1> QED
  BY <1>1 DEF device_parse, scan_field, NoValues

\* With arrays where the counts want them, reading is safe.
LEMMA ReadsSafe ==
    ASSUME Shape, Heap, ~failed, pc \in Loaded, NEW s \in Subsets, NEW n \in 0 .. nstats[s]
    PROVE  ReadFaults(s, n) = {}
<1>1. pc \in Past(s) /\ pc # "begin"
  BY DEF Past, Loaded, Subsets
<1>2. xstats[s] # "freed" /\ (xstats[s] = "live" <=> nstats[s] > Embedded[s])
  BY <1>1 DEF Heap, NeedsHeap
<1>3. n \in Nat /\ nstats[s] \in Nat /\ Embedded[s] \in Nat /\ n <= nstats[s]
  BY DEF Shape
<1>4. xstats[s] = "null" => ~(n > Embedded[s])
  BY <1>2, <1>3
<1> QED
  BY <1>2, <1>4 DEF ReadFaults

\* The faults of any read are faults.
LEMMA ReadFaultsType ==
    ASSUME NEW s, NEW n
    PROVE  ReadFaults(s, n) \subseteq {"use_after_free", "out_of_bounds", "double_free"}
  BY DEF ReadFaults

(***************************************************************************)
(* The inductive invariant                                                 *)
(***************************************************************************)

IInv == Shape /\ Heap /\ Counts /\ Values /\ Output /\ MemorySafe /\ NoLeak

LEMMA InitInv == Init => IInv
<1> SUFFICES ASSUME Init PROVE IInv
  OBVIOUS
<1>1. Shape
  <2>1. perc \in Percs /\ events_only \in BOOLEAN /\ pc \in Places /\ failed \in BOOLEAN
    BY DEF Init, Places
  <2>2. rec = <<>> /\ i = 1 /\ Len(rec) = 0
    BY DEF Init
  <2>3. nstats \in [Subsets -> Nat] /\ xstats \in [Subsets -> {"null", "live", "freed"}]
    BY DEF Init, NoStats
  <2>4. stats = NoValues /\ DOMAIN scalars = Scalars /\ faults = {} /\ ret = 0
    BY DEF Init, NoScalars
  <2> QED
    BY <2>1, <2>2, <2>3, <2>4 DEF Shape
<1>2. Heap /\ NoLeak /\ MemorySafe
  BY DEF Init, Heap, NoLeak, MemorySafe, Past, Loaded, Subsets
<1>3. Counts
  BY DEF Init, Counts
<1>4. Values
  BY DEF Init, Values, Loaded, Subsets
<1>5. Output
  BY DEF Init, Output, NoResponse
<1> QED
  BY <1>1, <1>2, <1>3, <1>4, <1>5 DEF IInv

LEMMA InitKeeps == IInv /\ vminfo_init => IInv'
<1> SUFFICES ASSUME IInv, vminfo_init PROVE IInv'
  OBVIOUS
<1> USE DEF IInv, vminfo_init, Goto
<1>1. Len(rec') \in Nat
  <2> DEFINE P == [prefix : STRING, num : Int, name : STRING, value : Nat]
  <2>1. rec' \in Seq(P)
    OBVIOUS
  <2> HIDE DEF P
  <2> QED
    BY <2>1, LenProperties
<1>2. Shape'
  <2>1. i' \in 1 .. Len(rec') + 1 /\ rec' \in Records /\ pc' \in Places
    BY <1>1 DEF Places
  <2>2. xstats' \in [Subsets -> {"null", "live", "freed"}]
    OBVIOUS
  <2>3. failed' \in BOOLEAN /\ faults' = {}
    OBVIOUS
  <2>4. UNCHANGED <<perc, events_only, ret>>
    BY DEF conf
  <2>5. nstats' \in [Subsets -> Nat] /\ stats' = NoValues /\ DOMAIN scalars' = Scalars
    BY DEF NoStats, NoScalars
  <2> QED
    BY <2>1, <2>2, <2>3, <2>4, <2>5 DEF Shape
<1>3. Heap' /\ MemorySafe' /\ NoLeak'
  BY DEF Heap, Past, Loaded, Subsets, MemorySafe, NoLeak
<1>4. \A f : Last(rec, f, 0)' = 0
  BY <1>2, LastZero
<1>5. Counts'
  BY <1>4 DEF Counts, NoStats
<1>6. Values'
  <2>1. pc = "begin" /\ pc' = "setup" /\ i' = 1 /\ ret' = ret
    OBVIOUS
  <2>2. \A f \in Scalars : scalars'[f] = 0
    BY DEF NoScalars
  <2> QED
    BY <1>4, <2>1, <2>2, CurrentIsScalar DEF Values, Loaded, Subsets, Printed
<1>7. Output'
  BY DEF Output
<1> QED
  BY <1>2, <1>3, <1>5, <1>6, <1>7

\* A parameter of the record has a natural value.
LEMMA ParameterType ==
    ASSUME Shape, i <= Len(rec)
    PROVE  i \in 1 .. Len(rec) /\ rec[i].value \in Nat
<1> DEFINE P == [prefix : STRING, num : Int, name : STRING, value : Nat]
<1>1. rec \in Seq(P) /\ Len(rec) \in Nat
  BY RecordType
<1>2. i \in 1 .. Len(rec)
  BY <1>1 DEF Shape
<1>3. rec[i] \in P
  BY <1>1, <1>2, ElementOfSeq
<1> QED
  BY <1>2, <1>3

\* The first pass goes on.
LEMMA SetupStepKeeps == IInv /\ vminfo_setup /\ i <= Len(rec) => IInv'
<1> SUFFICES ASSUME IInv, vminfo_setup, i <= Len(rec) PROVE IInv'
  OBVIOUS
<1> USE DEF IInv
<1>1. i \in 1 .. Len(rec) /\ rec[i].value \in Nat /\ Len(rec) \in Nat
  BY ParameterType, RecordType
<1>2. ~(i > Len(rec))
  BY <1>1
<1>3. /\ pc = "setup" /\ pc' = "setup" /\ i' = i + 1
      /\ nstats' = [s \in Subsets |-> IF FieldIs(rec[i], Count[s]) THEN rec[i].value ELSE nstats[s]]
      /\ scalars' = IF FieldIs(rec[i], VcpuCurrent)
                    THEN [scalars EXCEPT ![VcpuCurrent] = rec[i].value] ELSE scalars
      /\ UNCHANGED <<perc, events_only, rec, ret, xstats, stats, out, failed, faults>>
  BY <1>2 DEF vminfo_setup, conf
<1>4. Shape'
  <2>1. nstats' \in [Subsets -> Nat]
    BY <1>1, <1>3 DEF Shape
  <2>2. DOMAIN scalars' = Scalars
    BY <1>3 DEF Shape
  <2>3. i' \in 1 .. Len(rec') + 1
    BY <1>1, <1>3
  <2>4. UNCHANGED <<perc, events_only, pc, rec, ret, xstats, stats, failed, faults>>
    BY <1>3
  <2> QED
    BY <2>1, <2>2, <2>3, <2>4 DEF Shape
<1>5. Heap' /\ MemorySafe' /\ NoLeak'
  BY <1>3 DEF Heap, MemorySafe, NoLeak, Past, Loaded, Subsets
<1>6. \A f : Last(rec, f, i) = IF FieldIs(rec[i], f) THEN rec[i].value ELSE Last(rec, f, i - 1)
  <2>1. i - 1 \in Nat /\ (i - 1) + 1 = i
    BY <1>1
  <2> QED
    BY <2>1, LastStep
<1>7. i' - 1 = i
  BY <1>1, <1>3
<1>8. Counts'
  <2>1. \A s \in Subsets : nstats[s] = Last(rec, Count[s], i - 1)
    BY <1>3 DEF Counts
  <2>2. \A s \in Subsets : nstats'[s] = Last(rec', Count[s], i' - 1)
    BY <1>3, <1>6, <1>7, <2>1
  <2> QED
    BY <1>3, <2>2 DEF Counts
<1>9. Values'
  <2>1. /\ scalars[VcpuCurrent] = Last(rec, VcpuCurrent, i - 1)
        /\ \A f \in Printed : scalars[f] = 0
        /\ DOMAIN scalars = Scalars
    BY <1>3 DEF Values, Shape
  <2>2. scalars'[VcpuCurrent] = Last(rec', VcpuCurrent, i' - 1)
    BY <1>3, <1>6, <1>7, <2>1, CurrentIsScalar
  <2>3. \A f \in Printed : scalars'[f] = 0
    BY <1>3, <2>1 DEF Printed
  <2> QED
    BY <1>3, <2>2, <2>3 DEF Values, Subsets, Loaded
<1>10. Output'
  BY <1>3 DEF Output
<1> QED
  BY <1>4, <1>5, <1>8, <1>9, <1>10

\* The first pass ends.
LEMMA SetupEndKeeps == IInv /\ vminfo_setup /\ i > Len(rec) => IInv'
<1> SUFFICES ASSUME IInv, vminfo_setup, i > Len(rec) PROVE IInv'
  OBVIOUS
<1> USE DEF IInv
<1>1. Len(rec) \in Nat /\ i \in 1 .. Len(rec) + 1
  BY RecordType DEF Shape
<1>2. i - 1 = Len(rec)
  BY <1>1
<1>3. /\ pc = "setup" /\ pc' = "vcpu" /\ i' = 1
      /\ UNCHANGED <<perc, events_only, rec, ret, nstats, scalars, xstats, stats, out, failed, faults>>
  BY DEF vminfo_setup, conf, Goto
<1>4. Shape'
  BY <1>1, <1>3 DEF Shape, Places, Subsets
<1>5. Heap' /\ MemorySafe' /\ NoLeak'
  BY <1>3 DEF Heap, MemorySafe, NoLeak, Past, Loaded, Subsets
<1>6. Counts'
  BY <1>2, <1>3 DEF Counts
<1>7. Values'
  BY <1>2, <1>3 DEF Values, Subsets, Loaded
<1>8. Output'
  BY <1>3 DEF Output
<1> QED
  BY <1>4, <1>5, <1>6, <1>7, <1>8

LEMMA AllocateKeeps == ASSUME IInv, NEW s \in Subsets, Allocate(s) PROVE IInv'
<1> USE DEF IInv
<1>1. /\ pc = s /\ pc' = AfterAlloc[s] /\ i' = 1
      /\ xstats' = IF NeedsHeap(s) THEN [xstats EXCEPT ![s] = "live"] ELSE xstats
      /\ UNCHANGED <<perc, events_only, rec, ret, nstats, scalars, stats, out, failed, faults>>
  BY DEF Allocate, Goto, conf
<1>2. Len(rec) \in Nat
  BY RecordType
<1>3. pc' \in {"block", "iface", "uuid"} /\ pc \in {"vcpu", "block", "iface"}
  BY <1>1 DEF AfterAlloc, Subsets
<1>4. Shape'
  <2>1. xstats' \in [Subsets -> {"null", "live", "freed"}]
    BY <1>1 DEF Shape
  <2>2. i' \in 1 .. Len(rec') + 1 /\ pc' \in Places
    BY <1>1, <1>2, <1>3 DEF Places, Subsets
  <2> QED
    BY <1>1, <2>1, <2>2 DEF Shape
<1>5. Heap'
  <2>1. xstats[s] = "null" /\ xstats \in [Subsets -> {"null", "live", "freed"}]
    BY <1>1, <1>3 DEF Heap, Past, Loaded, Subsets, Shape
  <2>2. \A x \in Subsets : NeedsHeap(x)' <=> NeedsHeap(x)
    BY <1>1 DEF NeedsHeap
  <2>3. xstats'[s] = "live" <=> NeedsHeap(s)
    BY <1>1, <2>1
  <2>4. xstats'[s] # "freed"
    BY <1>1, <2>1
  <2>5. \A x \in Subsets \ {s} : xstats'[x] = xstats[x]
    BY <1>1, <2>1
  <2>6. \A x \in Subsets \ {s} : pc' \in Past(x) <=> pc \in Past(x)
    BY <1>1 DEF Past, Loaded, Subsets, AfterAlloc
  <2>7. pc' \in Past(s) /\ pc \notin {"begin"} /\ pc' # "begin"
    BY <1>1, <1>3 DEF Past, Loaded, Subsets, AfterAlloc
  <2> QED
    BY <1>1, <2>2, <2>3, <2>4, <2>5, <2>6, <2>7 DEF Heap
<1>6. MemorySafe' /\ NoLeak'
  BY <1>1, <1>3 DEF MemorySafe, NoLeak
<1>7. Counts'
  BY <1>1, <1>3 DEF Counts
<1>8. Values'
  BY <1>1, <1>3 DEF Values, Loaded, Subsets
<1>9. Output'
  BY <1>1, <1>3 DEF Output
<1> QED
  BY <1>4, <1>5, <1>6, <1>7, <1>8, <1>9

LEMMA AllocateFailsKeeps == ASSUME IInv, NEW s \in Subsets, AllocateFails(s) PROVE IInv'
<1> USE DEF IInv
<1>1. /\ pc = s /\ pc' = "events" /\ i' = 1 /\ ret' = -1 /\ failed' = TRUE
      /\ xstats' = [x \in Subsets |-> IF xstats[x] = "live" THEN "freed" ELSE xstats[x]]
      /\ UNCHANGED <<perc, events_only, rec, nstats, scalars, stats, out, faults>>
  BY DEF AllocateFails, Goto, conf
<1>2. Len(rec) \in Nat
  BY RecordType
<1>3. pc \in {"vcpu", "block", "iface"}
  BY <1>1 DEF Subsets
<1>4. Shape'
  <2>1. xstats' \in [Subsets -> {"null", "live", "freed"}]
    BY <1>1 DEF Shape
  <2>2. i' \in 1 .. Len(rec') + 1 /\ pc' \in Places
    BY <1>1, <1>2 DEF Places, Loaded
  <2> QED
    BY <1>1, <2>1, <2>2 DEF Shape
<1>5. Heap' /\ MemorySafe' /\ NoLeak'
  BY <1>1 DEF Heap, MemorySafe, NoLeak, Past, Loaded, Subsets
<1>6. Counts'
  BY <1>1, <1>3 DEF Counts
<1>7. Values'
  BY <1>1 DEF Values, Loaded, Subsets
<1>8. Output'
  BY <1>1, <1>3 DEF Output
<1> QED
  BY <1>4, <1>5, <1>6, <1>7, <1>8

LEMMA UuidKeeps == IInv /\ virDomainGetUUIDString => IInv'
<1> SUFFICES ASSUME IInv, virDomainGetUUIDString PROVE IInv'
  OBVIOUS
<1> USE DEF IInv
<1>1. /\ pc = "uuid" /\ i' = 1
      /\ (pc' = "parse" /\ ret' = ret) \/ (pc' = "events" /\ ret' = -1)
      /\ UNCHANGED <<perc, events_only, rec, xstats, nstats, scalars, stats, out, failed, faults>>
  BY DEF virDomainGetUUIDString, Goto, conf, vm
<1>2. Len(rec) \in Nat
  BY RecordType
<1>3. Shape'
  BY <1>1, <1>2 DEF Shape, Places, Loaded
<1>4. Heap'
  BY <1>1 DEF Heap, Past, Loaded, Subsets, NeedsHeap
<1>5. MemorySafe' /\ NoLeak' /\ Counts' /\ Output'
  BY <1>1 DEF MemorySafe, NoLeak, Counts, Output
<1>6. Values'
  <2>1. \A f \in Printed : scalars[f] = 0
    BY <1>1 DEF Values
  <2>2. \A f : Last(rec', f, i' - 1) = 0
    <3>1. i' - 1 = 0
      BY <1>1
    <3> QED
      BY <3>1, LastZero
  <2> QED
    BY <1>1, <2>1, <2>2 DEF Values, Loaded, Subsets
<1> QED
  BY <1>3, <1>4, <1>5, <1>6

\* The second pass goes on.
LEMMA ParseStepKeeps == IInv /\ vminfo_parse /\ i <= Len(rec) => IInv'
<1> SUFFICES ASSUME IInv, vminfo_parse, i <= Len(rec) PROVE IInv'
  OBVIOUS
<1> USE DEF IInv
<1>1. i \in 1 .. Len(rec) /\ Len(rec) \in Nat
  BY ParameterType, RecordType
<1>2. ~(i > Len(rec))
  BY <1>1
<1>3. /\ pc = "parse" /\ pc' = "parse" /\ i' = i + 1
      /\ scalars' = scalar_parse(rec[i])
      /\ stats' = [s \in Subsets |-> device_parse(s, rec[i])]
      /\ UNCHANGED <<perc, events_only, rec, ret, nstats, xstats, out, failed, faults>>
  BY <1>2 DEF vminfo_parse, conf
<1>4. stats' = NoValues
  <2>1. \A s \in Subsets : device_parse(s, rec[i]) = {}
    BY NothingStored DEF Shape
  <2> QED
    BY <1>3, <2>1 DEF NoValues
<1>5. Shape'
  <2>1. DOMAIN scalars' = Scalars
    BY <1>3 DEF scalar_parse
  <2>2. i' \in 1 .. Len(rec') + 1
    BY <1>1, <1>3
  <2> QED
    BY <1>3, <1>4, <2>1, <2>2 DEF Shape
<1>6. Heap'
  BY <1>3 DEF Heap, NeedsHeap
<1>7. MemorySafe' /\ NoLeak' /\ Counts' /\ Output'
  BY <1>3 DEF MemorySafe, NoLeak, Counts, Output
<1>8. Values'
  <2>1. \A f : Last(rec, f, i) = IF FieldIs(rec[i], f) THEN rec[i].value ELSE Last(rec, f, i - 1)
    <3>1. i - 1 \in Nat /\ (i - 1) + 1 = i
      BY <1>1
    <3> QED
      BY <3>1, LastStep
  <2>2. i' - 1 = i
    BY <1>1, <1>3
  <2>3. /\ \A f \in Printed : scalars[f] = Last(rec, f, i - 1)
        /\ scalars[VcpuCurrent] = Last(rec, VcpuCurrent, Len(rec))
    BY <1>3 DEF Values
  <2>4. \A f \in Printed : scalars'[f] = Last(rec', f, i' - 1)
    BY <1>3, <2>1, <2>2, <2>3 DEF scalar_parse, Printed
  <2>5. scalars'[VcpuCurrent] = scalars[VcpuCurrent]
    BY <1>3, CurrentIsScalar DEF scalar_parse
  <2> QED
    BY <1>3, <2>3, <2>4, <2>5 DEF Values, Loaded, Subsets
<1> QED
  BY <1>5, <1>6, <1>7, <1>8

\* The second pass ends.
LEMMA ParseEndKeeps == IInv /\ vminfo_parse /\ i > Len(rec) => IInv'
<1> SUFFICES ASSUME IInv, vminfo_parse, i > Len(rec) PROVE IInv'
  OBVIOUS
<1> USE DEF IInv
<1>1. Len(rec) \in Nat /\ i \in 1 .. Len(rec) + 1
  BY RecordType DEF Shape
<1>2. i - 1 = Len(rec)
  BY <1>1
<1>3. /\ pc = "parse" /\ pc' = "events" /\ i' = 1
      /\ UNCHANGED <<perc, events_only, rec, ret, nstats, scalars, xstats, stats, out, failed, faults>>
  BY DEF vminfo_parse, conf, Goto
<1>4. Shape'
  BY <1>1, <1>3 DEF Shape, Places, Loaded
<1>5. Heap'
  BY <1>3 DEF Heap, Past, Loaded, Subsets, NeedsHeap
<1>6. MemorySafe' /\ NoLeak' /\ Counts' /\ Output'
  BY <1>3 DEF MemorySafe, NoLeak, Counts, Output
<1>7. Values'
  <2>1. ret = 0 /\ \A f \in Printed : scalars[f] = Last(rec, f, Len(rec))
    BY <1>2, <1>3 DEF Values, Loaded
  <2> QED
    BY <1>3, <2>1 DEF Values, Loaded, Subsets
<1> QED
  BY <1>4, <1>5, <1>6, <1>7

LEMMA EventsKeeps == IInv /\ vminfo_send_events => IInv'
<1> SUFFICES ASSUME IInv, vminfo_send_events PROVE IInv'
  OBVIOUS
<1> USE DEF IInv
<1> DEFINE n == IF nstats["block"] = 0 THEN 0 ELSE 1
           e == IF Triggered(0) THEN nstats["block"] ELSE 0
<1>1. /\ pc = "events" /\ pc' = "print" /\ i' = 1
      /\ out' = [out EXCEPT !.events = e]
      /\ faults' = faults \cup ReadFaults("block", n)
      /\ UNCHANGED <<perc, events_only, rec, ret, nstats, scalars, xstats, stats, failed>>
  BY DEF vminfo_send_events, conf, Goto, vm
<1>2. Len(rec) \in Nat
  BY RecordType
<1>3. nstats["block"] \in Nat /\ e \in Nat /\ n \in 0 .. nstats["block"]
  BY DEF Shape, Subsets
<1> HIDE DEF n, e
<1>4. Shape'
  <2>1. faults' \subseteq {"use_after_free", "out_of_bounds", "double_free"}
    BY <1>1, ReadFaultsType DEF Shape
  <2> QED
    BY <1>1, <1>2, <2>1 DEF Shape, Places, Loaded
<1>5. Heap'
  BY <1>1 DEF Heap, Past, Loaded, Subsets, NeedsHeap
<1>6. MemorySafe'
  <2>1. ~failed => ReadFaults("block", n) = {}
    BY <1>1, <1>3, ReadsSafe DEF Loaded, Subsets
  <2> QED
    BY <1>1, <2>1 DEF MemorySafe
<1>7. NoLeak' /\ Counts'
  BY <1>1 DEF NoLeak, Counts
<1>8. Values'
  BY <1>1 DEF Values, Loaded, Subsets
<1>9. Output'
  BY <1>1, <1>3 DEF Output
<1> QED
  BY <1>4, <1>5, <1>6, <1>7, <1>8, <1>9

LEMMA PrintKeeps == IInv /\ vminfo_print_json => IInv'
<1> SUFFICES ASSUME IInv, vminfo_print_json PROVE IInv'
  OBVIOUS
<1> USE DEF IInv
<1> DEFINE R == UNION {ReadFaults(s, nstats[s]) : s \in Subsets}
           S == [s \in Subsets |-> Section(s)]
           V == [f \in Printed |-> scalars[f]]
<1>1. /\ pc = "print" /\ pc' = "free" /\ i' = 1
      /\ \/ out' = out /\ faults' = faults
         \/ out' = [out EXCEPT !.printed = TRUE, !.sections = S, !.scalars = V] /\ faults' = faults \cup R
      /\ UNCHANGED <<perc, events_only, rec, ret, nstats, scalars, xstats, stats, failed>>
  BY DEF vminfo_print_json, conf, Goto, vm
<1>2. Len(rec) \in Nat
  BY RecordType
<1>3. R \subseteq {"use_after_free", "out_of_bounds", "double_free"}
  BY ReadFaultsType
<1>4. ~failed => R = {}
  <2>1. \A s \in Subsets : nstats[s] \in 0 .. nstats[s]
    BY DEF Shape
  <2>2. ASSUME ~failed, NEW s \in Subsets PROVE ReadFaults(s, nstats[s]) = {}
    BY <1>1, <2>1, <2>2, ReadsSafe DEF Loaded
  <2> QED
    BY <2>2
<1>5. \A s \in {"block", "iface"} : S[s] = 0 .. nstats[s] - 1
  BY DEF Section, Subsets
<1> HIDE DEF R, S, V
<1>6. Shape'
  <2>1. faults' \subseteq {"use_after_free", "out_of_bounds", "double_free"}
    BY <1>1, <1>3 DEF Shape
  <2> QED
    BY <1>1, <1>2, <2>1 DEF Shape, Places, Loaded
<1>7. Heap'
  BY <1>1 DEF Heap, Past, Loaded, Subsets, NeedsHeap
<1>8. MemorySafe'
  BY <1>1, <1>4 DEF MemorySafe
<1>9. NoLeak' /\ Counts'
  BY <1>1 DEF NoLeak, Counts
<1>10. Values'
  BY <1>1 DEF Values, Loaded, Subsets
<1>11. Output'
  <2>1. ~out.printed
    BY <1>1 DEF Output
  <2>2. CASE out' = out
    BY <1>1, <2>1, <2>2 DEF Output
  <2>3. CASE out' = [out EXCEPT !.printed = TRUE, !.sections = S, !.scalars = V]
    <3>1. /\ DOMAIN out' = {"events", "printed", "sections", "scalars"}
          /\ out'.events = out.events /\ out'.printed = TRUE /\ out'.sections = S
          /\ out'.scalars = V
      BY <2>3 DEF Output
    <3> QED
      BY <1>1, <1>5, <3>1 DEF Output, V
  <2> QED
    BY <1>1, <2>2, <2>3
<1> QED
  BY <1>6, <1>7, <1>8, <1>9, <1>10, <1>11

LEMMA FreeKeeps == IInv /\ vminfo_free => IInv'
<1> SUFFICES ASSUME IInv, vminfo_free PROVE IInv'
  OBVIOUS
<1> USE DEF IInv
<1> DEFINE R == UNION {ReadFaults(s, nstats[s]) : s \in Freed \ {"vcpu"}}
           D == {f \in {"double_free"} : \E s \in Freed : xstats[s] = "freed"}
<1>0. faults' = faults \cup R \cup D
  BY DEF vminfo_free
<1>1. /\ pc = "free" /\ pc' = "begin" /\ i' = 1
      /\ xstats' = [s \in Subsets |->
                       IF xstats[s] = "live" /\ s \in Freed THEN "freed" ELSE xstats[s]]
      /\ rec' = <<>> /\ ret' = 0 /\ out' = NoResponse
      /\ UNCHANGED <<perc, events_only, nstats, stats, scalars, failed>>
  BY DEF vminfo_free, conf, Goto
<1>2. Freed = Subsets
  BY DEF Freed, Subsets
<1>3. R \subseteq {"use_after_free", "out_of_bounds", "double_free"} /\ D \subseteq {"double_free"}
  BY ReadFaultsType
<1>4. ~failed => R = {} /\ D = {}
  <2>1. \A s \in Subsets : nstats[s] \in 0 .. nstats[s]
    BY DEF Shape
  <2>2. ASSUME ~failed, NEW s \in Subsets PROVE ReadFaults(s, nstats[s]) = {}
    BY <1>1, <2>1, <2>2, ReadsSafe DEF Loaded
  <2>3. ASSUME ~failed, NEW s \in Subsets PROVE xstats[s] # "freed"
    BY <1>1, <2>3 DEF Heap
  <2>4. ~failed => R = {}
    BY <1>2, <2>2
  <2>5. ~failed => D = {}
    BY <1>2, <2>3
  <2> QED
    BY <2>4, <2>5
<1> HIDE DEF R, D
<1>5. \A s \in Subsets : xstats'[s] \in {"null", "freed"}
  BY <1>1, <1>2 DEF Shape
<1>6. Shape'
  <2>1. faults' \subseteq {"use_after_free", "out_of_bounds", "double_free"}
    BY <1>0, <1>3 DEF Shape
  <2>2. xstats' \in [Subsets -> {"null", "live", "freed"}]
    BY <1>1, <1>5
  <2>3. nstats' \in [Subsets -> Nat] /\ DOMAIN scalars' = Scalars
    BY <1>1 DEF Shape
  <2>4. i' \in 1 .. Len(rec') + 1 /\ pc' \in Places /\ rec' \in Records \cup {<<>>}
    BY <1>1 DEF Places
  <2> QED
    BY <1>1, <2>1, <2>2, <2>3, <2>4 DEF Shape
<1>7. Heap' /\ NoLeak'
  BY <1>1, <1>5 DEF Heap, NoLeak, Past, Loaded, Subsets
<1>8. MemorySafe'
  BY <1>0, <1>1, <1>4 DEF MemorySafe
<1>9. Counts'
  BY <1>1 DEF Counts
<1>10. Values'
  BY <1>1 DEF Values, Loaded, Subsets
<1>11. Output'
  BY <1>1 DEF Output, NoResponse
<1> QED
  BY <1>6, <1>7, <1>8, <1>9, <1>10, <1>11

LEMMA StutterKeeps == IInv /\ UNCHANGED vars => IInv'
<1> SUFFICES ASSUME IInv, UNCHANGED vars PROVE IInv'
  OBVIOUS
<1> USE DEF IInv, vars, vm, conf
<1>1. Shape' /\ Counts' /\ Values'
  BY DEF Shape, Counts, Values
<1>2. Heap' /\ Output' /\ MemorySafe' /\ NoLeak'
  BY DEF Heap, NeedsHeap, Output, MemorySafe, NoLeak
<1> QED
  BY <1>1, <1>2

LEMMA NextInv == IInv /\ [Next]_vars => IInv'
<1> SUFFICES ASSUME IInv, Next PROVE IInv'
  BY StutterKeeps
<1>1. i <= Len(rec) \/ i > Len(rec)
  <2>1. Len(rec) \in Nat /\ i \in Nat
    BY RecordType DEF IInv, Shape
  <2> QED
    BY <2>1
<1>2. CASE vminfo_setup
  BY <1>1, <1>2, SetupStepKeeps, SetupEndKeeps
<1>3. CASE vminfo_parse
  BY <1>1, <1>3, ParseStepKeeps, ParseEndKeeps
<1>4. ASSUME NEW s \in Subsets, Allocate(s) \/ AllocateFails(s) PROVE IInv'
  BY <1>4, AllocateKeeps, AllocateFailsKeeps
<1> QED
  BY <1>2, <1>3, <1>4, InitKeeps, UuidKeeps, EventsKeeps, PrintKeeps, FreeKeeps DEF Next

LEMMA Invariance == Spec => []IInv
  BY InitInv, NextInv, PTL DEF Spec

(***************************************************************************)
(* The theorems                                                            *)
(***************************************************************************)

\* Every variable keeps its type, for every set of records.
THEOREM TypeCorrect == Spec => []TypeOK
<1>1. IInv => TypeOK
  BY DEF IInv, Shape, Output, TypeOK, Places, Loaded, NoValues
<1> QED
  BY <1>1, Invariance, PTL

\* No array of statistics is overrun, used after it was freed or freed twice
\* while calloc succeeds, whatever the number of devices and the sizes of the
\* embedded arrays.
THEOREM MemoryAlwaysSafe == Spec => []MemorySafe
  BY Invariance, PTL DEF IInv

\* vminfo_free leaves nothing allocated, also after a failed set-up.
THEOREM NothingLeaks == Spec => []NoLeak
  BY Invariance, PTL DEF IInv

\* What is printed comes from its own record: an entry for each block device
\* and interface it counts and the last values of the five fields of the whole
\* domain (zeros when parsing failed), for records of any length and with any
\* repetitions, and whatever the records before left on the stack.
THEOREM RecordAlwaysReported == Spec => []ReportsRecord
<1>1. IInv => ReportsRecord
  <2> SUFFICES ASSUME IInv, out.printed
               PROVE  /\ \A s \in {"block", "iface"} : out.sections[s] = 0 .. Given(Count[s]) - 1
                      /\ \A f \in Printed : out.scalars[f] = IF ret = 0 THEN Given(f) ELSE 0
    BY DEF ReportsRecord
  <2>1. /\ pc = "free" /\ out.scalars = [f \in Printed |-> scalars[f]]
        /\ \A s \in {"block", "iface"} : out.sections[s] = 0 .. nstats[s] - 1
    BY DEF IInv, Output
  <2>2. \A f \in Printed : scalars[f] = IF ret = 0 THEN Given(f) ELSE 0
    BY <2>1, LastGiven DEF IInv, Values, Loaded
  <2>3. \A s \in Subsets : nstats[s] = Given(Count[s])
    BY <2>1, LastGiven DEF IInv, Counts
  <2> QED
    BY <2>1, <2>2, <2>3 DEF Subsets
<1> QED
  BY <1>1, Invariance, PTL

(***************************************************************************)
(* The usage monitor                                                       *)
(***************************************************************************)

\* A number below the modulus is its own remainder.
LEMMA SmallRemainder ==
    ASSUME NEW m \in Nat \ {0}, NEW h \in 0 .. m - 1
    PROVE  h % m = h
  OBVIOUS

\* Zero per cent is a threshold of zero, although the product is formed in an
\* int that wraps: zero does not.
LEMMA ZeroThreshold == perc = 0 => disk_usage_threshold = 0
<1> SUFFICES ASSUME perc = 0 PROVE disk_usage_threshold = 0
  OBVIOUS
<1> DEFINE h == 2^(IntBits - 1)
           m == 2^IntBits
           l == 2^LongBits
<1>1. m \in Nat \ {0} /\ h \in 0 .. m - 1 /\ h \in Int /\ l \in Nat \ {0}
  BY WidthAssumption
<1>2. disk_usage_threshold = Quotient(((perc * h + h) % m) - h, 100) % l
  BY DEF disk_usage_threshold, Wrap
<1> HIDE DEF h, m, l
<1>3. perc * h + h = h
  BY <1>1
<1>4. ((perc * h + h) % m) - h = 0
  BY <1>1, <1>3, SmallRemainder
<1>5. Quotient(0, 100) = 0
  BY DEF Quotient
<1>6. 0 % l = 0
  BY <1>1
<1> QED
  BY <1>2, <1>4, <1>5, <1>6

\* Nothing is below a threshold of zero: the difference is unsigned.
LEMMA NoTrigger ==
    ASSUME Shape, perc = 0
    PROVE  ~Triggered(0)
<1> DEFINE l == 2^LongBits
           d == Stored("block", 0, "physical") - Stored("block", 0, "allocation")
<1>1. Stored("block", 0, "physical") \in Int /\ Stored("block", 0, "allocation") \in Int
  BY DEF Stored, Shape, NoValues, Subsets
<1>2. l \in Nat \ {0}
  BY WidthAssumption
<1>3. d \in Int
  BY <1>1
<1>4. Triggered(0) <=> d % l < 0
  BY ZeroThreshold DEF Triggered
<1> HIDE DEF d, l
<1>5. ~(d % l < 0)
  BY <1>2, <1>3
<1> QED
  BY <1>4, <1>5

\* No event is sent while the usage monitor is off, whatever the records and
\* the widths of the integers.
THEOREM MonitorStaysQuiet == Spec => []QuietWhenOff
<1>1. Init => QuietWhenOff
  BY DEF Init, QuietWhenOff, NoResponse
<1>2. IInv /\ QuietWhenOff /\ [Next]_vars => QuietWhenOff'
  <2> SUFFICES ASSUME IInv, QuietWhenOff, [Next]_vars PROVE QuietWhenOff'
    OBVIOUS
  <2>0. perc' = perc /\ DOMAIN out = {"events", "printed", "sections", "scalars"}
    BY DEF Next, vars, conf, vminfo_init, vminfo_setup, Allocate, AllocateFails,
           virDomainGetUUIDString, vminfo_parse, vminfo_send_events, vminfo_print_json,
           vminfo_free, IInv, Output
  <2>1. CASE out'.events = out.events
    BY <2>0, <2>1 DEF QuietWhenOff
  <2>2. CASE vminfo_send_events
    <3>1. perc = 0 => out' = [out EXCEPT !.events = 0]
      BY <2>2, NoTrigger DEF vminfo_send_events, IInv
    <3> QED
      BY <2>0, <3>1 DEF QuietWhenOff
  <2>3. CASE vminfo_print_json
    <3>1. out'.events = out.events
      BY <2>0, <2>3 DEF vminfo_print_json
    <3> QED
      BY <2>1, <3>1
  <2>4. CASE vminfo_free
    BY <2>4 DEF vminfo_free, NoResponse, QuietWhenOff
  <2>5. CASE \/ vminfo_init \/ vminfo_setup \/ virDomainGetUUIDString \/ vminfo_parse
             \/ UNCHANGED vars \/ \E s \in Subsets : Allocate(s) \/ AllocateFails(s)
    <3>1. UNCHANGED out
      BY <2>5 DEF vminfo_init, vminfo_setup, virDomainGetUUIDString, vminfo_parse,
                  vars, Allocate, AllocateFails
    <3> QED
      BY <2>1, <3>1
  <2> QED
    BY <2>2, <2>3, <2>4, <2>5 DEF Next
<1> QED
  BY <1>1, <1>2, Invariance, PTL DEF Spec
=============================================================================
