----------------------------- MODULE UltraDebug -----------------------------
(***************************************************************************)
(* The debug console: a bounded log of requests for each device or host an *)
(* operator is watching, written by the transports of the poller and the   *)
(* firmware service while operators enable, clear and read it.  A writer   *)
(* takes the log's pointer under the manager's lock and appends under the  *)
(* log's own lock, so the log may be replaced or cleared in between.       *)
(***************************************************************************)
EXTENDS Integers, Sequences, FiniteSets, SequencesExt

CONSTANTS DebugDevices, DebugHosts,
          Spellings,    \* ways to write a host: its name and its scheme
          Bodies,       \* bodies of requests and responses
          MaxBytes, Limit, \* the size of a log, and of a captured body
          Writers, MaxRecords, MaxBuffers

\* NewManager takes no other size; a captured body has a length.
ASSUME DebugAssumption ==
    /\ MaxBytes \in Nat \ {0} /\ Limit \in Nat
    /\ \A body \in Bodies : body.n \in Nat

VARIABLES bufs,     \* device or host -> its log's number, or 0
          heap,     \* every log made: its bytes and its entries
          fed,      \* history: what each log was given since it was last empty
          writing,  \* each transport: the log it took and what it will append
          records

udebugVars == <<bufs, heap, fed, writing, records>>

None == [log |-> 0, size |-> 0, then |-> <<>>]
Entry(n, size) == [n |-> n, size |-> size]
Total(entries) ==
    LET sum[i \in 0..Len(entries)] == IF i = 0 THEN 0 ELSE sum[i - 1] + entries[i].size
    IN  sum[Len(entries)]

\* The key of a host: whatever its scheme, credentials, path or port; an upper
\* case scheme is taken for the host.
normalizeHost(spelling) == IF spelling.scheme = "HTTP" THEN "http" ELSE spelling.name

newBuffer == [bytes |-> 0, entries |-> <<>>]

\* Mutant of append: room is made for the entry by count and not by size.
appendByCount(log, e) ==
    [bytes |-> log.bytes + e.size, entries |-> Append(IF log.bytes + e.size > MaxBytes /\ log.entries # <<>> THEN Tail(log.entries) ELSE log.entries, e)]

\* Old entries leave, each with its bytes, until there is room; an entry larger
\* than the whole log is cut and stands alone.
append(log, e) ==
    LET Remains(k) == log.bytes - Total(SubSeq(log.entries, 1, k - 1))
        Fits(k) == Remains(k) + e.size <= MaxBytes
        first == CHOOSE k \in 1..(Len(log.entries) + 1) :
                     (Fits(k) \/ k = Len(log.entries) + 1) /\ \A j \in 1..(k - 1) : ~Fits(j)
        kept == SubSeq(log.entries, first, Len(log.entries))
    IN  IF e.size > MaxBytes
        THEN [bytes |-> MaxBytes, entries |-> <<[e EXCEPT !.size = MaxBytes]>>]
        ELSE [bytes |-> Remains(first) + e.size, entries |-> Append(kept, e)]

\* The last tail entries, all of them for 0.
snapshot(log, tail) ==
    LET n == Len(log.entries)
    IN  IF tail > 0 /\ tail < n THEN SubSeq(log.entries, n - tail + 1, n) ELSE log.entries

\* What of a body is put in the entry: nothing of a binary one, nor of a
\* request known to be too long, and of any other at most Limit.
Lesser(x, y) == IF x < y THEN x ELSE y
captureRequestBody(body) == IF body.binary \/ (body.known /\ body.n > Limit) THEN 0 ELSE Lesser(body.n, Limit)
captureResponseBody(body) == IF body.binary THEN 0 ELSE Lesser(body.n, Limit)
EntrySize(req, resp, failed) == 1 + captureRequestBody(req) + IF failed THEN 0 ELSE captureResponseBody(resp)

UdebugInit == /\ bufs = [k \in DebugDevices \cup DebugHosts |-> 0]
              /\ heap = <<>> /\ fed = <<>>
              /\ writing = [w \in Writers |-> None] /\ records = 0

\* SetUltraDebug: a log enabled again starts empty.
Enable(k) == /\ Len(heap) < MaxBuffers
             /\ heap' = Append(heap, newBuffer) /\ fed' = Append(fed, <<>>)
             /\ bufs' = [bufs EXCEPT ![k] = Len(heap) + 1]
             /\ UNCHANGED <<writing, records>>

Disable(k) == /\ bufs[k] # 0
              /\ bufs' = [bufs EXCEPT ![k] = 0]
              /\ UNCHANGED <<heap, fed, writing, records>>

Clear(k) == /\ bufs[k] # 0
            /\ heap' = [heap EXCEPT ![bufs[k]] = newBuffer]
            /\ fed' = [fed EXCEPT ![bufs[k]] = <<>>]
            /\ UNCHANGED <<bufs, writing, records>>

\* The logs a request goes to, in the order RoundTrip writes them.  Without a
\* host of its own a transport takes the one of the URL, but not for a request
\* that failed.
Targets(device, host, urlHost, failed) ==
    LET named == IF host # "" THEN host ELSE IF failed THEN "" ELSE urlHost
    IN  <<device>> \o (IF named \in DOMAIN bufs THEN <<named>> ELSE <<>>)

\* A transport's request has ended: Record takes the first log's pointer.
RoundTrip(w) ==
    /\ writing[w].log = 0 /\ writing[w].then = <<>> /\ records < MaxRecords
    /\ \E d \in DebugDevices, h \in DebugHosts \cup {""}, s \in Spellings, req \in Bodies, resp \in Bodies, failed \in BOOLEAN :
           writing' = [writing EXCEPT ![w] = [log |-> 0, size |-> EntrySize(req, resp, failed),
                                              then |-> Targets(d, h, normalizeHost(s), failed)]]
    /\ records' = records + 1
    /\ UNCHANGED <<bufs, heap, fed>>

Fetch(w) == /\ writing[w].log = 0 /\ writing[w].then # <<>>
            /\ writing' = [writing EXCEPT ![w].log = bufs[Head(writing[w].then)], ![w].then = Tail(@)]
            /\ UNCHANGED <<bufs, heap, fed, records>>

Record(w) == LET b == writing[w].log
                 e == Entry(Len(fed[b]) + 1, writing[w].size)
             IN  /\ b # 0
                 /\ heap' = [heap EXCEPT ![b] = append(@, e)]
                 /\ fed' = [fed EXCEPT ![b] = Append(@, e)]
                 /\ writing' = [writing EXCEPT ![w].log = 0]
                 /\ UNCHANGED <<bufs, records>>

\* The requests of the console, for devices and for hosts.
SetUltraDebug(k, enabled) == IF enabled THEN Enable(k) ELSE Disable(k)
SetUltraDebugHost(spelling, enabled) ==
    LET k == normalizeHost(spelling)
    IN  k \in DebugHosts /\ (IF enabled THEN Enable(k) ELSE Disable(k))
ClearUltraDebug(k) == Clear(k)
ClearUltraDebugHost(spelling) == normalizeHost(spelling) \in DebugHosts /\ Clear(normalizeHost(spelling))

UdebugNext == \/ \E k \in DebugDevices : ClearUltraDebug(k) \/ (\E enabled \in BOOLEAN : SetUltraDebug(k, enabled))
              \/ \E s \in Spellings : ClearUltraDebugHost(s) \/ (\E enabled \in BOOLEAN : SetUltraDebugHost(s, enabled))
              \/ \E w \in Writers : RoundTrip(w) \/ Fetch(w) \/ Record(w)

----------------------------------------------------------------- \* properties
\* Whatever comes between a writer taking a log and appending to it: each log
\* holds the newest of what it was given since it was last emptied, as many
\* entries as fit, and counts their bytes exactly.
NewestEntriesKept ==
    \A b \in DOMAIN heap :
        LET log == heap[b]
            \* The entries from the k-th on, one of more than a log's size cut.
            Newest(k) == [i \in 1..(Len(fed[b]) - k + 1) |->
                             [fed[b][k + i - 1] EXCEPT !.size = Lesser(@, MaxBytes)]]
        IN  /\ log.bytes = Total(log.entries) /\ log.bytes <= MaxBytes
            /\ fed[b] # <<>> => log.entries # <<>>
            /\ \E k \in 1..(Len(fed[b]) + 1) :
                   /\ log.entries = Newest(k)
                   /\ k > 1 => \E j \in k..Len(fed[b]) : Total(SubSeq(fed[b], k - 1, j)) > MaxBytes
            /\ \A tail \in 0..3 : IsSuffix(snapshot(log, tail), log.entries)
=============================================================================
