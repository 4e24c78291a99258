--------------------------- MODULE DefenderReport ---------------------------
(***************************************************************************)
(* The report of the device defender demo: what metrics_collector.c        *)
(* gathers, within the arrays it is given, and how report_builder.c writes *)
(* it into a buffer, giving up where it does not fit. An entry stands for  *)
(* the number of characters it takes.                                      *)
(***************************************************************************)
LOCAL INSTANCE Integers
LOCAL INSTANCE Sequences

CONSTANTS
  Room,        \* DEVICE_METRICS_REPORT_BUFFER_SIZE
  Parts,       \* lengths of JSON_REPORT_FORMAT_PART1 to 5
  ArraySize,   \* OPEN_TCP_PORTS_ARRAY_SIZE and the like
  EntrySizes,  \* characters of an entry, with the comma behind it
  MaxEntries   \* entries there may be

ASSUME ReportAssumption ==
  /\ Room \in Nat /\ Parts \in Seq(Nat \ {0}) /\ Len(Parts) = 5
  /\ ArraySize \in Nat \ {0} /\ EntrySizes \subseteq Nat \ {0} /\ MaxEntries \in Nat

\* A call that did not fit.
TooSmall == -1

\* SNPRINTF_SUCCESS: the text and its terminator fit.
Snprintf(text, room) == IF text < room THEN text ELSE TooSmall

\* A bracket, which leaves room for the terminator.
Marker(room) == IF room > 1 THEN 1 ELSE TooSmall

\* What a writes with what b writes behind it.
Then(a, b) == IF a = TooSmall \/ b = TooSmall THEN TooSmall ELSE a + b

\* The loop over the entries.
WriteEntries(entries, room) ==
  LET written[n \in 0..Len(entries)] ==
        IF n = 0 THEN 0
        ELSE Then(written[n - 1], Snprintf(entries[n], room - written[n - 1]))
  IN  written[Len(entries)]

ArrayKeepsComma(entries, room) ==
  LET open == Then(Marker(room), WriteEntries(entries, room - 1))
  IN  Then(open, Marker(room - open))

\* writePortsArray: the last entry's comma is taken back for the bracket.
WritePortsArray(entries, room) ==
  LET open == Then(Marker(room), WriteEntries(entries, room - 1))
      end  == IF open # TooSmall /\ entries # <<>> THEN open - 1 ELSE open
  IN  Then(end, Marker(room - end))

\* writeConnectionsArray and writeTaskIdsArray do the same with other entries.
WriteConnectionsArray(entries, room) == WritePortsArray(entries, room)
WriteTaskIdsArray(entries, room) == WritePortsArray(entries, room)

\* GenerateJsonReport: five parts with the arrays between them; the length of the
\* report, or that the buffer is too small.
GenerateJsonReport(m) ==
  LET a1 == Snprintf(Parts[1], Room)
      a2 == Then(a1, WritePortsArray(m.tcp, Room - a1))
      a3 == Then(a2, Snprintf(Parts[2], Room - a2))
      a4 == Then(a3, WritePortsArray(m.udp, Room - a3))
      a5 == Then(a4, Snprintf(Parts[3], Room - a4))
      a6 == Then(a5, WriteConnectionsArray(m.connections, Room - a5))
      a7 == Then(a6, Snprintf(Parts[4], Room - a6))
      a8 == Then(a7, WriteTaskIdsArray(m.tasks, Room - a7))
  IN  Then(a8, Snprintf(Parts[5], Room - a8))

-----------------------------------------------------------------------------
(* The collector: the TCP/IP core's lists, as far as the array goes.       *)

Gathered(list) == SubSeq(list, 1, IF Len(list) < ArraySize THEN Len(list) ELSE ArraySize)

GetOpenTcpPorts(list) == Gathered(list)
GetOpenUdpPorts(list) == Gathered(list)
GetEstablishedConnections(list) == Gathered(list)

Lists == UNION {[1..n -> EntrySizes] : n \in 0..MaxEntries}

\* What may be gathered; tasks are listed whole, in an array made for them.
Metrics ==
  {[tcp |-> GetOpenTcpPorts(t), udp |-> GetOpenUdpPorts(<<>>),
    connections |-> GetEstablishedConnections(c), tasks |-> <<e>>] :
     t \in Lists, c \in Lists, e \in EntrySizes}

-----------------------------------------------------------------------------
\* Reference: the characters of the whole report.
Total(entries) ==
  LET sum[n \in 0..Len(entries)] == IF n = 0 THEN 0 ELSE sum[n - 1] + entries[n]
  IN  sum[Len(entries)]
ArrayLength(entries) == IF entries = <<>> THEN 2 ELSE 1 + Total(entries)
ReportLength(m) ==
  Total(Parts) + ArrayLength(m.tcp) + ArrayLength(m.udp)
  + ArrayLength(m.connections) + ArrayLength(m.tasks)
=============================================================================
