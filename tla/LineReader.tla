----------------------------- MODULE LineReader -----------------------------
(***************************************************************************)
(* How a client cuts what its socket reads into lines: LineReader. A line  *)
(* may come in many reads, a read may have many lines; what is left of a   *)
(* read is kept in a buffer of one chunk. A byte is its place in what the  *)
(* connection sent, so that nothing is lost or mixed unseen.               *)
(***************************************************************************)
EXTENDS Naturals, Sequences, SequencesExt

CONSTANTS LineChunk, \* XMRIG_NET_BUFFER_CHUNK_SIZE, of reads and of the buffer
          MaxBytes   \* bound of the model: bytes of one connection

ASSUME LineAssumption == LineChunk \in Nat \ {0} /\ MaxBytes \in Nat

VARIABLES
  lineStream, \* what the connection sent: the end of a line ("n") or another byte ("c")
  lineTaken,  \* how much of it getline has been through
  lineBuffer, \* m_buf, up to m_pos
  lineReports \* calls of onLine

lineVars == <<lineStream, lineTaken, lineBuffer, lineReports>>

LineInit == lineStream = <<>> /\ lineTaken = 0 /\ lineBuffer = <<>> /\ lineReports = <<>>

Places(first, last) == [i \in 1..(last - first + 1) |-> first + i - 1]

\* add(): what does not fit is dropped
Added(buffer, part) == IF Len(part) + Len(buffer) > LineChunk THEN buffer ELSE buffer \o part

\* onRead, when the data of the read before was parsed
LineRead ==
  /\ lineTaken = Len(lineStream)
  /\ \E n \in 1..LineChunk : \E data \in [1..n -> {"c", "n"}] :
       /\ Len(lineStream) + n <= MaxBytes
       /\ lineStream' = lineStream \o data
  /\ UNCHANGED <<lineTaken, lineBuffer, lineReports>>

Ends == {e \in (lineTaken + 1)..Len(lineStream) : lineStream[e] = "n"}

\* getline finds the end of a line
EmptiedNot == UNCHANGED lineBuffer
Emptied    == lineBuffer' = <<>>

LineFound ==
  \E e \in Ends :
    LET part == Places(lineTaken + 1, e)
    IN /\ \A f \in Ends : e <= f
       /\ lineTaken' = e
       /\ lineReports' = IF lineBuffer # <<>> THEN Append(lineReports, Front(Added(lineBuffer, part)))
                         ELSE IF Len(part) > 1 THEN Append(lineReports, Front(part))
                         ELSE lineReports
       /\ Emptied
       /\ UNCHANGED lineStream

\* ... or no other, and keeps the rest
LineKept ==
  /\ lineTaken < Len(lineStream) /\ Ends = {}
  /\ lineTaken' = Len(lineStream)
  /\ lineBuffer' = Added(lineBuffer, Places(lineTaken + 1, Len(lineStream)))
  /\ UNCHANGED <<lineStream, lineReports>>

\* The client connects again: reset(). It has one socket (Failover has the case of two)
LineReset ==
  /\ lineTaken = Len(lineStream) /\ lineStream # <<>>
  /\ lineBuffer' = <<>>
  /\ lineStream' = <<>> /\ lineTaken' = 0 /\ lineReports' = <<>>

LineNext == LineRead \/ LineFound \/ LineKept \/ LineReset

LineSpec == LineInit /\ [][LineNext]_lineVars

-----------------------------------------------------------------------------
(* Properties *)

\* First and last byte of the lines that getline has been through
Lines ==
  {l \in (1..lineTaken) \X (1..lineTaken) :
    /\ l[1] <= l[2] /\ lineStream[l[2]] = "n"
    /\ \A i \in l[1]..(l[2] - 1) : lineStream[i] # "n"
    /\ l[1] = 1 \/ lineStream[l[1] - 1] = "n"}

Fits(l) == l[2] > l[1] /\ l[2] - l[1] < LineChunk

\* However a connection cuts its lines, each that fits into a chunk is reported once, in
\* its order and whole; one that does not spoils no other, and the buffer never
\* overflows.
LinesAreWhole ==
  /\ Len(lineBuffer) <= LineChunk
  /\ \A l \in Lines : Fits(l) => Contains(lineReports, Places(l[1], l[2] - 1))
  /\ \A i \in DOMAIN lineReports :
       \E l \in Lines :
         /\ ToSet(lineReports[i]) \subseteq l[1]..l[2]
         /\ \A j \in 1..(i - 1) : \A b \in ToSet(lineReports[j]) : b < l[1]
=============================================================================
