---------------------------- MODULE SharedMemory ----------------------------
(***************************************************************************)
(* Records shared between processes without a lock: the slot of a symbol   *)
(* in the segment of ticks (core/shared_memory.py, a CRC over the whole    *)
(* record), the signal vector (core/shm.py, ShmManager: the sum of most of *)
(* its fields) and the regime vector (RegimeShm: no check).  The writer    *)
(* copies a record word by word; the reader too, in any order, so that it  *)
(* can mix an old and a new record in every way.                           *)
(*                                                                         *)
(* A record is three words: a stamp that counts the writes, which the CRC  *)
(* covers and the sum does not, and two figures; the fourth word is the    *)
(* check.  The CRC is ideal: records that differ have different CRCs.      *)
(***************************************************************************)
EXTENDS Integers, FiniteSets, Sequences

CONSTANTS
  Figures,   \* values of a figure
  Tries,     \* copies a read makes at most (3)
  MaxWrites, \* bound of the model: records written to a segment
  MaxStarts  \* bound of the model: restarts of the writer and of the reader

(* What the parameters may be; the modules that compose this one assume it.*)
Parameters ==
  Figures \subseteq Int /\ Tries \in Nat \ {0} /\ MaxWrites \in Nat /\ MaxStarts \in Nat

Words   == 1..3
Check   == 4
Empty   == [w \in Words |-> 0]

VARIABLES
  kind,    \* "tick", "signals" or "regime"
  mem,     \* the segments ever created: their words
  written, \* the records written to each
  writer,  \* the segment it writes, the record, the next word to copy
  reader,  \* the segment it mapped, the words copied, tries left
  result,  \* what read() last returned to this reader: a record or Empty
  starts   \* restarts so far
vars == <<kind, mem, written, writer, reader, result, starts>>

(* What a reader recomputes and compares with the check word.              *)
(* Fault: the CRC leaves out the stamp.                                    *)
Sum_NoStamp(r) == <<r[2], r[3]>>
Sum(r) ==
  CASE kind = "tick"    -> <<r[1], r[2], r[3]>>
    [] kind = "signals" -> <<r[2] + r[3]>>
    [] kind = "regime"  -> << >>

Record(r)   == [w \in Words \cup {Check} |-> IF w = Check THEN Sum(r) ELSE r[w]]
Fresh       == [w \in Words \cup {Check} |-> IF w = Check THEN <<0>> ELSE 0]
Idle(s)     == [seg |-> s, words |-> Fresh, next |-> Check + 1]
Attached(s) == [seg |-> s, got |-> << >>, tries |-> Tries]

Init ==
  /\ kind \in {"tick", "signals", "regime"}
  /\ mem = <<Fresh>> /\ written = <<{Empty}>>
  /\ writer = Idle(1) /\ reader = Attached(1)
  /\ result = Empty
  /\ starts = 0

-----------------------------------------------------------------------------
(* The writer packs the record and copies it.                              *)
Write ==
  /\ writer.next > Check
  /\ LET n == Cardinality(written[writer.seg])
     IN  /\ n <= MaxWrites
         /\ \E a, b \in Figures :
              LET r == [w \in Words |-> CASE w = 1 -> n [] w = 2 -> a [] w = 3 -> b]
              IN  /\ writer' = [writer EXCEPT !.words = Record(r), !.next = 1]
                  /\ written' = [written EXCEPT ![writer.seg] = @ \cup {r}]
  /\ UNCHANGED <<kind, mem, reader, result, starts>>

Store ==
  /\ writer.next <= Check
  /\ mem' = [mem EXCEPT ![writer.seg][writer.next] = writer.words[writer.next]]
  /\ writer' = [writer EXCEPT !.next = @ + 1]
  /\ UNCHANGED <<kind, written, reader, result, starts>>

(* A gateway that starts unlinks the segment of ticks it finds and creates *)
(* another; the vectors live in files that stay.  The copy that was under  *)
(* way is lost.                                                            *)
WriterStarts ==
  /\ starts < MaxStarts /\ starts' = starts + 1
  /\ IF kind = "tick"
     THEN /\ mem' = Append(mem, Fresh)
          /\ written' = Append(written, {Empty})
          /\ writer' = Idle(Len(mem) + 1)
     ELSE writer' = Idle(1) /\ UNCHANGED <<mem, written>>
  /\ UNCHANGED <<kind, reader, result>>

-----------------------------------------------------------------------------
(* The reader copies the record out, recomputes the check, and starts over *)
(* when it does not agree; after the last try it has nothing.              *)
Load ==
  /\ \E w \in DOMAIN Fresh \ DOMAIN reader.got :
       reader' = [reader EXCEPT !.got = [v \in DOMAIN @ \cup {w} |->
                                           IF v = w THEN mem[reader.seg][w] ELSE @[v]]]
  /\ UNCHANGED <<kind, mem, written, writer, result, starts>>

Valid(got) == kind = "regime" \/ got[Check] = Sum(got)

Return ==
  /\ DOMAIN reader.got = DOMAIN Fresh
  /\ IF Valid(reader.got)
     THEN /\ result' = [w \in Words |-> reader.got[w]]
          /\ reader' = Attached(reader.seg)
     ELSE /\ reader' = IF reader.tries = 1 THEN Attached(reader.seg)
                       ELSE [reader EXCEPT !.got = << >>, !.tries = @ - 1]
          /\ UNCHANGED result
  /\ UNCHANGED <<kind, mem, written, writer, starts>>

(* A reader that starts maps the segment there is.                         *)
ReaderStarts ==
  /\ starts < MaxStarts /\ starts' = starts + 1
  /\ reader' = Attached(Len(mem))
  /\ result' = Empty
  /\ UNCHANGED <<kind, mem, written, writer>>

Next == Write \/ Store \/ WriterStarts \/ Load \/ Return \/ ReaderStarts

Spec == Init /\ [][Next]_vars

-----------------------------------------------------------------------------
(* A tick the reader gets was written as it stands, however the copies of  *)
(* the two processes interleave and wherever the writer died: no torn read *)
(* passes the CRC (read_tick).                                             *)
TicksWhole == kind = "tick" => result \in written[reader.seg]

(* A torn vector can pass the sum of its fields; what the sum guarantees   *)
(* is that the figures add up to those of a vector that was written        *)
(* (ShmManager.read).                                                      *)
SumsAgree ==
  kind = "signals" => \E r \in written[reader.seg] : r[2] + r[3] = result[2] + result[3]

(* No reader is given what was never written, as far as the checks go.     *)
ReadsSound == TicksWhole /\ SumsAgree
=============================================================================
