-------------------------- MODULE Pipeline_proofs --------------------------
(***************************************************************************)
(* What holds of the way of a tick to an order, for all values of the      *)
(* constants: a step of the pipeline is one of a component, and leaves the *)
(* variables of the others alone.  Each part states the invariant behind   *)
(* one property, shows that every step keeps it, and ends in its theorem.  *)
(***************************************************************************)
EXTENDS MCPipeline, SequenceTheorems, FiniteSetTheorems, TLAPS

LEMMA MemoryParameters == H!Parameters
BY PipelineAssumption DEF H!Parameters

LEMMA RouterParameters == R!Parameters
BY PipelineAssumption DEF R!Parameters

-----------------------------------------------------------------------------
(* Shared memory.  The invariant speaks of the check word alone: in a      *)
(* segment, in the record the writer copies and in the copy of the reader  *)
(* it is the check of a record written to that segment, or that of the     *)
(* fresh segment.  The other words may be mixed.                           *)
Value  == Int \cup Seq(Int)
Cells  == [1..4 -> Value]
Row    == [H!Words -> Int]

MemoryShape ==
  /\ kind \in {"tick", "signals", "regime"}
  /\ mem \in Seq(Cells) /\ written \in Seq(SUBSET Row) /\ Len(written) = Len(mem)
  /\ DOMAIN writer = {"seg", "words", "next"} /\ DOMAIN reader = {"seg", "got", "tries"}
  /\ writer.seg \in 1..Len(mem) /\ writer.words \in Cells /\ writer.next \in 1..5
  /\ reader.seg \in 1..Len(mem)
  /\ \A s \in 1..Len(mem) : IsFiniteSet(written[s])

KnownCheck(s, v) == v = <<0>> \/ \E r \in written[s] : v = H!Sum(r)

Checks ==
  /\ \A s \in 1..Len(mem) : H!Empty \in written[s] /\ KnownCheck(s, mem[s][H!Check])
  /\ KnownCheck(writer.seg, writer.words[H!Check])
  /\ H!Check \in DOMAIN reader.got => KnownCheck(reader.seg, reader.got[H!Check])

MemoryIInv == MemoryShape /\ Checks /\ H!ReadsSound

LEMMA FreshCells == H!Fresh \in Cells /\ H!Fresh[H!Check] = <<0>> /\ DOMAIN H!Fresh = 1..4
BY DEF H!Fresh, Cells, Value, H!Words, H!Check

LEMMA EmptyRow == H!Empty \in Row
BY DEF H!Empty, Row, H!Words

LEMMA RecordCells ==
  ASSUME NEW r \in Row, kind \in {"tick", "signals", "regime"}
  PROVE  H!Record(r) \in Cells /\ H!Record(r)[H!Check] = H!Sum(r)
<1>1. r[1] \in Int /\ r[2] \in Int /\ r[3] \in Int
  BY DEF Row, H!Words
<1>2. H!Sum(r) \in Value
  BY <1>1 DEF H!Sum, Value
<1>3. H!Record(r) = [w \in 1..4 |-> IF w = 4 THEN H!Sum(r) ELSE r[w]]
  BY DEF H!Record, H!Words, H!Check
<1>4. \A w \in 1..4 : w # 4 => r[w] \in Value
  BY DEF Row, H!Words, Value
<1> QED BY <1>2, <1>3, <1>4 DEF Cells, H!Check

LEMMA MemoryInit == ASSUME H!Init PROVE MemoryIInv
<1>1. /\ mem = <<H!Fresh>> /\ written = <<{H!Empty}>> /\ result = H!Empty
      /\ writer = H!Idle(1) /\ reader = H!Attached(1)
  BY DEF H!Init
<1>2. /\ mem \in Seq(Cells) /\ Len(mem) = 1 /\ mem[1] = H!Fresh
      /\ written \in Seq(SUBSET Row) /\ Len(written) = 1 /\ written[1] = {H!Empty}
  BY <1>1, FreshCells, EmptyRow
<1>2a. \A s \in 1..Len(mem) : IsFiniteSet(written[s])
  <2>1. IsFiniteSet({H!Empty})
    BY FS_Singleton
  <2>2. \A s \in 1..1 : s = 1
    OBVIOUS
  <2> QED BY <1>2, <2>1, <2>2
<1>2b. /\ DOMAIN writer = {"seg", "words", "next"} /\ DOMAIN reader = {"seg", "got", "tries"}
       /\ writer.seg = 1 /\ writer.words = H!Fresh /\ writer.next = 5 /\ reader.seg = 1
  BY <1>1 DEF H!Idle, H!Attached, H!Check
<1>3. MemoryShape
  BY <1>2, <1>2a, <1>2b, FreshCells DEF H!Init, MemoryShape
<1>4. Checks
  BY <1>1, <1>2, FreshCells DEF Checks, KnownCheck, H!Idle, H!Attached
<1>5. H!ReadsSound
  BY <1>1, <1>2 DEF H!ReadsSound, H!TicksWhole, H!SumsAgree, H!Attached
<1> QED BY <1>3, <1>4, <1>5 DEF MemoryIInv

-----------------------------------------------------------------------------
(* A copy whose check agrees was written, or adds up to one that was.      *)
LEMMA AgreeingCopy ==
  ASSUME MemoryIInv, DOMAIN reader.got = DOMAIN H!Fresh, reader.got[H!Check] = H!Sum(reader.got)
  PROVE  LET copy == [w \in H!Words |-> reader.got[w]]
         IN  /\ kind = "tick" => copy \in written[reader.seg]
             /\ kind = "signals" =>
                  \E r \in written[reader.seg] : r[2] + r[3] = copy[2] + copy[3]
<1> DEFINE got  == reader.got
           copy == [w \in H!Words |-> got[w]]
<1>1. /\ got[H!Check] = <<0>> \/ \E r \in written[reader.seg] : got[H!Check] = H!Sum(r)
      /\ written[reader.seg] \subseteq Row /\ H!Empty \in written[reader.seg]
  BY FreshCells DEF MemoryIInv, MemoryShape, Checks, KnownCheck, H!Check
<1>2. CASE kind = "tick"
  <2>1. H!Sum(got) = <<got[1], got[2], got[3]>>
    BY <1>2 DEF H!Sum
  <2>2. got[H!Check] # <<0>>
    BY <2>1
  <2>3. PICK r \in written[reader.seg] : H!Sum(got) = H!Sum(r)
    BY <1>1, <2>2
  <2>4. r[1] = got[1] /\ r[2] = got[2] /\ r[3] = got[3]
    BY <1>2, <2>1, <2>3 DEF H!Sum
  <2>5. r \in [1..3 -> Int]
    BY <1>1 DEF Row, H!Words
  <2>6. copy = r
    BY <2>4, <2>5 DEF H!Words
  <2> QED BY <1>2, <2>6
<1>3. CASE kind = "signals"
  <2>1. H!Sum(got) = <<got[2] + got[3]>> /\ copy[2] = got[2] /\ copy[3] = got[3]
    BY <1>3 DEF H!Sum, H!Words
  <2>2. CASE got[H!Check] = <<0>>
    <3>1. got[2] + got[3] = 0
      BY <2>1, <2>2
    <3>2. H!Empty[2] + H!Empty[3] = 0
      BY DEF H!Empty, H!Words
    <3> QED BY <1>1, <1>3, <2>1, <3>1, <3>2
  <2>3. CASE \E r \in written[reader.seg] : got[H!Check] = H!Sum(r)
    <3>1. PICK r \in written[reader.seg] : H!Sum(got) = H!Sum(r)
      BY <2>3
    <3>2. H!Sum(r) = <<r[2] + r[3]>>
      BY <1>3 DEF H!Sum
    <3>3. r[2] + r[3] = got[2] + got[3]
      BY <2>1, <3>1, <3>2
    <3> QED BY <1>3, <2>1, <3>3
  <2> QED BY <1>1, <2>2, <2>3
<1> QED BY <1>2, <1>3 DEF MemoryIInv, MemoryShape

-----------------------------------------------------------------------------
(* The record is noted as written before its first word is copied.         *)
LEMMA WriteKeeps == ASSUME MemoryIInv, H!Write PROVE MemoryIInv'
<1> DEFINE n == Cardinality(written[writer.seg])
           Made(a, b) == [w \in H!Words |-> CASE w = 1 -> n [] w = 2 -> a [] w = 3 -> b]
<1>1. /\ kind' = kind /\ mem' = mem /\ reader' = reader /\ result' = result
      /\ kind \in {"tick", "signals", "regime"}
      /\ writer.seg \in 1..Len(mem) /\ Len(written) = Len(mem)
      /\ written \in Seq(SUBSET Row)
  BY DEF MemoryIInv, MemoryShape, H!Write
<1>2. PICK r \in Row : /\ writer' = [writer EXCEPT !.words = H!Record(r), !.next = 1]
                       /\ written' = [written EXCEPT ![writer.seg] = @ \cup {r}]
  <2>1. PICK a \in Figures, b \in Figures :
          /\ writer' = [writer EXCEPT !.words = H!Record(Made(a, b)), !.next = 1]
          /\ written' = [written EXCEPT ![writer.seg] = @ \cup {Made(a, b)}]
    BY DEF H!Write, H!Cardinality, Cardinality
  <2>2. n \in Int
    BY <1>1, FS_CardinalityType DEF MemoryIInv, MemoryShape
  <2> HIDE DEF n
  <2>3. Made(a, b) \in Row
    BY <2>2, MemoryParameters DEF H!Parameters, Row, H!Words
  <2> QED BY <2>1, <2>3
<1>3. /\ H!Record(r) \in Cells /\ H!Record(r)[H!Check] = H!Sum(r)
  BY <1>1, RecordCells
<1>4. /\ writer'.seg = writer.seg /\ writer'.words = H!Record(r) /\ writer'.next = 1
      /\ DOMAIN writer' = {"seg", "words", "next"}
  BY <1>2 DEF MemoryIInv, MemoryShape
<1>5. /\ written' \in Seq(SUBSET Row) /\ Len(written') = Len(written)
      /\ written'[writer.seg] = written[writer.seg] \cup {r}
      /\ \A s \in 1..Len(mem) : written[s] \subseteq written'[s]
  BY <1>1, <1>2
<1>5a. \A s \in 1..Len(mem) : IsFiniteSet(written'[s])
  <2>1. IsFiniteSet(written[writer.seg] \cup {r})
    BY <1>1, FS_AddElement DEF MemoryIInv, MemoryShape
  <2> QED BY <1>1, <1>2, <1>5, <2>1 DEF MemoryIInv, MemoryShape
<1>6. MemoryShape'
  BY <1>1, <1>3, <1>4, <1>5, <1>5a DEF MemoryIInv, MemoryShape
<1>7. \A v : H!Sum(v)' = H!Sum(v)
  BY <1>1 DEF H!Sum
<1>8. \A s \in 1..Len(mem) : \A v : KnownCheck(s, v) => KnownCheck(s, v)'
  BY <1>5, <1>7 DEF KnownCheck
<1>9. Checks'
  <2>1. KnownCheck(writer.seg, writer.words[H!Check])'
    BY <1>3, <1>4, <1>5, <1>7 DEF KnownCheck
  <2>2. \A s \in 1..Len(mem) : H!Empty \in written'[s] /\ KnownCheck(s, mem[s][H!Check])'
    BY <1>1, <1>5, <1>8 DEF MemoryIInv, Checks
  <2>3. H!Check \in DOMAIN reader.got => KnownCheck(reader.seg, reader.got[H!Check])'
    BY <1>1, <1>8 DEF MemoryIInv, MemoryShape, Checks
  <2> QED BY <1>1, <2>1, <2>2, <2>3 DEF Checks
<1>10. H!ReadsSound'
  BY <1>1, <1>5 DEF MemoryIInv, MemoryShape, H!ReadsSound, H!TicksWhole, H!SumsAgree
<1> QED BY <1>6, <1>9, <1>10 DEF MemoryIInv

(* One word is copied.                                                     *)
LEMMA StoreKeeps == ASSUME MemoryIInv, H!Store PROVE MemoryIInv'
<1> DEFINE k == writer.next
<1>1. /\ UNCHANGED <<kind, written, reader, result>>
      /\ mem' = [mem EXCEPT ![writer.seg] = [mem[writer.seg] EXCEPT ![k] = writer.words[k]]]
      /\ writer' = [writer EXCEPT !.next = k + 1]
      /\ k \in 1..4 /\ writer.seg \in 1..Len(mem) /\ mem \in Seq(Cells)
      /\ writer.words \in Cells
  BY DEF MemoryIInv, MemoryShape, H!Store, H!Check
<1>2. /\ writer'.seg = writer.seg /\ writer'.words = writer.words /\ writer'.next = k + 1
      /\ DOMAIN writer' = {"seg", "words", "next"}
  BY <1>1 DEF MemoryIInv, MemoryShape
<1> DEFINE m == [mem[writer.seg] EXCEPT ![k] = writer.words[k]]
<1>3. m \in Cells /\ (m[H!Check] = mem[writer.seg][H!Check] \/ m[H!Check] = writer.words[H!Check])
  BY <1>1 DEF Cells, H!Check
<1> HIDE DEF m
<1>4. mem' = [mem EXCEPT ![writer.seg] = m]
  BY <1>1 DEF m
<1>5. /\ mem' \in Seq(Cells) /\ Len(mem') = Len(mem) /\ mem'[writer.seg] = m
      /\ \A s \in 1..Len(mem) : s # writer.seg => mem'[s] = mem[s]
  BY <1>1, <1>3, <1>4
<1>6. MemoryShape'
  BY <1>1, <1>2, <1>5 DEF MemoryIInv, MemoryShape
<1>7. \A s, v : KnownCheck(s, v)' <=> KnownCheck(s, v)
  BY <1>1 DEF KnownCheck, H!Sum
<1>8. Checks'
  BY <1>1, <1>2, <1>3, <1>5, <1>7 DEF MemoryIInv, Checks
<1>9. H!ReadsSound'
  BY <1>1 DEF MemoryIInv, H!ReadsSound, H!TicksWhole, H!SumsAgree
<1> QED BY <1>6, <1>8, <1>9 DEF MemoryIInv

(* A new segment is fresh; the old ones stay for those who mapped them.    *)
LEMMA WriterStartsKeeps == ASSUME MemoryIInv, H!WriterStarts PROVE MemoryIInv'
<1>1. /\ UNCHANGED <<kind, reader, result>> /\ Len(mem) \in Nat /\ Len(written) = Len(mem)
      /\ mem \in Seq(Cells) /\ written \in Seq(SUBSET Row) /\ reader.seg \in 1..Len(mem)
  BY DEF MemoryIInv, MemoryShape, H!WriterStarts
<1>2. CASE kind = "tick"
  <2>1. /\ mem' = Append(mem, H!Fresh) /\ written' = Append(written, {H!Empty})
        /\ writer' = H!Idle(Len(mem) + 1)
    BY <1>2 DEF H!WriterStarts
  <2>2. /\ mem' \in Seq(Cells) /\ Len(mem') = Len(mem) + 1
        /\ \A s \in 1..Len(mem) : mem'[s] = mem[s]
        /\ mem'[Len(mem) + 1] = H!Fresh
    BY <1>1, <2>1, FreshCells, AppendProperties
  <2>3. /\ written' \in Seq(SUBSET Row) /\ Len(written') = Len(mem) + 1
        /\ \A s \in 1..Len(mem) : written'[s] = written[s]
        /\ written'[Len(mem) + 1] = {H!Empty}
    BY <1>1, <2>1, EmptyRow, AppendProperties
  <2>3a. \A s \in 1..Len(mem') : s \in 1..Len(mem) \/ s = Len(mem) + 1
    BY <1>1, <2>2
  <2>3b. \A s \in 1..Len(mem') : IsFiniteSet(written'[s])
    <3>1. IsFiniteSet({H!Empty})
      BY FS_Singleton
    <3>2. \A s \in 1..Len(mem) : IsFiniteSet(written[s])
      BY DEF MemoryIInv, MemoryShape
    <3> QED BY <2>3, <2>3a, <3>1, <3>2
  <2>3c. /\ writer'.seg = Len(mem) + 1 /\ writer'.words = H!Fresh /\ writer'.next = 5
         /\ DOMAIN writer' = {"seg", "words", "next"}
    BY <2>1 DEF H!Idle, H!Check
  <2>3d. Len(mem) + 1 \in 1..Len(mem') /\ reader.seg \in 1..Len(mem') /\ Len(written') = Len(mem')
    BY <1>1, <2>2, <2>3
  <2>4. MemoryShape'
    BY <1>1, <2>2, <2>3, <2>3b, <2>3c, <2>3d, FreshCells DEF MemoryIInv, MemoryShape
  <2>5. \A s \in 1..Len(mem) : \A v : KnownCheck(s, v) => KnownCheck(s, v)'
    BY <1>1, <2>3 DEF KnownCheck, H!Sum
  <2>7. \A s \in 1..Len(mem') : H!Empty \in written'[s] /\ KnownCheck(s, mem[s][H!Check])'
    <3>1. \A s : KnownCheck(s, <<0>>)'
      BY DEF KnownCheck
    <3>2. ASSUME NEW s \in 1..Len(mem)
          PROVE  H!Empty \in written'[s] /\ KnownCheck(s, mem[s][H!Check])'
      BY <2>2, <2>3, <2>5 DEF MemoryIInv, Checks
    <3>3. ASSUME NEW s, s = Len(mem) + 1
          PROVE  H!Empty \in written'[s] /\ KnownCheck(s, mem[s][H!Check])'
      BY <2>2, <2>3, <3>1, <3>3, FreshCells
    <3> QED BY <2>3a, <3>2, <3>3
  <2>8. KnownCheck(writer.seg, writer.words[H!Check])'
    BY <2>3c, FreshCells DEF KnownCheck
  <2>8a. (H!Check \in DOMAIN reader.got => KnownCheck(reader.seg, reader.got[H!Check]))'
    BY <1>1, <2>5 DEF MemoryIInv, Checks
  <2>9. Checks'
    BY <2>7, <2>8, <2>8a DEF Checks
  <2>10. H!ReadsSound'
    BY <1>1, <2>3 DEF MemoryIInv, H!ReadsSound, H!TicksWhole, H!SumsAgree
  <2> QED BY <2>4, <2>9, <2>10 DEF MemoryIInv
<1>3. CASE kind # "tick"
  <2>1. writer' = H!Idle(1) /\ UNCHANGED <<mem, written>>
    BY <1>3 DEF H!WriterStarts
  <2>2. 1 \in 1..Len(mem)
    BY <1>1
  <2>3. MemoryShape'
    BY <1>1, <2>1, <2>2, FreshCells DEF MemoryIInv, MemoryShape, H!Idle, H!Check
  <2>4. \A s, v : KnownCheck(s, v)' <=> KnownCheck(s, v)
    BY <1>1, <2>1 DEF KnownCheck, H!Sum
  <2>5. KnownCheck(writer.seg, writer.words[H!Check])'
    BY <2>1, FreshCells DEF KnownCheck, H!Idle
  <2>6. Checks' /\ H!ReadsSound'
    BY <1>1, <2>1, <2>4, <2>5 DEF MemoryIInv, Checks, H!ReadsSound, H!TicksWhole, H!SumsAgree
  <2> QED BY <2>3, <2>6 DEF MemoryIInv
<1> QED BY <1>2, <1>3

(* The reader copies a word of its segment.                                *)
LEMMA LoadKeeps == ASSUME MemoryIInv, H!Load PROVE MemoryIInv'
<1>1. UNCHANGED <<kind, mem, written, writer, result>>
  BY DEF H!Load
<1>2. PICK w \in DOMAIN H!Fresh \ DOMAIN reader.got :
        reader' = [reader EXCEPT !.got = [v \in DOMAIN @ \cup {w} |->
                                            IF v = w THEN mem[reader.seg][w] ELSE @[v]]]
  BY DEF H!Load
<1> DEFINE g == [v \in DOMAIN reader.got \cup {w} |->
                   IF v = w THEN mem[reader.seg][w] ELSE reader.got[v]]
<1>3. reader' = [reader EXCEPT !.got = g]
  BY <1>2
<1>4. /\ DOMAIN g = DOMAIN reader.got \cup {w}
      /\ g[w] = mem[reader.seg][w]
      /\ \A v \in DOMAIN reader.got : v # w => g[v] = reader.got[v]
  OBVIOUS
<1> HIDE DEF g
<1>5. reader'.got = g /\ reader'.seg = reader.seg /\ DOMAIN reader' = {"seg", "got", "tries"}
  BY <1>3 DEF MemoryIInv, MemoryShape
<1>6. MemoryShape'
  BY <1>1, <1>5 DEF MemoryIInv, MemoryShape
<1>7. \A s, v : KnownCheck(s, v)' <=> KnownCheck(s, v)
  BY <1>1 DEF KnownCheck, H!Sum
<1>8. Checks'
  <2>1. H!Check \in DOMAIN g => KnownCheck(reader.seg, g[H!Check])
    <3>1. CASE H!Check = w
      BY <1>4, <3>1 DEF MemoryIInv, MemoryShape, Checks
    <3>2. CASE H!Check # w
      BY <1>4, <3>2 DEF MemoryIInv, Checks
    <3> QED BY <3>1, <3>2
  <2> QED BY <1>1, <1>5, <1>7, <2>1 DEF MemoryIInv, Checks
<1>9. H!ReadsSound'
  BY <1>1, <1>5 DEF MemoryIInv, H!ReadsSound, H!TicksWhole, H!SumsAgree
<1> QED BY <1>6, <1>8, <1>9 DEF MemoryIInv

(* The copy is complete: it is returned, or thrown away.                   *)
LEMMA ReturnKeeps == ASSUME MemoryIInv, H!Return PROVE MemoryIInv'
<1>1. UNCHANGED <<kind, mem, written, writer>> /\ DOMAIN reader.got = DOMAIN H!Fresh
  BY DEF H!Return
<1>2. /\ reader'.seg = reader.seg /\ DOMAIN reader' = {"seg", "got", "tries"}
      /\ reader'.got = << >>
  <2>1. \/ reader' = H!Attached(reader.seg)
        \/ reader' = [reader EXCEPT !.got = << >>, !.tries = @ - 1]
    BY DEF H!Return
  <2>2. CASE reader' = H!Attached(reader.seg)
    BY <2>2 DEF H!Attached
  <2>3. CASE reader' = [reader EXCEPT !.got = << >>, !.tries = @ - 1]
    <3>1. DOMAIN reader = {"seg", "got", "tries"}
      BY DEF MemoryIInv, MemoryShape
    <3> QED BY <2>3, <3>1
  <2> QED BY <2>1, <2>2, <2>3
<1>3. MemoryShape'
  BY <1>1, <1>2 DEF MemoryIInv, MemoryShape
<1>4. \A s, v : KnownCheck(s, v)' <=> KnownCheck(s, v)
  BY <1>1 DEF KnownCheck, H!Sum
<1>5. Checks'
  BY <1>1, <1>2, <1>4 DEF MemoryIInv, Checks, H!Check
<1>6. CASE H!Valid(reader.got)
  <2>1. result' = [w \in H!Words |-> reader.got[w]]
    BY <1>6 DEF H!Return
  <2>2. kind # "regime" => reader.got[H!Check] = H!Sum(reader.got)
    BY <1>6 DEF H!Valid
  <2>3. H!ReadsSound'
    BY <1>1, <1>2, <2>1, <2>2, AgreeingCopy DEF H!ReadsSound, H!TicksWhole, H!SumsAgree
  <2> QED BY <1>3, <1>5, <2>3 DEF MemoryIInv
<1>7. CASE ~H!Valid(reader.got)
  <2>1. result' = result
    BY <1>7 DEF H!Return
  <2>2. H!ReadsSound'
    BY <1>1, <1>2, <2>1 DEF MemoryIInv, H!ReadsSound, H!TicksWhole, H!SumsAgree
  <2> QED BY <1>3, <1>5, <2>2 DEF MemoryIInv
<1> QED BY <1>6, <1>7

(* A reader that starts has read nothing.                                  *)
LEMMA ReaderStartsKeeps == ASSUME MemoryIInv, H!ReaderStarts PROVE MemoryIInv'
<1>1. /\ UNCHANGED <<kind, mem, written, writer>> /\ reader' = H!Attached(Len(mem))
      /\ result' = H!Empty /\ Len(mem) \in 1..Len(mem)
  BY DEF MemoryIInv, MemoryShape, H!ReaderStarts
<1>2. reader'.seg = Len(mem) /\ DOMAIN reader' = {"seg", "got", "tries"} /\ reader'.got = << >>
  BY <1>1 DEF H!Attached
<1>3. MemoryShape'
  BY <1>1, <1>2 DEF MemoryIInv, MemoryShape
<1>4. \A s, v : KnownCheck(s, v)' <=> KnownCheck(s, v)
  BY <1>1 DEF KnownCheck, H!Sum
<1>5. Checks'
  BY <1>1, <1>2, <1>4 DEF MemoryIInv, Checks, H!Check
<1>6. H!ReadsSound'
  BY <1>1, <1>2 DEF MemoryIInv, Checks, H!ReadsSound, H!TicksWhole, H!SumsAgree
<1> QED BY <1>3, <1>5, <1>6 DEF MemoryIInv

LEMMA MemoryStep == ASSUME MemoryIInv, [Next]_all PROVE MemoryIInv'
<1>1. CASE UNCHANGED memoryVars
  BY <1>1 DEF memoryVars, MemoryIInv, MemoryShape, Checks, KnownCheck, H!Sum, H!ReadsSound,
             H!TicksWhole, H!SumsAgree
<1> QED BY <1>1, WriteKeeps, StoreKeeps, WriterStartsKeeps, LoadKeeps, ReturnKeeps,
           ReaderStartsKeeps DEF Next, all, H!Next

(* Whatever else runs in the pipeline, no torn tick passes the CRC and the *)
(* figures of a vector add up (read_tick, ShmManager.read).                *)
THEOREM PipelineReads == Spec => []ReadsSound
<1>1. Init => MemoryIInv
  BY MemoryInit DEF Init
<1>2. MemoryIInv /\ [Next]_all => MemoryIInv'
  BY MemoryStep
<1>3. MemoryIInv => ReadsSound
  BY DEF MemoryIInv, ReadsSound
<1> QED BY <1>1, <1>2, <1>3, PTL DEF Spec
-----------------------------------------------------------------------------
(* The router.  Only an intent that was granted its margin carries any     *)
(* (Carried), and it then carries what its lots need if it is live         *)
(* (Priced).                                                               *)
Works == [pc : {"get", "sync", "log", "gates", "toggle", "scale", "reserve", "enrich"},
          lots : Nat, mode : {"live", "paper", "shadow"}, veto : BOOLEAN, taken : Nat]

RouterShape ==
  /\ worker \in Works /\ held \in [R!Wallets -> Nat]
  /\ sent \in [margin : [R!Wallets -> Nat], live : Nat]
  /\ DOMAIN ghost = {"stood", "known", "since", "lost"} /\ ghost.lost \in [R!Wallets -> Nat]

Carried == worker.pc # "enrich" => worker.taken = 0
Priced  == worker.pc = "enrich" /\ worker.mode = "live" => worker.taken = worker.lots * Unit

RouterIInv == RouterShape /\ Carried /\ Priced /\ R!MarginAccounted

LEMMA Products ==
  ASSUME NEW m \in Nat, NEW n \in Nat, NEW u \in Nat
  PROVE  m * u \in Nat /\ (m + n) * u = m * u + n * u
OBVIOUS

LEMMA IdleWorks ==
  R!Idle \in Works /\ R!Idle.pc = "get" /\ R!Idle.taken = 0 /\ R!Idle.mode = "paper"
BY DEF R!Idle, Works

LEMMA RouterInit == ASSUME R!Init PROVE RouterIInv
<1>1. /\ worker = R!Idle /\ held = R!None /\ sent = [margin |-> R!None, live |-> 0]
      /\ ghost.lost = R!None /\ DOMAIN ghost = {"stood", "known", "since", "lost"}
  BY DEF R!Init
<1>2. R!None \in [R!Wallets -> Nat] /\ \A w \in R!Wallets : R!None[w] = 0
  BY DEF R!None
<1>3. RouterShape
  BY <1>1, <1>2, IdleWorks DEF RouterShape
<1>4. Carried /\ Priced
  BY <1>1, IdleWorks DEF Carried, Priced
<1>5. "ACTUAL" \in R!Wallets /\ 0 * Unit = 0
  BY RouterParameters DEF R!Wallets, R!Parameters
<1>6. R!MarginAccounted
  BY <1>1, <1>2, <1>5, IdleWorks DEF R!MarginAccounted, R!HeldIsSent, R!LiveIsFunded
<1> QED BY <1>3, <1>4, <1>6 DEF RouterIInv

-----------------------------------------------------------------------------
(* Steps that move no margin.                                              *)
LEMMA NoMargin ==
  ASSUME RouterIInv, worker' \in Works, UNCHANGED <<held, sent>>,
         DOMAIN ghost' = DOMAIN ghost, ghost'.lost = ghost.lost,
         \/ worker' = worker
         \/ worker.taken = 0 /\ worker'.taken = 0 /\ worker'.pc # "enrich"
         \/ /\ worker.taken = 0 /\ worker'.taken = 0 /\ worker'.mode # "live"
  PROVE  RouterIInv'
<1>1. RouterShape'
  BY DEF RouterIInv, RouterShape
<1>2. Carried' /\ Priced'
  BY DEF RouterIInv, Carried, Priced
<1>3. worker.taken \in Nat /\ held \in [R!Wallets -> Nat] /\ ghost.lost \in [R!Wallets -> Nat]
  BY DEF RouterIInv, RouterShape, Works
<1>4. R!LiveIsFunded'
  BY DEF RouterIInv, R!MarginAccounted, R!LiveIsFunded
<1>5. R!HeldIsSent'
  BY <1>3 DEF RouterIInv, R!MarginAccounted, R!HeldIsSent, R!Wallet
<1> QED BY <1>1, <1>2, <1>4, <1>5 DEF RouterIInv, R!MarginAccounted

LEMMA QuietKeeps ==
  ASSUME RouterIInv, \/ \E s \in Signals : R!Signal(s) \/ R!Read(s)
               \/ R!Pulse \/ R!Break \/ R!Get \/ R!Sync \/ R!FirstGates
               \/ R!LastGates \/ R!Judge \/ R!Scale
  PROVE  RouterIInv'
<1>1. worker \in Works /\ DOMAIN ghost = {"stood", "known", "since", "lost"}
  BY DEF RouterIInv, RouterShape
<1>2. CASE \/ \E s \in Signals : R!Signal(s) \/ R!Read(s)
           \/ R!Pulse \/ R!Break
  <2>1. UNCHANGED <<held, sent, worker>>
    BY <1>2 DEF R!Signal, R!Read, R!Pulse, R!Break
  <2>2. DOMAIN ghost' = DOMAIN ghost /\ ghost'.lost = ghost.lost
    BY <1>1, <1>2 DEF R!Signal, R!Read, R!Pulse, R!Break
  <2> QED BY <1>1, <2>1, <2>2, NoMargin
<1>3. worker.pc # "enrich" => worker.taken = 0
  BY DEF RouterIInv, Carried
<1>4. CASE R!Get
  <2>1. PICK toxic \in BOOLEAN : worker' = [worker EXCEPT !.pc = "sync", !.veto = toxic]
    BY <1>4 DEF R!Get
  <2>2. worker' \in Works /\ worker'.taken = worker.taken /\ worker'.pc = "sync"
    BY <1>1, <2>1 DEF Works
  <2>3. worker.taken = 0 /\ UNCHANGED <<held, sent, ghost>>
    BY <1>3, <1>4 DEF R!Get
  <2> QED BY <2>2, <2>3, NoMargin
<1>5. CASE R!Sync
  <2>1. worker' \in Works /\ worker'.taken = worker.taken /\ worker'.pc = "log"
    BY <1>1, <1>5 DEF R!Sync, Works
  <2>2. worker.taken = 0 /\ UNCHANGED <<held, sent, ghost>>
    BY <1>3, <1>5 DEF R!Sync
  <2> QED BY <2>1, <2>2, NoMargin
<1>6. CASE R!Judge
  <2>1. PICK mode \in {"live", "paper", "shadow"} :
          worker' = [worker EXCEPT !.pc = "scale", !.mode = mode]
    BY <1>6 DEF R!Judge
  <2>2. worker' \in Works /\ worker'.taken = worker.taken /\ worker'.pc = "scale"
    BY <1>1, <2>1 DEF Works
  <2>3. worker.taken = 0 /\ UNCHANGED <<held, sent, ghost>>
    BY <1>3, <1>6 DEF R!Judge
  <2> QED BY <2>2, <2>3, NoMargin
<1>8. CASE R!FirstGates
  <2>1. PICK n \in Lots :
          worker' = [worker EXCEPT !.pc = "gates", !.lots = n,
                                   !.veto = @ \/ cache.halt \/ R!Closed(Early)]
    BY <1>8 DEF R!FirstGates
  <2> DEFINE v == worker.veto \/ cache.halt \/ R!Closed(Early)
  <2>2. n \in Nat /\ v \in BOOLEAN
    BY RouterParameters DEF R!Parameters
  <2>3. worker' = [worker EXCEPT !.pc = "gates", !.lots = n, !.veto = v]
    BY <2>1
  <2> HIDE DEF v
  <2>4. worker' \in Works /\ worker'.taken = worker.taken /\ worker'.pc = "gates"
    BY <1>1, <2>2, <2>3 DEF Works
  <2>5. worker.taken = 0 /\ UNCHANGED <<held, sent>>
    BY <1>3, <1>8 DEF R!FirstGates
  <2>6. DOMAIN ghost' = DOMAIN ghost /\ ghost'.lost = ghost.lost
    BY <1>1, <1>8 DEF R!FirstGates
  <2> QED BY <2>4, <2>5, <2>6, NoMargin
<1>9. CASE R!LastGates
  <2>1. PICK fracture \in BOOLEAN :
          worker' = [worker EXCEPT !.pc = "toggle",
                                   !.veto = @ \/ fracture \/ R!Closed(Signals \ Early)]
    BY <1>9 DEF R!LastGates
  <2> DEFINE v == worker.veto \/ fracture \/ R!Closed(Signals \ Early)
  <2>2. v \in BOOLEAN
    OBVIOUS
  <2>3. worker' = [worker EXCEPT !.pc = "toggle", !.veto = v]
    BY <2>1
  <2> HIDE DEF v
  <2>4. worker' \in Works /\ worker'.taken = worker.taken /\ worker'.pc = "toggle"
    BY <1>1, <2>2, <2>3 DEF Works
  <2>5. worker.taken = 0 /\ UNCHANGED <<held, sent, ghost>>
    BY <1>3, <1>9 DEF R!LastGates
  <2> QED BY <2>4, <2>5, NoMargin
<1>7. CASE R!Scale
  <2>1. PICK n \in Others :
          LET need == worker.lots * Unit
              free == Cash - held["ACTUAL"] - n
          IN /\ free >= 0
             /\ worker' = IF worker.mode = "live" /\ need > free /\ free > 0
                          THEN [worker EXCEPT !.pc = "reserve", !.lots = free \div Unit,
                                              !.mode = IF 5 * free < need THEN "paper" ELSE @]
                          ELSE [worker EXCEPT !.pc = "reserve"]
    BY <1>7 DEF R!Scale
  <2> DEFINE free == Cash - held["ACTUAL"] - n
             q == free \div Unit
  <2>2. q \in Nat
    <3>1. free \in Nat /\ Unit \in Nat \ {0}
      BY <2>1, RouterParameters DEF R!Parameters, RouterIInv, RouterShape, R!Wallets
    <3> HIDE DEF free
    <3> QED BY <3>1
  <2>3. \/ worker' = [worker EXCEPT !.pc = "reserve"]
        \/ worker' = [worker EXCEPT !.pc = "reserve", !.lots = q, !.mode = "paper"]
        \/ worker' = [worker EXCEPT !.pc = "reserve", !.lots = q, !.mode = worker.mode]
    BY <2>1
  <2> HIDE DEF q
  <2>4. worker' \in Works /\ worker'.taken = worker.taken /\ worker'.pc = "reserve"
    BY <1>1, <2>2, <2>3 DEF Works
  <2>5. worker.taken = 0 /\ UNCHANGED <<held, sent, ghost>>
    BY <1>3, <1>7 DEF R!Scale
  <2> QED BY <2>4, <2>5, NoMargin
<1> QED BY <1>2, <1>4, <1>5, <1>6, <1>7, <1>8, <1>9

-----------------------------------------------------------------------------
(* The margin taken is added to the wallet and carried by the intent.      *)
LEMMA ReserveKeeps == ASSUME RouterIInv, R!Reserve PROVE RouterIInv'
<1>1. /\ worker \in Works /\ worker.pc = "reserve" /\ worker.taken = 0
      /\ UNCHANGED <<sent, ghost>> /\ held \in [R!Wallets -> Nat]
  BY DEF RouterIInv, RouterShape, Carried, R!Reserve
<1>2. CASE worker' = R!Idle /\ held' = held
  BY <1>1, <1>2, IdleWorks, NoMargin
<1>3. CASE worker' = R!Refused /\ held' = held
  <2> DEFINE r == [worker EXCEPT !.pc = "enrich", !.mode = "shadow"]
  <2>1. worker' = R!Idle \/ worker' = r
    BY <1>3 DEF R!Refused
  <2>2. r \in Works /\ r.taken = worker.taken /\ r.mode = "shadow"
    BY <1>1 DEF Works
  <2> HIDE DEF r
  <2> QED BY <1>1, <1>3, <2>1, <2>2, IdleWorks, NoMargin
<1>4. CASE /\ worker' = [worker EXCEPT !.pc = "enrich", !.taken = R!Need]
           /\ held' = [held EXCEPT ![R!Wallet] = @ + R!Need]
  <2>1. R!Need \in Nat /\ R!Need = worker.lots * Unit
    <3>1. worker.lots \in Nat /\ Unit \in Nat
      BY <1>1, RouterParameters DEF R!Parameters, Works
    <3> QED BY <3>1, Products DEF R!Need
  <2>2. /\ worker' \in Works /\ worker'.taken = R!Need /\ worker'.mode = worker.mode
        /\ worker'.lots = worker.lots /\ worker'.pc = "enrich"
    BY <1>1, <1>4, <2>1 DEF Works
  <2>3. R!Wallet \in R!Wallets /\ R!Wallet' = R!Wallet
    BY <2>2 DEF R!Wallet, R!Wallets
  <2>4. /\ held' \in [R!Wallets -> Nat] /\ held'[R!Wallet] = held[R!Wallet] + R!Need
        /\ \A w \in R!Wallets : w # R!Wallet => held'[w] = held[w]
    BY <1>1, <1>4, <2>1, <2>3
  <2>5. RouterShape' /\ Carried' /\ Priced'
    BY <1>1, <2>1, <2>2, <2>4 DEF RouterIInv, RouterShape, Carried, Priced
  <2>6. R!LiveIsFunded'
    BY <1>1 DEF RouterIInv, R!MarginAccounted, R!LiveIsFunded
  <2>7. R!HeldIsSent'
    <3> SUFFICES ASSUME NEW w \in R!Wallets
                 PROVE  held'[w] = sent'.margin[w]
                          + (IF R!Wallet' = w THEN worker'.taken ELSE 0) + ghost'.lost[w]
      BY DEF R!HeldIsSent
    <3>1. /\ held[w] = sent.margin[w] + (IF R!Wallet = w THEN worker.taken ELSE 0) + ghost.lost[w]
          /\ held[w] \in Nat /\ sent.margin[w] \in Nat /\ ghost.lost[w] \in Nat
      BY DEF RouterIInv, RouterShape, R!MarginAccounted, R!HeldIsSent
    <3>2. held[w] = sent.margin[w] + ghost.lost[w]
      BY <1>1, <3>1
    <3> QED BY <1>1, <2>1, <2>2, <2>3, <2>4, <3>1, <3>2
  <2> QED BY <2>5, <2>6, <2>7 DEF RouterIInv, R!MarginAccounted
<1> QED BY <1>2, <1>3, <1>4 DEF R!Reserve

(* What the intent carried is now carried by the order.                    *)
LEMMA DispatchKeeps == ASSUME RouterIInv, R!Dispatch PROVE RouterIInv'
<1>1. /\ worker \in Works /\ worker.pc = "enrich" /\ worker' = R!Idle
      /\ UNCHANGED <<held, ghost>> /\ worker.taken \in Nat /\ worker.lots \in Nat
  BY DEF RouterIInv, RouterShape, Works, R!Dispatch
<1> DEFINE lots == IF worker.mode = "live" THEN worker.lots ELSE 0
           m    == [sent.margin EXCEPT ![R!Wallet] = @ + worker.taken]
<1>2. /\ sent.margin \in [R!Wallets -> Nat] /\ sent.live \in Nat /\ lots \in Nat
      /\ R!Wallet \in R!Wallets
  BY <1>1 DEF RouterIInv, RouterShape, R!Wallet, R!Wallets
<1>3. /\ sent'.margin = m /\ sent'.live = sent.live + lots
      /\ sent' = [margin |-> m, live |-> sent.live + lots]
  BY DEF R!Dispatch
<1>4. /\ m \in [R!Wallets -> Nat] /\ m[R!Wallet] = sent.margin[R!Wallet] + worker.taken
      /\ \A w \in R!Wallets : w # R!Wallet => m[w] = sent.margin[w]
  BY <1>1, <1>2
<1>5. worker.mode = "live" <=> R!Wallet = "ACTUAL"
  BY DEF R!Wallet
<1> HIDE DEF m
<1>6. RouterShape' /\ Carried' /\ Priced'
  BY <1>1, <1>2, <1>3, <1>4, IdleWorks DEF RouterIInv, RouterShape, Carried, Priced
<1>7. R!LiveIsFunded'
  <2>1. sent.live * Unit = sent.margin["ACTUAL"] /\ "ACTUAL" \in R!Wallets /\ Unit \in Nat
    BY RouterParameters DEF R!Parameters, RouterIInv, R!MarginAccounted, R!LiveIsFunded, R!Wallets
  <2>2. CASE worker.mode = "live"
    <3>1. worker.taken = worker.lots * Unit /\ lots = worker.lots /\ R!Wallet = "ACTUAL"
      BY <1>1, <1>5, <2>2 DEF RouterIInv, Priced
    <3>2. m["ACTUAL"] = sent.live * Unit + worker.lots * Unit
      BY <1>4, <2>1, <3>1
    <3>3. (sent.live + worker.lots) * Unit = sent.live * Unit + worker.lots * Unit
      BY <1>1, <1>2, <2>1, Products
    <3>4. sent'.live = sent.live + worker.lots
      BY <1>3, <3>1
    <3> QED BY <1>3, <3>2, <3>3, <3>4 DEF R!LiveIsFunded
  <2>3. CASE worker.mode # "live"
    <3>1. m["ACTUAL"] = sent.margin["ACTUAL"] /\ sent'.live = sent.live
      BY <1>2, <1>3, <1>4, <1>5, <2>1, <2>3
    <3> QED BY <1>3, <2>1, <3>1 DEF R!LiveIsFunded
  <2> QED BY <2>2, <2>3
<1>8. R!HeldIsSent'
  <2> SUFFICES ASSUME NEW w \in R!Wallets
               PROVE  held'[w] = sent'.margin[w]
                        + (IF R!Wallet' = w THEN worker'.taken ELSE 0) + ghost'.lost[w]
    BY DEF R!HeldIsSent
  <2>1. /\ held[w] = sent.margin[w] + (IF R!Wallet = w THEN worker.taken ELSE 0) + ghost.lost[w]
        /\ held[w] \in Nat /\ sent.margin[w] \in Nat /\ ghost.lost[w] \in Nat
    BY DEF RouterIInv, RouterShape, R!MarginAccounted, R!HeldIsSent
  <2>2. worker'.taken = 0
    BY <1>1, IdleWorks
  <2> QED BY <1>1, <1>3, <1>4, <2>1, <2>2
<1> QED BY <1>6, <1>7, <1>8 DEF RouterIInv, R!MarginAccounted

(* An exception loses what the intent carried.                             *)
LEMMA DropKeeps == ASSUME RouterIInv, R!Drop PROVE RouterIInv'
<1>1. /\ worker \in Works /\ worker' = R!Idle /\ UNCHANGED <<held, sent>> /\ worker.taken \in Nat
      /\ DOMAIN ghost = {"stood", "known", "since", "lost"} /\ ghost.lost \in [R!Wallets -> Nat]
      /\ R!Wallet \in R!Wallets
  BY DEF RouterIInv, RouterShape, Works, R!Drop, R!Wallet, R!Wallets
<1> DEFINE l == [ghost.lost EXCEPT ![R!Wallet] = @ + worker.taken]
<1>2. ghost' = [ghost EXCEPT !.lost = l]
  BY DEF R!Drop
<1>3. /\ l \in [R!Wallets -> Nat] /\ l[R!Wallet] = ghost.lost[R!Wallet] + worker.taken
      /\ \A w \in R!Wallets : w # R!Wallet => l[w] = ghost.lost[w]
  BY <1>1
<1> HIDE DEF l
<1>4. ghost'.lost = l /\ DOMAIN ghost' = {"stood", "known", "since", "lost"}
  BY <1>1, <1>2
<1>5. RouterShape' /\ Carried' /\ Priced'
  BY <1>1, <1>3, <1>4, IdleWorks DEF RouterIInv, RouterShape, Carried, Priced
<1>6. R!LiveIsFunded'
  BY <1>1 DEF RouterIInv, R!MarginAccounted, R!LiveIsFunded
<1>7. R!HeldIsSent'
  <2> SUFFICES ASSUME NEW w \in R!Wallets
               PROVE  held'[w] = sent'.margin[w]
                        + (IF R!Wallet' = w THEN worker'.taken ELSE 0) + ghost'.lost[w]
    BY DEF R!HeldIsSent
  <2>1. /\ held[w] = sent.margin[w] + (IF R!Wallet = w THEN worker.taken ELSE 0) + ghost.lost[w]
        /\ held[w] \in Nat /\ sent.margin[w] \in Nat /\ ghost.lost[w] \in Nat
    BY DEF RouterIInv, RouterShape, R!MarginAccounted, R!HeldIsSent
  <2>2. worker'.taken = 0
    BY <1>1, IdleWorks
  <2> QED BY <1>1, <1>3, <1>4, <2>1, <2>2
<1> QED BY <1>5, <1>6, <1>7 DEF RouterIInv, R!MarginAccounted

LEMMA RouterStep == ASSUME RouterIInv, [Next]_all PROVE RouterIInv'
<1>1. CASE UNCHANGED routerVars
  BY <1>1 DEF routerVars, RouterIInv, RouterShape, Carried, Priced, R!MarginAccounted,
             R!HeldIsSent, R!LiveIsFunded, R!Wallet
<1> QED BY <1>1, QuietKeeps, ReserveKeeps, DispatchKeeps, DropKeeps DEF Next, all, R!Next

(* No margin is lost between the wallets and the orders, nor is any live   *)
(* order without it (_final_dispatch).                                     *)
THEOREM PipelineMargin == Spec => []MarginAccounted
<1>1. Init => RouterIInv
  BY RouterInit DEF Init
<1>2. RouterIInv /\ [Next]_all => RouterIInv'
  BY RouterStep
<1>3. RouterIInv => MarginAccounted
  BY DEF RouterIInv, MarginAccounted
<1> QED BY <1>1, <1>2, <1>3, PTL DEF Spec
-----------------------------------------------------------------------------
(* What the router knows: a signal that stands since before the pulse and  *)
(* was already read in it is in the cache; one that stood through a whole  *)
(* pulse stays there.                                                      *)
Knows ==
  /\ redis \subseteq Signals /\ pulse \subseteq Signals
  /\ DOMAIN ghost = {"stood", "known", "since", "lost"}
  /\ DOMAIN cache = {"bad", "gates", "halt"}
  /\ ghost.known \subseteq cache.bad \cap redis
  /\ ghost.stood \subseteq redis
  /\ pulse # {} => ghost.stood \ pulse \subseteq cache.bad

(* What it did with it: the signals known since the first gate of the      *)
(* intent in work are still known; no gate that was passed is that of one  *)
(* of them; and before its judgement an intent is not live.                *)
Passed ==
  /\ DOMAIN worker = {"pc", "lots", "mode", "veto", "taken"}
  /\ ghost.since \subseteq ghost.known
  /\ worker.pc \in {"get", "sync", "log", "gates", "toggle"} => worker.mode = "paper"
  /\ worker.pc = "gates" /\ ~worker.veto => ghost.since \cap Early \cap cache.gates = {}
  /\ worker.pc = "toggle" /\ ~worker.veto => ghost.since \cap cache.gates = {}
  /\ worker.mode = "live" => ghost.since \cap cache.gates = {}

LEMMA KnowsInit == R!Init => Knows /\ Passed
BY DEF R!Init, Knows, Passed, R!Idle, R!None

(* The signals move, and the listener copies them.                         *)
LEMMA SignalKnows ==
  ASSUME Knows, Passed, NEW s \in Signals, R!Signal(s) PROVE Knows' /\ Passed'
<1>1. /\ redis' \subseteq Signals /\ UNCHANGED <<cache, pulse, worker>>
      /\ ghost' = [ghost EXCEPT !.stood = @ \cap redis', !.known = @ \cap redis',
                                !.since = @ \cap redis']
  BY DEF Knows, R!Signal
<1>2. /\ ghost'.stood = ghost.stood \cap redis' /\ ghost'.known = ghost.known \cap redis'
      /\ ghost'.since = ghost.since \cap redis'
      /\ DOMAIN ghost' = {"stood", "known", "since", "lost"}
  BY <1>1 DEF Knows
<1>3. Knows'
  BY <1>1, <1>2 DEF Knows
<1>4. Passed'
  BY <1>1, <1>2 DEF Passed
<1> QED BY <1>3, <1>4

LEMMA ReadKnows ==
  ASSUME Knows, Passed, NEW s \in Signals, R!Read(s) PROVE Knows' /\ Passed'
<1>1. /\ s \in pulse /\ pulse' = pulse \ {s} /\ UNCHANGED <<redis, worker>>
      /\ cache' = [cache EXCEPT !.bad = R!Copied(s)]
  BY DEF R!Read
<1>2. cache'.bad = R!Copied(s) /\ cache'.gates = cache.gates /\ DOMAIN cache' = {"bad", "gates", "halt"}
  BY <1>1 DEF Knows
<1>3. \A x \in redis : x \in cache.bad \/ x = s => x \in R!Copied(s)
  BY DEF R!Copied
<1>4. ghost.stood \ pulse' \subseteq cache'.bad
  BY <1>1, <1>2, <1>3 DEF Knows
<1>5. CASE pulse = {s}
  <2>1. ghost' = [ghost EXCEPT !.known = @ \cup ghost.stood] /\ pulse' = {}
    BY <1>1, <1>5 DEF R!Read
  <2>2. /\ ghost'.known = ghost.known \cup ghost.stood /\ ghost'.stood = ghost.stood
        /\ ghost'.since = ghost.since
        /\ DOMAIN ghost' = {"stood", "known", "since", "lost"}
    BY <2>1 DEF Knows
  <2>3. Knows'
    BY <1>1, <1>2, <1>3, <1>4, <2>1, <2>2 DEF Knows
  <2>4. Passed'
    BY <1>1, <1>2, <2>2 DEF Passed
  <2> QED BY <2>3, <2>4
<1>6. CASE pulse # {s}
  <2>1. ghost' = ghost
    BY <1>6 DEF R!Read
  <2>2. Knows'
    BY <1>1, <1>2, <1>3, <1>4, <2>1 DEF Knows
  <2>3. Passed'
    BY <1>1, <1>2, <2>1 DEF Passed
  <2> QED BY <2>2, <2>3
<1> QED BY <1>5, <1>6

(* The worker leaves the bad signals alone.                                *)
LEMMA WorkerKnows ==
  ASSUME Knows,
         \/ R!Get \/ R!Sync \/ R!FirstGates \/ R!LastGates \/ R!Judge \/ R!Scale
         \/ R!Reserve \/ R!Dispatch \/ R!Drop
  PROVE  Knows'
<1>1. UNCHANGED <<redis, pulse>>
  BY DEF R!Get, R!Sync, R!FirstGates, R!LastGates, R!Judge, R!Scale, R!Reserve, R!Dispatch, R!Drop
<1>2. cache'.bad = cache.bad /\ DOMAIN cache' = DOMAIN cache
  BY DEF Knows, R!Get, R!Sync, R!FirstGates, R!LastGates, R!Judge, R!Scale, R!Reserve,
         R!Dispatch, R!Drop
<1>3. /\ DOMAIN ghost' = DOMAIN ghost /\ ghost'.stood = ghost.stood
      /\ ghost'.known = ghost.known
  BY DEF Knows, R!Get, R!Sync, R!FirstGates, R!LastGates, R!Judge, R!Scale, R!Reserve,
         R!Dispatch, R!Drop
<1> QED BY <1>1, <1>2, <1>3 DEF Knows

(* The gates, the judgement and what comes after it.                       *)
LEMMA WorkerPasses ==
  ASSUME Knows, Passed,
         \/ R!Get \/ R!Sync \/ R!FirstGates \/ R!LastGates \/ R!Judge \/ R!Scale
         \/ R!Reserve \/ R!Dispatch \/ R!Drop
  PROVE  Passed'
<1>0. /\ ghost.known \subseteq cache.bad /\ ghost.known \subseteq Signals
      /\ ghost.since \subseteq ghost.known
  BY DEF Knows, Passed
<1>1. CASE R!Get
  <2>1. worker'.pc = "sync" /\ worker'.mode = worker.mode /\ DOMAIN worker' = DOMAIN worker
        /\ UNCHANGED <<ghost, cache>> /\ worker.pc = "get"
    BY <1>1 DEF R!Get, Passed
  <2> QED BY <2>1 DEF Passed
<1>2. CASE R!Sync
  <2>1. worker'.pc = "log" /\ worker'.mode = worker.mode /\ DOMAIN worker' = DOMAIN worker
        /\ UNCHANGED ghost /\ worker.pc = "sync"
    BY <1>2 DEF R!Sync, Passed
  <2> QED BY <2>1 DEF Passed
<1>3. CASE R!FirstGates
  <2>1. PICK n \in Lots :
          worker' = [worker EXCEPT !.pc = "gates", !.lots = n,
                                   !.veto = @ \/ cache.halt \/ R!Closed(Early)]
    BY <1>3 DEF R!FirstGates
  <2>2. /\ worker'.pc = "gates" /\ worker'.mode = worker.mode /\ DOMAIN worker' = DOMAIN worker
        /\ ~worker'.veto => ~R!Closed(Early)
    BY <2>1 DEF Passed
  <2>3. worker.mode = "paper" /\ UNCHANGED cache
    BY <1>3 DEF R!FirstGates, Passed
  <2>4. ghost'.since = ghost.known /\ ghost'.known = ghost.known
    BY <1>3 DEF R!FirstGates, Knows
  <2>5. ~R!Closed(Early) => ghost.known \cap Early \cap cache.gates = {}
    BY <1>0 DEF R!Closed
  <2> QED BY <2>2, <2>3, <2>4, <2>5 DEF Passed
<1>4. CASE R!LastGates
  <2>1. PICK fracture \in BOOLEAN :
          worker' = [worker EXCEPT !.pc = "toggle",
                                   !.veto = @ \/ fracture \/ R!Closed(Signals \ Early)]
    BY <1>4 DEF R!LastGates
  <2>2. /\ worker'.pc = "toggle" /\ worker'.mode = worker.mode /\ DOMAIN worker' = DOMAIN worker
        /\ ~worker'.veto => ~worker.veto /\ ~R!Closed(Signals \ Early)
    BY <2>1 DEF Passed
  <2>3. worker.mode = "paper" /\ worker.pc = "gates" /\ UNCHANGED <<ghost, cache>>
    BY <1>4 DEF R!LastGates, Passed
  <2>4. ~R!Closed(Signals \ Early) => ghost.since \cap cache.gates \subseteq Early
    BY <1>0 DEF R!Closed
  <2>5. ~worker'.veto => ghost.since \cap cache.gates = {}
    BY <2>2, <2>3, <2>4 DEF Passed
  <2> QED BY <2>2, <2>3, <2>5 DEF Passed
<1>5. CASE R!Judge
  <2>1. PICK toggle \in BOOLEAN :
          worker' = [worker EXCEPT !.pc = "scale",
                                   !.mode = CASE toggle /\ ~worker.veto -> "live"
                                              [] cache.halt             -> "shadow"
                                              [] OTHER                  -> "paper"]
    BY <1>5 DEF R!Judge
  <2>2. /\ worker'.pc = "scale" /\ DOMAIN worker' = DOMAIN worker
        /\ worker'.mode = "live" => ~worker.veto
    BY <2>1 DEF Passed
  <2>3. worker.pc = "toggle" /\ UNCHANGED <<ghost, cache>>
    BY <1>5 DEF R!Judge
  <2> QED BY <2>2, <2>3 DEF Passed
<1>6. CASE R!Scale
  <2>1. /\ worker'.pc = "reserve" /\ DOMAIN worker' = DOMAIN worker
        /\ worker'.mode = "live" => worker.mode = "live"
        /\ UNCHANGED <<ghost, cache>>
    BY <1>6 DEF R!Scale, Passed
  <2> QED BY <2>1 DEF Passed
<1>7. CASE R!Reserve
  <2>1. UNCHANGED <<cache, ghost>>
    BY <1>7 DEF R!Reserve
  <2>2. \/ worker' = R!Idle
        \/ worker' = [worker EXCEPT !.pc = "enrich", !.taken = R!Need]
        \/ worker' = [worker EXCEPT !.pc = "enrich", !.mode = "shadow"]
    BY <1>7 DEF R!Reserve, R!Refused
  <2>3. \/ worker' = R!Idle
        \/ /\ worker'.pc = "enrich" /\ DOMAIN worker' = DOMAIN worker
           /\ worker'.mode = "live" => worker.mode = "live"
    BY <2>2 DEF Passed
  <2> QED BY <2>1, <2>3 DEF Passed, R!Idle
<1>8. CASE R!Dispatch
  BY <1>8 DEF Passed, R!Dispatch, R!Idle
<1>9. CASE R!Drop
  <2>1. /\ worker' = R!Idle /\ UNCHANGED cache
        /\ ghost'.since = ghost.since /\ ghost'.known = ghost.known
    BY <1>9 DEF R!Drop, Knows
  <2> QED BY <2>1 DEF Passed, R!Idle
<1> QED BY <1>1, <1>2, <1>3, <1>4, <1>5, <1>6, <1>7, <1>8, <1>9

LEMMA StepKnows == ASSUME Knows, Passed, [Next]_all PROVE Knows' /\ Passed'
<1>1. CASE UNCHANGED routerVars
  BY <1>1 DEF routerVars, Knows, Passed
<1>2. CASE R!Pulse
  <2>1. /\ ghost'.stood = redis /\ ghost'.known = ghost.known /\ ghost'.since = ghost.since
        /\ DOMAIN ghost' = DOMAIN ghost
        /\ pulse' = Signals /\ UNCHANGED <<redis, cache, worker>>
    BY <1>2 DEF Knows, R!Pulse
  <2> QED BY <2>1 DEF Knows, Passed
<1>3. CASE R!Break
  BY <1>3 DEF Knows, Passed, R!Break
<1> QED BY <1>1, <1>2, <1>3, SignalKnows, ReadKnows, WorkerKnows, WorkerPasses
        DEF Next, all, R!Next

(* A signal that stood bad through a pulse of the listener, and is bad     *)
(* still from the first gate of an intent on, keeps it from being live,    *)
(* for all sets of signals and every way the listener and the worker       *)
(* interleave at their awaits (_evaluate_vetoes, process_single_intent).   *)
THEOREM PipelineVeto == Spec => []VetoHolds
<1>1. Init => Knows /\ Passed
  BY KnowsInit DEF Init
<1>2. Knows /\ Passed /\ [Next]_all => (Knows /\ Passed)'
  BY StepKnows
<1>3. Knows /\ Passed => VetoHolds
  BY DEF Passed, VetoHolds, R!VetoHolds
<1> QED BY <1>1, <1>2, <1>3, PTL DEF Spec
-----------------------------------------------------------------------------
(* The broadcast.  Behind: a tick is of an earlier gateway, or not newer   *)
(* than the one in the slot; everything that left a coroutine is.  What is *)
(* still to be started is newer, in ascending order.                       *)
Ticks == [session : Int, n : Nat]
Chores == [tick : Ticks, next : {"set", "push", "trim", "send"}]

Behind(t) ==
  /\ t.session <= crashes
  /\ t.session = crashes => slot.session = crashes /\ t.n <= slot.n

Shaped ==
  /\ sequence_id \in Nat /\ crashes \in Nat
  /\ scheduled \in Seq(Ticks) /\ buffer \in Seq(Ticks) /\ wire \in Seq(Ticks)
  /\ slot \in Ticks /\ latest \in Ticks /\ acted \in Ticks
  /\ tasks \subseteq Chores

Ascending ==
  /\ slot = B!None \/ (slot.session = crashes /\ slot.n <= sequence_id)
  /\ \A i \in 1..Len(scheduled) :
       /\ scheduled[i].session = crashes
       /\ scheduled[i].n <= sequence_id
       /\ slot.session = crashes => slot.n < scheduled[i].n
       /\ \A j \in 1..Len(scheduled) : i < j => scheduled[i].n < scheduled[j].n

Trailing ==
  /\ Behind(latest) /\ Behind(acted)
  /\ \A t \in tasks : Behind(t.tick)
  /\ \A i \in 1..Len(buffer) : Behind(buffer[i])
  /\ \A i \in 1..Len(wire) : Behind(wire[i])

Leads == Shaped /\ Ascending /\ Trailing

LEMMA BroadcastParameters ==
  /\ Keep \in Nat \ {0} /\ MaxTicks \in Nat /\ MaxCrashes \in Nat /\ MaxFailures \in Nat
BY PipelineAssumption DEF B!Parameters

LEMMA LeadsInit == B!Init => Leads
<1> SUFFICES ASSUME B!Init PROVE Leads
  OBVIOUS
<1>1. B!None = [session |-> -1, n |-> 0]
  BY DEF B!None, B!Tick
<1>2. B!None \in Ticks
  BY <1>1 DEF Ticks
<1>3. << >> \in Seq(Ticks) /\ Len(<< >>) = 0
  OBVIOUS
<1>4. Shaped
  BY <1>2, <1>3 DEF B!Init, Shaped
<1>5. Ascending /\ Trailing
  BY <1>1, <1>3 DEF B!Init, Ascending, Trailing, Behind
<1> QED BY <1>4, <1>5 DEF Leads

(* As long as gateway and slot stay, what was behind stays behind.         *)
LEMMA StillBehind ==
  ASSUME UNCHANGED <<crashes, slot>>, NEW t PROVE Behind(t) => Behind(t)'
BY DEF Behind

LEMMA ReceiveLeads == ASSUME Leads, B!Receive PROVE Leads'
<1> DEFINE t == [session |-> crashes, n |-> sequence_id + 1]
<1>1. /\ sequence_id' = sequence_id + 1 /\ scheduled' = Append(scheduled, t)
      /\ UNCHANGED <<tasks, slot, latest, buffer, wire, acted, crashes>>
  BY DEF B!Receive, B!Tick, B!redis, B!engine
<1>2. t \in Ticks /\ t.session = crashes /\ t.n = sequence_id + 1
  BY DEF Ticks, Leads, Shaped
<1> HIDE DEF t
<1>3. scheduled \in Seq(Ticks)
  BY DEF Leads, Shaped
<1>4. /\ scheduled' \in Seq(Ticks) /\ Len(scheduled') = Len(scheduled) + 1
      /\ \A i \in 1..Len(scheduled) : scheduled'[i] = scheduled[i]
      /\ scheduled'[Len(scheduled) + 1] = t
  BY <1>1, <1>2, <1>3
<1>5. Shaped' /\ Trailing'
  BY <1>1, <1>4 DEF Leads, Shaped, Trailing, Behind
<1>6. Ascending'
  <2>1. slot.session = crashes => slot.n <= sequence_id
    BY DEF Leads, Ascending, Shaped, B!None, B!Tick
  <2>2. \A i \in 1..Len(scheduled') : i \in 1..Len(scheduled) \/ i = Len(scheduled) + 1
    BY <1>3, <1>4
  <2>3. \A i \in 1..Len(scheduled) : scheduled[i] \in Ticks
    BY <1>3
  <2>4. Len(scheduled) \in Nat /\ sequence_id \in Nat /\ slot \in Ticks
    BY <1>3 DEF Leads, Shaped
  <2> SUFFICES ASSUME NEW i \in 1..Len(scheduled')
               PROVE  /\ scheduled'[i].session = crashes
                      /\ scheduled'[i].n <= sequence_id + 1
                      /\ slot.session = crashes => slot.n < scheduled'[i].n
                      /\ \A j \in 1..Len(scheduled') : i < j => scheduled'[i].n < scheduled'[j].n
    BY <1>1, <2>1, <2>4 DEF Ascending, Leads, Ticks
  <2>5. ASSUME NEW k \in 1..Len(scheduled)
        PROVE  /\ scheduled'[k].session = crashes
               /\ scheduled'[k].n <= sequence_id /\ scheduled'[k].n \in Nat
               /\ slot.session = crashes => slot.n < scheduled'[k].n
               /\ \A j \in 1..Len(scheduled) : k < j => scheduled'[k].n < scheduled'[j].n
    BY <1>4, <2>3 DEF Leads, Ascending, Ticks
  <2>6. CASE i \in 1..Len(scheduled)
    BY <1>2, <1>4, <2>2, <2>4, <2>5, <2>6
  <2>7. CASE i = Len(scheduled) + 1
    BY <1>2, <1>4, <2>1, <2>4, <2>7 DEF Ticks
  <2> QED BY <2>2, <2>6, <2>7
<1> QED BY <1>5, <1>6 DEF Leads

(* A coroutine starts: the slot moves on, and what was behind stays so.    *)
LEMMA StartLeads == ASSUME Leads, B!Start PROVE Leads'
<1>1. /\ scheduled # << >> /\ slot' = scheduled[1]
      /\ tasks' = tasks \cup {[tick |-> scheduled[1], next |-> "set"]}
      /\ scheduled' = SubSeq(scheduled, 1, 0) \o SubSeq(scheduled, 2, Len(scheduled))
      /\ UNCHANGED <<sequence_id, latest, buffer, wire, acted, crashes>>
  BY DEF B!Start, B!Starts, B!redis, B!engine
<1>2. /\ scheduled \in Seq(Ticks) /\ Len(scheduled) \in Nat /\ Len(scheduled) >= 1
      /\ scheduled[1] \in Ticks
  BY <1>1 DEF Leads, Shaped
<1>3. /\ scheduled' \in Seq(Ticks) /\ Len(scheduled') = Len(scheduled) - 1
      /\ \A i \in 1..Len(scheduled') : scheduled'[i] = scheduled[i + 1]
  <2> DEFINE rest == SubSeq(scheduled, 2, Len(scheduled))
  <2>1. /\ rest \in Seq(Ticks) /\ Len(rest) = Len(scheduled) - 1
        /\ \A i \in 1..Len(rest) : rest[i] = scheduled[i + 1]
    BY <1>1, <1>2, TailIsSubSeq, HeadTailProperties
  <2>2. SubSeq(scheduled, 1, 0) = << >>
    BY <1>2
  <2> HIDE DEF rest
  <2>3. << >> \o rest = rest
    BY <2>1
  <2>4. scheduled' = rest
    BY <1>1, <2>2, <2>3 DEF rest
  <2> QED BY <2>1, <2>4
<1>4. /\ scheduled[1].session = crashes /\ scheduled[1].n <= sequence_id
      /\ slot.session = crashes => slot.n < scheduled[1].n
  BY <1>2 DEF Leads, Ascending
<1>5. \A t \in Ticks : Behind(t) => Behind(t)'
  BY <1>1, <1>2, <1>4 DEF Behind, Leads, Shaped, Ticks
<1>6. Behind(slot)'
  BY <1>1, <1>2, <1>4 DEF Behind, Leads, Shaped, Ticks
<1>7. Shaped'
  BY <1>1, <1>2, <1>3 DEF Leads, Shaped, Chores
<1>8. Ascending'
  BY <1>1, <1>2, <1>3, <1>4 DEF Leads, Ascending, Shaped
<1>9. Trailing'
  <2>1. \A t \in tasks' : Behind(t.tick)'
    <3> SUFFICES ASSUME NEW t \in tasks' PROVE Behind(t.tick)'
      OBVIOUS
    <3>1. CASE t \in tasks
      BY <1>5, <3>1 DEF Leads, Shaped, Trailing, Chores
    <3>2. CASE t.tick = slot'
      BY <1>6, <3>2 DEF Behind
    <3> QED BY <1>1, <3>1, <3>2
  <2>2. /\ \A i \in 1..Len(buffer) : buffer[i] \in Ticks
        /\ \A i \in 1..Len(wire) : wire[i] \in Ticks
    BY DEF Leads, Shaped
  <2> QED BY <1>1, <1>5, <2>1, <2>2 DEF Leads, Shaped, Trailing
<1> QED BY <1>7, <1>8, <1>9 DEF Leads

(* What leaves a coroutine is what it was given.                           *)
LEMMA TaskLeads ==
  ASSUME Leads, NEW t \in tasks, B!SetLatest(t) \/ B!Push(t) \/ B!Trim(t) \/ B!Send(t) \/ B!Fails(t)
  PROVE  Leads'
<1>1. UNCHANGED <<sequence_id, scheduled, slot, acted, crashes>>
  BY DEF B!SetLatest, B!Push, B!Trim, B!Send, B!Fails, B!redis, B!engine
<1>2. t \in Chores /\ t.tick \in Ticks /\ Behind(t.tick)
  BY DEF Leads, Shaped, Trailing, Chores
<1>3. \A x : Behind(x) => Behind(x)'
  BY <1>1 DEF Behind
<1>4. Ascending'
  BY <1>1 DEF Leads, Ascending
<1>5. tasks' \subseteq Chores /\ \A x \in tasks' : Behind(x.tick)
  <2>1. /\ [t EXCEPT !.next = "push"] \in Chores /\ [t EXCEPT !.next = "push"].tick = t.tick
        /\ [t EXCEPT !.next = "trim"] \in Chores /\ [t EXCEPT !.next = "trim"].tick = t.tick
        /\ [t EXCEPT !.next = "send"] \in Chores /\ [t EXCEPT !.next = "send"].tick = t.tick
    BY <1>2 DEF Chores
  <2> DEFINE next(step) == (tasks \ {t}) \cup {[t EXCEPT !.next = step]}
  <2>2. \/ tasks' = next("push") \/ tasks' = next("trim") \/ tasks' = next("send")
        \/ tasks' = tasks \ {t}
    BY DEF B!SetLatest, B!Push, B!Trim, B!Send, B!Fails, B!Goes
  <2> QED BY <1>2, <2>1, <2>2 DEF Leads, Shaped, Trailing
<1>6. latest' \in Ticks /\ Behind(latest')
  BY <1>2 DEF Leads, Shaped, Trailing, B!SetLatest, B!Push, B!Trim, B!Send, B!Fails, B!redis
<1>7. buffer' \in Seq(Ticks) /\ \A i \in 1..Len(buffer') : Behind(buffer'[i])
  <2>1. buffer \in Seq(Ticks) /\ \A i \in 1..Len(buffer) : Behind(buffer[i])
    BY DEF Leads, Shaped, Trailing
  <2>2. CASE UNCHANGED buffer
    BY <2>1, <2>2
  <2>3. CASE buffer' = <<t.tick>> \o buffer
    <3>1. /\ buffer' \in Seq(Ticks) /\ Len(buffer') = Len(buffer) + 1 /\ Len(buffer) \in Nat
          /\ buffer'[1] = t.tick /\ \A i \in 2..Len(buffer') : buffer'[i] = buffer[i - 1]
      BY <1>2, <2>1, <2>3
    <3> QED BY <1>2, <2>1, <3>1
  <2>4. CASE B!Trim(t)
    <3> DEFINE m == IF Len(buffer) < Keep THEN Len(buffer) ELSE Keep
    <3>1. buffer' = SubSeq(buffer, 1, m)
      BY <2>4 DEF B!Trim
    <3>2. m \in Nat /\ m <= Len(buffer) /\ Len(buffer) \in Nat
      BY <2>1, BroadcastParameters
    <3> HIDE DEF m
    <3>3. /\ buffer' \in Seq(Ticks) /\ Len(buffer') = m
          /\ \A i \in 1..m : buffer'[i] = buffer[i]
      BY <2>1, <3>1, <3>2
    <3> QED BY <2>1, <3>2, <3>3
  <2> QED BY <2>2, <2>3, <2>4 DEF B!SetLatest, B!Push, B!Send, B!Fails, B!redis
<1>8. wire' \in Seq(Ticks) /\ \A i \in 1..Len(wire') : Behind(wire'[i])
  <2>1. wire \in Seq(Ticks) /\ \A i \in 1..Len(wire) : Behind(wire[i])
    BY DEF Leads, Shaped, Trailing
  <2>2. CASE UNCHANGED wire
    BY <2>1, <2>2
  <2>3. CASE wire' = Append(wire, t.tick)
    <3>1. /\ wire' \in Seq(Ticks) /\ Len(wire') = Len(wire) + 1 /\ Len(wire) \in Nat
          /\ wire'[Len(wire) + 1] = t.tick /\ \A i \in 1..Len(wire) : wire'[i] = wire[i]
      BY <1>2, <2>1, <2>3
    <3> QED BY <1>2, <2>1, <3>1
  <2> QED BY <2>2, <2>3 DEF B!SetLatest, B!Push, B!Trim, B!Send, B!Fails
<1>9. Shaped' /\ Trailing'
  BY <1>1, <1>3, <1>5, <1>6, <1>7, <1>8 DEF Leads, Shaped, Trailing
<1> QED BY <1>4, <1>9 DEF Leads
(* The gateway starts again: all that is out is of an earlier one.         *)
LEMMA CrashLeads == ASSUME Leads, B!Crash PROVE Leads'
<1>1. /\ crashes' = crashes + 1 /\ sequence_id' = 0 /\ scheduled' = << >> /\ tasks' = {}
      /\ slot' = B!None /\ UNCHANGED <<latest, buffer, wire, acted>>
  BY DEF B!Crash, B!redis, B!engine
<1>2. B!None = [session |-> -1, n |-> 0] /\ B!None \in Ticks
  BY DEF B!None, B!Tick, Ticks
<1>3. << >> \in Seq(Ticks) /\ Len(<< >>) = 0 /\ crashes \in Nat
  BY DEF Leads, Shaped
<1>4. \A t \in Ticks : Behind(t) => Behind(t)'
  BY <1>1, <1>3 DEF Behind, Ticks
<1>5. Shaped' /\ Ascending'
  BY <1>1, <1>2, <1>3 DEF Leads, Shaped, Ascending
<1>6. Trailing'
  <2>1. /\ \A i \in 1..Len(buffer) : buffer[i] \in Ticks
        /\ \A i \in 1..Len(wire) : wire[i] \in Ticks
    BY DEF Leads, Shaped
  <2> QED BY <1>1, <1>4, <2>1 DEF Leads, Shaped, Trailing
<1> QED BY <1>5, <1>6 DEF Leads

LEMMA GuardLeads == ASSUME Leads, B!Guard PROVE Leads'
<1>1. /\ wire # << >> /\ wire' = Tail(wire) /\ acted' \in {acted, Head(wire)}
      /\ UNCHANGED <<sequence_id, scheduled, tasks, slot, latest, buffer, crashes>>
  BY DEF B!Guard, B!redis, B!engine
<1>2. wire \in Seq(Ticks) /\ \A i \in 1..Len(wire) : Behind(wire[i])
  BY DEF Leads, Shaped, Trailing
<1>3. /\ wire' \in Seq(Ticks) /\ Head(wire) \in Ticks /\ Behind(Head(wire))
      /\ \A i \in 1..Len(wire') : Behind(wire'[i])
  BY <1>1, <1>2
<1>4. \A x : Behind(x) => Behind(x)'
  BY <1>1 DEF Behind
<1>5. Shaped' /\ Ascending'
  BY <1>1, <1>3 DEF Leads, Shaped, Ascending
<1>6. Trailing'
  BY <1>1, <1>3, <1>4 DEF Leads, Trailing
<1> QED BY <1>5, <1>6 DEF Leads

LEMMA LeadsStep == ASSUME Leads, [Next]_all PROVE Leads'
<1>1. CASE UNCHANGED broadcastVars
  BY <1>1 DEF broadcastVars, Leads, Shaped, Ascending, Trailing, Behind
<1>2. CASE B!Next
  BY <1>2, ReceiveLeads, StartLeads, CrashLeads, GuardLeads, TaskLeads DEF B!Next
<1> QED BY <1>1, <1>2 DEF Next, all

(* No tick in Redis, on the wire or acted upon is newer than the one in    *)
(* shared memory, although coroutines overlap, Redis fails and the gateway *)
(* restarts (_broadcast_tick).                                             *)
THEOREM PipelineLeads == Spec => []SlotLeads
<1>1. Init => Leads
  BY LeadsInit DEF Init
<1>2. Leads /\ [Next]_all => Leads'
  BY LeadsStep
<1>3. Leads => SlotLeads
  <2> SUFFICES ASSUME Leads,
                 NEW t \in {latest, acted} \cup {buffer[i] : i \in DOMAIN buffer}
                                         \cup {wire[i] : i \in DOMAIN wire},
                 t.session = crashes
               PROVE  ~B!Newer(t, slot)
    BY DEF SlotLeads, B!SlotLeads
  <2>1. DOMAIN buffer = 1..Len(buffer) /\ DOMAIN wire = 1..Len(wire)
    BY DEF Leads, Shaped
  <2>2. Behind(t) /\ t \in Ticks
    BY <2>1 DEF Leads, Shaped, Trailing
  <2> QED BY <2>2 DEF Behind, B!Newer, Leads, Shaped, Ticks
<1> QED BY <1>1, <1>2, <1>3, PTL DEF Spec
-----------------------------------------------------------------------------
(* The volumes of the sensor.  What a bucket holds of each side is counted *)
(* in parts of its volume, which the draining of a bucket multiplies.      *)
LEMMA Times == \A x, y \in Nat : x * y \in Nat
OBVIOUS

LEMMA Distributes == \A x, y, z \in Nat : (x + y) * z = x * z + y * z
OBVIOUS

LEMMA Monotone == \A x, y, z \in Nat : x <= y => z * x <= z * y
OBVIOUS

LEMMA FlowParameters == W!Parameters
BY PipelineAssumption

Bins == [vol : Nat, buy : Nat, sell : Nat, den : Nat \ {0}]
Kept(bin) == bin.buy + bin.sell <= bin.vol * bin.den

Volumed ==
  /\ bucket \in Bins /\ Kept(bucket) /\ bucket.vol < Bucket
  /\ vpin \in [num : Nat, den : Nat] /\ vpin.num <= vpin.den
  /\ lastSign \in Int

LEMMA EmptyKept == W!Empty \in Bins /\ Kept(W!Empty) /\ W!Empty.vol = 0
BY DEF W!Empty, Bins, Kept

(* A tick adds its volume to one side, or to none.                         *)
LEMMA FilledKept ==
  ASSUME NEW bin \in Bins, Kept(bin), NEW sign \in Int, NEW v \in Nat
  PROVE  /\ W!Filled(bin, sign, v) \in Bins /\ Kept(W!Filled(bin, sign, v))
         /\ W!Filled(bin, sign, v).vol = bin.vol + v
         /\ W!Filled(bin, sign, v).den = bin.den
<1> DEFINE f == W!Filled(bin, sign, v)
           buy == IF sign > 0 THEN bin.buy + v * bin.den ELSE bin.buy
           sell == IF sign < 0 THEN bin.sell + v * bin.den ELSE bin.sell
<1>1. /\ bin.vol \in Nat /\ bin.buy \in Nat /\ bin.sell \in Nat /\ bin.den \in Nat \ {0}
  BY DEF Bins
<1>2. v * bin.den \in Nat /\ (bin.vol + v) * bin.den = bin.vol * bin.den + v * bin.den
  BY <1>1, Times, Distributes
<1>3. bin.vol * bin.den \in Nat
  BY <1>1, Times
<1>4. buy \in Nat /\ sell \in Nat /\ buy + sell <= bin.buy + bin.sell + v * bin.den
  <2> DEFINE d == v * bin.den
  <2>1. d \in Nat
    BY <1>2
  <2> HIDE DEF d
  <2>2. /\ (IF sign > 0 THEN bin.buy + d ELSE bin.buy) \in Nat
        /\ (IF sign < 0 THEN bin.sell + d ELSE bin.sell) \in Nat
        /\ (IF sign > 0 THEN bin.buy + d ELSE bin.buy) + (IF sign < 0 THEN bin.sell + d ELSE bin.sell)
             <= bin.buy + bin.sell + d
    BY <1>1, <2>1
  <2> QED BY <2>2 DEF d
<1> HIDE DEF f, buy, sell
<1>5. f \in Bins /\ f.vol = bin.vol + v /\ f.den = bin.den /\ f.buy = buy /\ f.sell = sell
  <2>1. f = [bin EXCEPT !.vol = bin.vol + v, !.buy = buy, !.sell = sell]
    BY Zenon DEF f, buy, sell, W!Filled
  <2> DEFINE vol == bin.vol + v
  <2>2. vol \in Nat /\ buy \in Nat /\ sell \in Nat
    BY <1>1, <1>4
  <2>3. f = [bin EXCEPT !.vol = vol, !.buy = buy, !.sell = sell]
    BY <2>1
  <2> HIDE DEF vol
  <2>4. f \in Bins /\ f.vol = vol /\ f.buy = buy /\ f.sell = sell /\ f.den = bin.den
    BY <2>2, <2>3 DEF Bins
  <2> QED BY <2>4 DEF vol
<1>6. buy + sell <= (bin.vol + v) * bin.den
  <2> DEFINE d == v * bin.den
             o == bin.vol * bin.den
  <2>1. d \in Nat /\ o \in Nat /\ bin.buy + bin.sell <= o /\ (bin.vol + v) * bin.den = o + d
    BY <1>2, <1>3 DEF Kept
  <2>2. buy + sell <= bin.buy + bin.sell + d
    BY <1>4
  <2> HIDE DEF d, o
  <2> QED BY <1>1, <1>4, <2>1, <2>2
<1>7. Kept(f)
  BY <1>5, <1>6 DEF Kept
<1> QED BY <1>5, <1>7 DEF f

(* Full buckets take the same share of both sides with them.               *)
LEMMA DrainedKept ==
  ASSUME NEW bin \in Bins, Kept(bin)
  PROVE  W!Drained(bin) \in Bins /\ Kept(W!Drained(bin)) /\ W!Drained(bin).vol < Bucket
<1> DEFINE m == bin.vol % Bucket
<1>1. Bucket \in Nat \ {0} /\ 0 < Bucket
  BY FlowParameters DEF W!Parameters
<1>2. bin.vol \in Nat /\ bin.buy \in Nat /\ bin.sell \in Nat /\ bin.den \in Nat \ {0}
  BY DEF Bins
<1>3. m \in Nat /\ m < Bucket
  BY <1>1, <1>2
<1>4. CASE bin.vol < Bucket
  BY <1>4 DEF W!Drained
<1>5. CASE bin.vol >= Bucket /\ m = 0
  <2>1. W!Drained(bin) = W!Empty
    BY <1>1, <1>2, <1>5 DEF W!Drained
  <2> QED BY <1>1, <2>1, EmptyKept
<1>6. CASE bin.vol >= Bucket /\ m # 0
  <2> HIDE DEF m
  <2>1. W!Drained(bin) = [vol |-> m, buy |-> bin.buy * m, sell |-> bin.sell * m,
                          den |-> bin.den * bin.vol]
    BY <1>1, <1>2, <1>6 DEF W!Drained, m
  <2>2. bin.buy * m \in Nat /\ bin.sell * m \in Nat
    BY <1>2, <1>3, Times
  <2>3. bin.den * bin.vol \in Nat \ {0}
    BY <1>1, <1>2, <1>6
  <2>4. bin.buy * m + bin.sell * m <= m * (bin.den * bin.vol)
    <3>1. bin.buy * m + bin.sell * m = (bin.buy + bin.sell) * m
      BY <1>2, <1>3, Distributes
    <3>2. (bin.buy + bin.sell) * m = m * (bin.buy + bin.sell)
      BY <1>2, <1>3
    <3>3. bin.buy + bin.sell <= bin.den * bin.vol
      BY <1>2 DEF Kept
    <3>4. m * (bin.buy + bin.sell) <= m * (bin.den * bin.vol)
      BY <1>2, <1>3, <2>3, <3>3, Monotone
    <3> QED BY <3>1, <3>2, <3>4
  <2>5. W!Drained(bin) \in Bins
    BY <1>3, <2>1, <2>2, <2>3 DEF Bins
  <2>6. Kept(W!Drained(bin)) /\ W!Drained(bin).vol = m
    BY <2>1, <2>4 DEF Kept
  <2> QED BY <1>3, <2>5, <2>6
<1> QED BY <1>1, <1>2, <1>3, <1>4, <1>5, <1>6

LEMMA VolumedInit == W!Init => Volumed
BY EmptyKept, FlowParameters DEF W!Init, W!Parameters, Volumed

LEMMA TickVolumed == ASSUME Volumed, W!Tick PROVE Volumed'
<1>1. PICK at \in {"above", "below", "mid", "noquote"}, v \in Volumes :
        LET sign == W!Side(at)
            b    == W!Filled(bucket, sign, v)
        IN  /\ lastSign' = IF sign # 0 THEN sign ELSE lastSign
            /\ bucket' = W!Drained(b)
            /\ vpin' = IF b.vol < Bucket THEN vpin
                       ELSE [num |-> W!Gap(b.buy, b.sell), den |-> b.den * b.vol]
  BY DEF W!Tick
<1> DEFINE sign == W!Side(at)
           b == W!Filled(bucket, sign, v)
<1>2. sign \in Int
  BY DEF W!Side, Volumed
<1>3. v \in Nat
  BY FlowParameters DEF W!Parameters
<1> HIDE DEF sign
<1>4. b \in Bins /\ Kept(b)
  BY <1>2, <1>3, FilledKept DEF Volumed
<1> HIDE DEF b
<1>5. bucket' \in Bins /\ Kept(bucket') /\ bucket'.vol < Bucket
  BY <1>1, <1>4, DrainedKept DEF sign, b
<1>6. b.vol \in Nat /\ b.buy \in Nat /\ b.sell \in Nat /\ b.den \in Nat
  BY <1>4 DEF Bins
<1>7. vpin' \in [num : Nat, den : Nat] /\ vpin'.num <= vpin'.den
  <2>1. CASE b.vol < Bucket
    BY <1>1, <2>1 DEF sign, b, Volumed
  <2>2. CASE ~(b.vol < Bucket)
    <3>1. vpin' = [num |-> W!Gap(b.buy, b.sell), den |-> b.den * b.vol]
      BY <1>1, <2>2 DEF sign, b
    <3>2. W!Gap(b.buy, b.sell) \in Nat /\ W!Gap(b.buy, b.sell) <= b.buy + b.sell
      BY <1>6 DEF W!Gap
    <3>3. b.den * b.vol \in Nat /\ b.den * b.vol = b.vol * b.den
      BY <1>6, Times
    <3> DEFINE whole == b.vol * b.den
               gap == W!Gap(b.buy, b.sell)
    <3>4. b.buy + b.sell <= whole /\ whole \in Nat
      BY <1>4, <3>3 DEF Kept
    <3> HIDE DEF whole, gap
    <3>5. gap <= whole
      BY <1>6, <3>2, <3>4 DEF gap
    <3> QED BY <3>1, <3>2, <3>3, <3>5 DEF whole, gap
  <2> QED BY <2>1, <2>2
<1>8. lastSign' \in Int
  BY <1>1, <1>2 DEF sign, Volumed
<1> QED BY <1>5, <1>7, <1>8 DEF Volumed

LEMMA VolumedStep == ASSUME Volumed, [W!Next]_(W!vars) PROVE Volumed'
<1>1. CASE W!Tick
  BY <1>1, TickVolumed
<1>2. CASE W!Reset
  BY <1>2 DEF W!Reset, Volumed
<1>3. CASE W!Persist
  BY <1>3 DEF W!Persist, W!memory, Volumed
<1>4. CASE W!Crash
  BY <1>4, EmptyKept, FlowParameters DEF W!Crash, W!Parameters, Volumed
<1>5. CASE W!Fail
  BY <1>5 DEF W!Fail, W!memory, Volumed
<1>6. CASE UNCHANGED W!vars
  BY <1>6 DEF W!vars, Volumed
<1> QED BY <1>1, <1>2, <1>3, <1>4, <1>5, <1>6 DEF W!Next

(* The sum and the volume of the sensor, and what Redis keeps of the two.  *)
(* In memory the sum is ahead by d trades, which crashes and failed writes *)
(* paid for; the volume in Redis is behind that in memory by g trades, and *)
(* what a restart would read is ahead by both.                             *)
Low  == W!Least(Prices)
High == W!Most(Prices)
Big  == W!Most(Volumes)

Drift(a, crashed) ==
  /\ Low * a.vol <= a.pv
  /\ a.pv <= High * (a.vol + crashed * Big)

Ahead(d, g) ==
  /\ Drift(vwap, d) /\ d <= restarts + failed
  /\ d + g <= restarts + failed + (IF owes = {} THEN 0 ELSE 1)
  /\ keys.vol # -1 => /\ keys.vol <= vwap.vol /\ vwap.vol <= keys.vol + g * Big
                      /\ Drift(keys, d + g)

Averaged ==
  /\ vwap \in [pv : Nat, vol : Nat] /\ keys \in [pv : Nat \cup {-1}, vol : Nat \cup {-1}]
  /\ owes \in {{}, {"vol"}, {"pv", "vol"}} /\ restarts \in Nat /\ failed \in Nat
  /\ keys.vol # -1 => keys.pv # -1
  /\ owes = {"vol"} => keys.pv = vwap.pv
  /\ \E d, g \in Nat : Ahead(d, g)

LEMMA Extremes ==
  /\ Low \in Nat /\ High \in Nat /\ Big \in Nat
  /\ \A p \in Prices : p \in Nat /\ Low <= p /\ p <= High
  /\ \A v \in Volumes : v \in Nat /\ v <= Big
<1>1. Prices \subseteq Nat /\ Volumes \subseteq Nat
  BY FlowParameters DEF W!Parameters
<1>2. High \in Prices /\ \A p \in Prices : p <= High
  BY FlowParameters DEF W!Parameters, High, W!Most
<1>3. Low \in Prices /\ \A p \in Prices : Low <= p
  BY FlowParameters DEF W!Parameters, Low, W!Least
<1>4. Big \in Volumes /\ \A v \in Volumes : v <= Big
  BY FlowParameters DEF W!Parameters, Big, W!Most
<1> QED BY <1>1, <1>2, <1>3, <1>4

(* A trade within the prices keeps the average within them.                *)
LEMMA TradeDrifts ==
  ASSUME NEW pv \in Nat, NEW vol \in Nat, NEW k \in Nat, NEW p \in Prices, NEW v \in Volumes,
         Low * vol <= pv, pv <= High * (vol + k * Big)
  PROVE  /\ Low * (vol + v) <= pv + p * v
         /\ pv + p * v <= High * ((vol + v) + k * Big)
<1>1. Low \in Nat /\ High \in Nat /\ k * Big \in Nat /\ p \in Nat /\ v \in Nat
  BY Extremes, Times
<1> DEFINE x == k * Big
<1> HIDE DEF x
<1>2. x \in Nat
  BY <1>1 DEF x
<1>3. Low * (vol + v) = Low * vol + Low * v
  BY <1>1
<1>4. High * ((vol + v) + x) = High * (vol + x) + High * v
  BY <1>1, <1>2
<1>5. Low * v <= p * v /\ p * v <= High * v
  <2>1. v * Low <= v * p /\ v * p <= v * High
    BY <1>1, Extremes, Monotone
  <2> QED BY <1>1, <2>1
<1>6. Low * vol \in Nat /\ Low * v \in Nat /\ p * v \in Nat /\ High * v \in Nat
      /\ High * (vol + x) \in Nat
  BY <1>1, <1>2, Times
<1> DEFINE a == Low * vol
           b == Low * v
           c == p * v
           d == High * v
           e == High * (vol + x)
<1>7. a \in Nat /\ b \in Nat /\ c \in Nat /\ d \in Nat /\ e \in Nat
      /\ a <= pv /\ pv <= e /\ b <= c /\ c <= d
  BY <1>5, <1>6 DEF x
<1> HIDE DEF a, b, c, d, e
<1>8. a + b <= pv + c /\ pv + c <= e + d
  BY <1>7
<1>9. Low * (vol + v) <= pv + p * v
  BY <1>3, <1>8 DEF a, b, c
<1>10. pv + p * v <= High * ((vol + v) + x)
  BY <1>4, <1>8 DEF c, d, e
<1> QED BY <1>9, <1>10 DEF x

(* A volume that is behind by g trades puts the sum ahead by as many more. *)
LEMMA LossDrifts ==
  ASSUME NEW pv \in Nat, NEW vol \in Nat, NEW old \in Nat, NEW k \in Nat, NEW g \in Nat,
         Low * vol <= pv, pv <= High * (vol + k * Big), old <= vol, vol <= old + g * Big
  PROVE  Low * old <= pv /\ pv <= High * (old + (k + g) * Big)
<1>1. /\ Low \in Nat /\ High \in Nat /\ Big \in Nat /\ k * Big \in Nat /\ g * Big \in Nat
  BY Extremes, Times
<1>2. Low * old <= Low * vol /\ Low * old \in Nat /\ Low * vol \in Nat
  BY <1>1, Monotone, Times
<1>3. (k + g) * Big = k * Big + g * Big
  BY <1>1, Distributes
<1> DEFINE x == k * Big
           z == g * Big
           y == (k + g) * Big
<1>4. x \in Nat /\ z \in Nat /\ y = x + z /\ vol <= old + z
  BY <1>1, <1>3
<1>5. pv <= High * (vol + x)
  OBVIOUS
<1> HIDE DEF x, y, z
<1>6. High * (vol + x) <= High * (old + y) /\ High * (vol + x) \in Nat /\ High * (old + y) \in Nat
  <2>1. vol + x \in Nat /\ old + y \in Nat /\ vol + x <= old + y
    BY <1>1, <1>4
  <2> QED BY <1>1, <2>1, Monotone, Times
<1>7. pv <= High * (old + y)
  BY <1>5, <1>6
<1>8. Low * old <= pv
  BY <1>2
<1> QED BY <1>7, <1>8 DEF y

(* More crashes and failures leave more room.                              *)
LEMMA Wider ==
  ASSUME NEW pv \in Nat, NEW vol \in Nat, NEW k \in Nat, NEW g \in Nat,
         Low * vol <= pv, pv <= High * (vol + k * Big)
  PROVE  Low * vol <= pv /\ pv <= High * (vol + (k + g) * Big)
<1>1. g * Big \in Nat
  BY Extremes, Times
<1>2. vol <= vol /\ vol <= vol + g * Big
  BY <1>1
<1> QED BY <1>2, LossDrifts

LEMMA Fixed == Low' = Low /\ High' = High /\ Big' = Big
BY DEF Low, High, Big

LEMMA AveragedInit == W!Init => Averaged
<1> SUFFICES ASSUME W!Init PROVE Averaged
  OBVIOUS
<1>1. /\ vwap = [pv |-> 0, vol |-> 0] /\ keys = [pv |-> -1, vol |-> -1]
      /\ owes = {} /\ restarts = 0 /\ failed = 0
  BY DEF W!Init, W!Zero
<1>2. High \in Nat /\ Low \in Nat /\ Big \in Nat /\ High * (0 + 0 * Big) = 0 /\ Low * 0 = 0
  BY Extremes
<1>3. Ahead(0, 0)
  BY <1>1, <1>2 DEF Ahead, Drift
<1> QED BY <1>1, <1>3 DEF Averaged

LEMMA TickAveraged == ASSUME Averaged, W!Tick PROVE Averaged'
<1>1. \/ /\ \E v \in Volumes, p \in Prices :
               vwap' = [pv |-> vwap.pv + p * v, vol |-> vwap.vol + v]
         /\ owes' = {"pv", "vol"}
      \/ UNCHANGED <<vwap, owes>>
  BY DEF W!Tick
<1>2. owes = {} /\ UNCHANGED <<keys, restarts, failed>>
  BY DEF W!Tick
<1>3. CASE UNCHANGED <<vwap, owes>>
  BY <1>2, <1>3, Fixed DEF Averaged, Ahead, Drift
<1>4. CASE /\ \E v \in Volumes, p \in Prices :
                vwap' = [pv |-> vwap.pv + p * v, vol |-> vwap.vol + v]
           /\ owes' = {"pv", "vol"}
  <2>1. PICK v \in Volumes, p \in Prices :
          vwap' = [pv |-> vwap.pv + p * v, vol |-> vwap.vol + v]
    BY <1>4
  <2>2. vwap.pv \in Nat /\ vwap.vol \in Nat /\ restarts \in Nat /\ failed \in Nat
    BY DEF Averaged
  <2>3. p \in Nat /\ v \in Nat /\ v <= Big /\ Big \in Nat /\ p * v \in Nat
    BY Extremes, Times
  <2>4. PICK d \in Nat, g \in Nat : Ahead(d, g)
    BY DEF Averaged
  <2>5. Drift(vwap', d)
    <3>1. /\ Low * (vwap.vol + v) <= vwap.pv + p * v
          /\ vwap.pv + p * v <= High * ((vwap.vol + v) + d * Big)
      BY <2>2, <2>4, TradeDrifts DEF Ahead, Drift
    <3> QED BY <2>1, <3>1 DEF Drift
  <2>6. vwap' \in [pv : Nat, vol : Nat] /\ vwap'.vol = vwap.vol + v
    <3> DEFINE t == p * v
    <3>1. t \in Nat /\ vwap' = [pv |-> vwap.pv + t, vol |-> vwap.vol + v]
      BY <2>1, <2>3
    <3> HIDE DEF t
    <3> QED BY <2>2, <2>3, <3>1
  <2>7. ASSUME keys.vol # -1
        PROVE  /\ keys.vol <= vwap'.vol /\ vwap'.vol <= keys.vol + (g + 1) * Big
               /\ Drift(keys, d + (g + 1))
    <3>1. keys.vol \in Nat /\ keys.pv \in Nat
      BY <2>7 DEF Averaged
    <3>2. /\ keys.vol <= vwap.vol /\ vwap.vol <= keys.vol + g * Big /\ Drift(keys, d + g)
      BY <2>4, <2>7 DEF Ahead
    <3>3. (g + 1) * Big = g * Big + Big /\ g * Big \in Nat
      BY <2>3, Times
    <3>4. keys.vol <= vwap'.vol /\ vwap'.vol <= keys.vol + (g + 1) * Big
      BY <2>2, <2>3, <2>6, <3>1, <3>2, <3>3
    <3>5. Drift(keys, (d + g) + 1)
      BY <3>1, <3>2, Wider DEF Drift
    <3>6. (d + g) + 1 = d + (g + 1)
      OBVIOUS
    <3> QED BY <3>4, <3>5, <3>6
  <2>8. d <= restarts + failed /\ d + (g + 1) <= restarts + failed + 1
    BY <1>2, <2>2, <2>4 DEF Ahead
  <2>9. Ahead(d, g + 1)'
    BY <1>2, <1>4, <2>5, <2>7, <2>8, Fixed DEF Ahead, Drift
  <2>10. g + 1 \in Nat
    OBVIOUS
  <2> QED BY <1>2, <1>4, <2>6, <2>9, <2>10 DEF Averaged
<1> QED BY <1>1, <1>3, <1>4

LEMMA PersistAveraged == ASSUME Averaged, W!Persist PROVE Averaged'
<1>1. UNCHANGED <<vwap, restarts, failed>>
  BY DEF W!Persist
<1>2. /\ keys \in [pv : Nat \cup {-1}, vol : Nat \cup {-1}] /\ vwap \in [pv : Nat, vol : Nat]
      /\ restarts \in Nat /\ failed \in Nat
  BY DEF Averaged
<1>0. PICK d \in Nat, g \in Nat : Ahead(d, g)
  BY DEF Averaged
<1>3. CASE owes = {"pv", "vol"}
  <2>1. keys' = [keys EXCEPT !["pv"] = vwap["pv"]] /\ owes' = {"vol"}
    BY <1>3 DEF W!Persist, W!First
  <2>2. keys'.pv = vwap.pv /\ keys'.vol = keys.vol /\ keys' \in [pv : Nat \cup {-1}, vol : Nat \cup {-1}]
    BY <1>2, <2>1
  <2>3. keys.vol # -1 => Drift(keys', d + g)
    <3> SUFFICES ASSUME keys.vol # -1 PROVE Drift(keys', d + g)
      OBVIOUS
    <3>1. keys.vol \in Nat /\ vwap.pv \in Nat /\ vwap.vol \in Nat
      BY <1>2
    <3> QED BY <1>0, <2>2, <3>1, LossDrifts DEF Ahead, Drift
  <2>4. Ahead(d, g)'
    BY <1>0, <1>1, <1>3, <2>1, <2>2, <2>3, Fixed DEF Ahead, Drift
  <2>5. vwap'.pv # -1
    BY <1>1, <1>2
  <2> QED BY <1>1, <1>2, <2>1, <2>2, <2>4, <2>5 DEF Averaged
<1>4. CASE owes = {"vol"}
  <2>1. keys' = [keys EXCEPT !["vol"] = vwap["vol"]] /\ owes' = {}
    <3>1. (CHOOSE k \in owes : TRUE) = "vol"
      BY <1>4
    <3> QED BY <1>4, <3>1 DEF W!Persist, W!First
  <2>2. keys' = vwap
    <3>1. keys.pv = vwap.pv
      BY <1>4 DEF Averaged
    <3> QED BY <1>2, <2>1, <3>1
  <2>3. 0 * Big = 0 /\ d + 0 = d /\ vwap.vol \in Nat
    BY <1>2, Extremes
  <2>4. Drift(vwap, d) /\ d <= restarts + failed
    BY <1>0 DEF Ahead
  <2>5. Ahead(d, 0)'
    BY <1>1, <1>2, <2>1, <2>2, <2>3, <2>4, Fixed DEF Ahead, Drift
  <2>6. vwap.pv # -1
    BY <1>2
  <2> QED BY <1>1, <1>2, <2>1, <2>2, <2>5, <2>6 DEF Averaged
<1> QED BY <1>3, <1>4 DEF Averaged, W!Persist

(* What was not written leaves the volume in Redis as far behind.          *)
LEMMA FailAveraged == ASSUME Averaged, W!Fail PROVE Averaged'
<1>1. owes # {} /\ owes' = {} /\ failed' = failed + 1 /\ UNCHANGED <<vwap, keys, restarts>>
  BY DEF W!Fail
<1>2. restarts \in Nat /\ failed \in Nat /\ failed + 1 \in Nat
  BY DEF Averaged
<1>3. PICK d \in Nat, g \in Nat : Ahead(d, g)
  BY DEF Averaged
<1>4. d <= restarts + (failed + 1) /\ d + g <= restarts + (failed + 1)
  BY <1>1, <1>2, <1>3 DEF Ahead
<1>5. Ahead(d, g)'
  <2>1. Drift(vwap, d)'
    BY <1>1, <1>3, Fixed DEF Ahead, Drift
  <2>2. keys'.vol # -1 => Drift(keys, d + g)'
    BY <1>1, <1>3, Fixed DEF Ahead, Drift
  <2>3. keys'.vol # -1 => keys'.vol <= vwap'.vol /\ vwap'.vol <= keys'.vol + g * Big'
    BY <1>1, <1>3, Fixed DEF Ahead
  <2>4. d <= restarts' + failed' /\ d + g <= restarts' + failed' + (IF owes' = {} THEN 0 ELSE 1)
    BY <1>1, <1>2, <1>4
  <2> QED BY <2>1, <2>2, <2>3, <2>4 DEF Ahead
<1> QED BY <1>1, <1>2, <1>5 DEF Averaged

LEMMA CrashAveraged == ASSUME Averaged, W!Crash PROVE Averaged'
<1>1. /\ restarts' = restarts + 1 /\ owes' = {} /\ keys' = keys /\ vwap' = W!Hydrated
      /\ failed' = failed
  BY DEF W!Crash
<1>2. /\ keys \in [pv : Nat \cup {-1}, vol : Nat \cup {-1}] /\ vwap \in [pv : Nat, vol : Nat]
      /\ restarts \in Nat /\ restarts + 1 \in Nat /\ failed \in Nat
  BY DEF Averaged
<1>3. PICK d \in Nat, g \in Nat : Ahead(d, g)
  BY DEF Averaged
<1>4. CASE keys.pv = -1 \/ keys.vol = -1
  <2>1. vwap' = [pv |-> 0, vol |-> 0]
    BY <1>1, <1>4 DEF W!Hydrated, W!Zero
  <2>2. keys.vol = -1
    BY <1>4 DEF Averaged
  <2>3. High \in Nat /\ Low \in Nat /\ Big \in Nat /\ High * (0 + 0 * Big) = 0 /\ Low * 0 = 0
    BY Extremes
  <2>4. Ahead(0, 0)'
    BY <1>1, <1>2, <2>1, <2>2, <2>3, Fixed DEF Ahead, Drift
  <2> QED BY <1>1, <1>2, <2>1, <2>2, <2>4 DEF Averaged
<1>5. CASE keys.pv # -1 /\ keys.vol # -1
  <2>1. vwap' = keys /\ keys.pv \in Nat /\ keys.vol \in Nat /\ keys \in [pv : Nat, vol : Nat]
    BY <1>1, <1>2, <1>5 DEF W!Hydrated
  <2>2. Drift(keys, d + g) /\ d + g <= restarts + failed + 1
    BY <1>2, <1>3, <1>5 DEF Ahead
  <2>3. 0 * Big = 0 /\ (d + g) + 0 = d + g /\ d + g \in Nat
    BY Extremes
  <2>4. d + g <= (restarts + 1) + failed
    BY <1>2, <2>2
  <2> DEFINE e == d + g
  <2>5. e \in Nat /\ e + 0 = e /\ Drift(keys, e) /\ e <= (restarts + 1) + failed
    BY <2>2, <2>3, <2>4
  <2> HIDE DEF e
  <2>6. Ahead(e, 0)'
    <3>1. Drift(vwap, e)' /\ Drift(keys, e + 0)'
      BY <1>1, <2>1, <2>5, Fixed DEF Drift
    <3>2. keys'.vol <= vwap'.vol /\ vwap'.vol <= keys'.vol + 0 * Big'
      BY <1>1, <2>1, <2>3, Fixed
    <3>3. e <= restarts' + failed' /\ e + 0 <= restarts' + failed' + (IF owes' = {} THEN 0 ELSE 1)
      BY <1>1, <1>2, <2>5
    <3> QED BY <3>1, <3>2, <3>3 DEF Ahead
  <2> QED BY <1>1, <1>2, <1>5, <2>1, <2>5, <2>6 DEF Averaged
<1> QED BY <1>4, <1>5

LEMMA AveragedStep == ASSUME Averaged, [W!Next]_(W!vars) PROVE Averaged'
<1>1. CASE W!Tick
  BY <1>1, TickAveraged
<1>2. CASE W!Reset
  BY <1>2, Fixed DEF W!Reset, Averaged, Ahead, Drift
<1>3. CASE W!Persist
  BY <1>3, PersistAveraged
<1>4. CASE W!Crash
  BY <1>4, CrashAveraged
<1>5. CASE W!Fail
  BY <1>5, FailAveraged
<1>6. CASE UNCHANGED W!vars
  BY <1>6, Fixed DEF W!vars, Averaged, Ahead, Drift
<1> QED BY <1>1, <1>2, <1>3, <1>4, <1>5, <1>6 DEF W!Next

(* What the sensor says of volume stays within what the ticks were: no     *)
(* full bucket stays, a VPIN is at most 1, and the average price leaves    *)
(* the prices by one trade for each crash and each failed write at most,   *)
(* for all volumes and prices (_update_vpin, _publish_market_state).       *)
THEOREM PipelineFlow == Spec => []FlowBounded
<1>1. Init => Volumed /\ Averaged
  BY VolumedInit, AveragedInit DEF Init
<1>2. Volumed /\ Averaged /\ [Next]_all => (Volumed /\ Averaged)'
  <2> SUFFICES ASSUME Volumed, Averaged, [Next]_all PROVE (Volumed /\ Averaged)'
    OBVIOUS
  <2>1. [W!Next]_(W!vars)
    BY DEF Next, all, flowVars, W!vars
  <2> QED BY <2>1, VolumedStep, AveragedStep
<1>3. Volumed /\ Averaged => FlowBounded
  <2> SUFFICES ASSUME Volumed, Averaged PROVE FlowBounded
    OBVIOUS
  <2>1. W!BucketsDrained
    BY DEF Volumed, Bins, Kept, W!BucketsDrained
  <2>2. W!VwapDrift
    <3>1. PICK d \in Nat, g \in Nat : Ahead(d, g)
      BY DEF Averaged
    <3>2. vwap.pv \in Nat /\ vwap.vol \in Nat /\ restarts + failed \in Nat
      BY DEF Averaged
    <3> DEFINE m == restarts + failed
    <3>3. m \in Nat /\ d <= m
      BY <3>1, <3>2 DEF Ahead
    <3> HIDE DEF m
    <3>4. m - d \in Nat /\ d + (m - d) = m
      BY <3>3
    <3>5. Low * vwap.vol <= vwap.pv /\ vwap.pv <= High * (vwap.vol + (d + (m - d)) * Big)
      BY <3>1, <3>2, <3>4, Wider DEF Ahead, Drift
    <3>6. Low * vwap.vol <= vwap.pv /\ vwap.pv <= High * (vwap.vol + m * Big)
      BY <3>4, <3>5
    <3> QED BY <3>6 DEF m, Low, High, Big, W!VwapDrift
  <2> QED BY <2>1, <2>2 DEF FlowBounded, W!FlowBounded
<1> QED BY <1>1, <1>2, <1>3, PTL DEF Spec
=============================================================================
