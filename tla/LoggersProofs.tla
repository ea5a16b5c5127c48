----------------------------- MODULE LoggersProofs -----------------------------
(***************************************************************************)
(* That the loggers that stream send every entry once and in order, that   *)
(* those in memory report what was recorded, and that the times of the one *)
(* that accounts add up: for any sizes of buffers, blocks and logs, any    *)
(* widths of counters and any resources and activities.                    *)
(***************************************************************************)
EXTENDS Loggers, FiniteSetTheorems, SequenceTheorems, WellFoundedInduction, TLAPS

(* The slot of entry i of the log, oldest first.                           *)
SlotOf(i) == (m_head + i - 1) % BUFFERSIZE

(* The ring: the tail is behind the last entry, the main program's slot is *)
(* one of the log, and all other slots of it are filled.                   *)
Ring ==
  /\ BufferTypeOK
  /\ m_tail = (m_head + m_size) % BUFFERSIZE
  /\ slot = None <=> entry = None
  /\ slot = None => ~to_write
  /\ slot # None => \E i \in 1..m_size : slot = SlotOf(i)
  /\ \A i \in 1..m_size : SlotOf(i) # slot => buf[SlotOf(i)] \in Record

(* The remainder of a number that is not too large.                        *)
LEMMA RemainderOnce ==
  ASSUME NEW a \in 0..(2 * BUFFERSIZE - 1)
  PROVE  /\ a % BUFFERSIZE = IF a < BUFFERSIZE THEN a ELSE a - BUFFERSIZE
         /\ a % BUFFERSIZE \in Slots
<1>1. BUFFERSIZE \in Nat \ {0}
  BY SizeAssumption
<1>2. a % BUFFERSIZE = IF a < BUFFERSIZE THEN a ELSE a - BUFFERSIZE
  BY <1>1, SMT
<1> QED
  BY <1>1, <1>2 DEF Slots

(* Different entries are in different slots, and the tail is the next one. *)
LEMMA SlotsOfLog ==
  ASSUME m_head \in Slots, m_size \in 0..BUFFERSIZE
  PROVE  /\ \A i \in 1..BUFFERSIZE : SlotOf(i) \in Slots
         /\ \A i, j \in 1..BUFFERSIZE : SlotOf(i) = SlotOf(j) => i = j
         /\ (m_head + m_size) % BUFFERSIZE = SlotOf(m_size + 1)
<1>1. BUFFERSIZE \in Nat \ {0}
  BY SizeAssumption
<1>2. ASSUME NEW i \in 1..BUFFERSIZE
      PROVE  /\ SlotOf(i) \in Slots
             /\ SlotOf(i) = IF m_head + i - 1 < BUFFERSIZE THEN m_head + i - 1
                            ELSE m_head + i - 1 - BUFFERSIZE
  <2> DEFINE a == m_head + i - 1
  <2>1. a \in 0..(2 * BUFFERSIZE - 1)
    BY <1>1 DEF Slots
  <2>2. SlotOf(i) = a % BUFFERSIZE
    BY DEF SlotOf
  <2> HIDE DEF a
  <2>3. SlotOf(i) \in Slots /\ SlotOf(i) = IF a < BUFFERSIZE THEN a ELSE a - BUFFERSIZE
    BY <2>1, <2>2, RemainderOnce
  <2> QED
    BY <1>1, <2>3 DEF a, Slots
<1>3. ASSUME NEW i \in 1..BUFFERSIZE, NEW j \in 1..BUFFERSIZE, SlotOf(i) = SlotOf(j)
      PROVE  i = j
  <2>1. CASE m_head + i - 1 < BUFFERSIZE /\ m_head + j - 1 < BUFFERSIZE
    BY <1>1, <1>2, <1>3, <2>1 DEF Slots
  <2>2. CASE m_head + i - 1 >= BUFFERSIZE /\ m_head + j - 1 >= BUFFERSIZE
    BY <1>1, <1>2, <1>3, <2>2 DEF Slots
  <2>3. CASE m_head + i - 1 < BUFFERSIZE /\ m_head + j - 1 >= BUFFERSIZE
    BY <1>1, <1>2, <1>3, <2>3 DEF Slots
  <2>4. CASE m_head + i - 1 >= BUFFERSIZE /\ m_head + j - 1 < BUFFERSIZE
    BY <1>1, <1>2, <1>3, <2>4 DEF Slots
  <2> QED BY <1>1, <2>1, <2>2, <2>3, <2>4 DEF Slots
<1>4. m_head + m_size = m_head + (m_size + 1) - 1
  BY <1>1 DEF Slots
<1> QED
  BY <1>2, <1>3, <1>4 DEF SlotOf

(* Two steps around the ring are one.                                      *)
LEMMA RemainderTwice ==
  ASSUME NEW h \in Slots, NEW i \in Nat, NEW j \in Nat, i + j <= BUFFERSIZE
  PROVE  /\ (((h + i) % BUFFERSIZE) + j) % BUFFERSIZE = (h + (i + j)) % BUFFERSIZE
         /\ (h + (i + j)) % BUFFERSIZE \in Slots
<1> DEFINE a == h + i
           b == a % BUFFERSIZE
<1>1. BUFFERSIZE \in Nat \ {0} /\ a \in 0..(2 * BUFFERSIZE - 1) /\ a + j \in 0..(2 * BUFFERSIZE - 1)
      /\ h + (i + j) = a + j
  BY SizeAssumption DEF Slots
<1> HIDE DEF a
<1>2. b = IF a < BUFFERSIZE THEN a ELSE a - BUFFERSIZE
  BY <1>1, RemainderOnce
<1>3. /\ (a + j) % BUFFERSIZE = IF a + j < BUFFERSIZE THEN a + j ELSE a + j - BUFFERSIZE
      /\ (a + j) % BUFFERSIZE \in Slots
  BY <1>1, RemainderOnce
<1> HIDE DEF b
<1>4. b \in Nat /\ b + j \in 0..(2 * BUFFERSIZE - 1)
  BY <1>1, <1>2
<1>5. (b + j) % BUFFERSIZE = IF b + j < BUFFERSIZE THEN b + j ELSE b + j - BUFFERSIZE
  BY <1>1, <1>2, <1>4, RemainderOnce
<1>6. (b + j) % BUFFERSIZE = (a + j) % BUFFERSIZE
  BY <1>1, <1>2, <1>3, <1>4, <1>5
<1> QED
  BY <1>1, <1>3, <1>6 DEF a, b

(* The tail follows the last entry.                                        *)
LEMMA TailMoves ==
  ASSUME m_head \in Slots, m_size \in 0..(BUFFERSIZE - 1), m_tail = (m_head + m_size) % BUFFERSIZE
  PROVE  /\ (m_tail + 1) % BUFFERSIZE = (m_head + (m_size + 1)) % BUFFERSIZE
         /\ (m_tail + 1) % BUFFERSIZE \in Slots
  BY SizeAssumption, RemainderTwice

(* A sequence that is another one with one more element.                   *)
LEMMA IsAppend ==
  ASSUME NEW S, NEW s \in Seq(S), NEW t \in Seq(S), NEW e, Len(t) = Len(s) + 1,
         \A i \in 1..Len(s) : t[i] = s[i], t[Len(s) + 1] = e
  PROVE  t = Append(s, e)
<1>1. t[Len(t)] \in S /\ e \in S
  OBVIOUS
<1>2. Append(s, e) \in Seq(S) /\ Len(Append(s, e)) = Len(t)
  BY <1>1
<1>3. \A i \in 1..Len(t) : Append(s, e)[i] = t[i]
  OBVIOUS
<1> QED
  BY <1>2, <1>3

(* The entries of the log, in this state and in the next.                  *)
LogHolds ==
  /\ Entries \in Seq(Record) /\ Len(Entries) = m_size /\ m_size \in 0..BUFFERSIZE
  /\ \A i \in 1..m_size :
       Entries[i] = IF SlotOf(i) = slot THEN entry ELSE buf[SlotOf(i)]

LEMMA EntriesOfLog == Ring => LogHolds
<1> SUFFICES ASSUME Ring PROVE LogHolds
  OBVIOUS
<1>1. m_size \in Nat /\ BUFFERSIZE \in Nat \ {0} /\ m_size \in 0..BUFFERSIZE
  BY SizeAssumption DEF Ring, BufferTypeOK
<1>2. \A i \in 1..m_size : Entries[i] = IF SlotOf(i) = slot THEN entry ELSE buf[SlotOf(i)]
  BY DEF Entries, EntryAt, SlotOf
<1>3. ASSUME NEW i \in 1..m_size PROVE EntryAt(i) \in Record
  <2>1. CASE SlotOf(i) = slot
    <3>1. slot # None
      BY <1>1, <2>1, SlotsOfLog, SizeAssumption DEF Ring, BufferTypeOK, Slots
    <3> QED
      BY <2>1, <3>1 DEF Ring, BufferTypeOK, EntryAt, SlotOf
  <2>2. CASE SlotOf(i) # slot
    BY <2>2 DEF Ring, EntryAt, SlotOf
  <2> QED BY <2>1, <2>2
<1>4. Entries \in Seq(Record) /\ Len(Entries) = m_size
  BY <1>1, <1>3 DEF Entries
<1> QED
  BY <1>1, <1>2, <1>4 DEF LogHolds

LEMMA EntriesOfNext == Ring' => LogHolds'
  BY EntriesOfLog, PTL

(* A handler's entry joins the log.                                        *)
LEMMA HandlerJoins ==
  ASSUME Ring, NEW e \in Record, Reserve, buf' = [buf EXCEPT ![m_tail] = e],
         UNCHANGED <<m_head, m_state, local>>
  PROVE  Ring' /\ Entries' = Append(Entries, e) /\ Len(Entries) < BUFFERSIZE
<1>1. /\ BufferTypeOK /\ m_size < BUFFERSIZE /\ m_size' = m_size + 1
      /\ m_tail' = (m_tail + 1) % BUFFERSIZE /\ m_head' = m_head
      /\ slot' = slot /\ entry' = entry /\ to_write' = to_write /\ m_state' = m_state
      /\ BUFFERSIZE \in Nat \ {0}
  BY SizeAssumption DEF Ring, Reserve, HasRoom, local
<1>2. /\ \A i \in 1..BUFFERSIZE : SlotOf(i) \in Slots /\ SlotOf(i)' = SlotOf(i)
      /\ \A i, j \in 1..BUFFERSIZE : SlotOf(i) = SlotOf(j) => i = j
      /\ m_tail = SlotOf(m_size + 1)
  BY <1>1, SlotsOfLog DEF Ring, BufferTypeOK, SlotOf
<1>3. m_tail' = (m_head' + m_size') % BUFFERSIZE /\ m_tail' \in Slots
  BY <1>1, TailMoves DEF Ring, BufferTypeOK
<1>4. /\ \A i \in 1..m_size : buf'[SlotOf(i)] = buf[SlotOf(i)] /\ SlotOf(i) # m_tail
      /\ buf'[m_tail] = e
  BY <1>1, <1>2 DEF BufferTypeOK
<1>5. slot # m_tail
  BY <1>1, <1>2, SizeAssumption DEF Ring, BufferTypeOK, Slots
<1>6. BufferTypeOK'
  BY <1>1, <1>3 DEF BufferTypeOK
<1>7. slot' # None => \E i \in 1..m_size' : slot' = SlotOf(i)'
  BY <1>1, <1>2 DEF Ring, BufferTypeOK
<1>8. \A i \in 1..m_size' : SlotOf(i)' # slot' => buf'[SlotOf(i)'] \in Record
  BY <1>1, <1>2, <1>4 DEF Ring, BufferTypeOK
<1>9. Ring'
  BY <1>1, <1>3, <1>6, <1>7, <1>8 DEF Ring
<1>10. Entries' = Append(Entries, e)
  <2>1. /\ Entries \in Seq(Record) /\ Len(Entries) = m_size
        /\ Entries' \in Seq(Record) /\ Len(Entries') = m_size + 1
        /\ \A i \in 1..m_size : Entries[i] = IF SlotOf(i) = slot THEN entry ELSE buf[SlotOf(i)]
        /\ \A i \in 1..(m_size + 1) :
             Entries'[i] = IF SlotOf(i)' = slot' THEN entry' ELSE buf'[SlotOf(i)']
    BY <1>1, <1>9, EntriesOfLog, EntriesOfNext DEF LogHolds
  <2>2. \A i \in 1..m_size : Entries'[i] = Entries[i]
    BY <1>1, <1>2, <1>4, <2>1 DEF BufferTypeOK
  <2>3. Entries'[m_size + 1] = e
    BY <1>1, <1>2, <1>4, <1>5, <2>1 DEF BufferTypeOK
  <2> QED
    BY <1>1, <2>1, <2>2, <2>3, IsAppend DEF BufferTypeOK
<1> QED
  BY <1>1, <1>9, <1>10, EntriesOfLog DEF LogHolds

(* An entry of the main program joins the log with its slot.               *)
LEMMA ClaimJoins ==
  ASSUME Ring, slot = None, NEW e \in Record, NEW p \in BOOLEAN, Claim(e, p),
         UNCHANGED <<buf, m_head, m_state>>
  PROVE  Ring' /\ Entries' = Append(Entries, e) /\ Len(Entries) < BUFFERSIZE
<1>1. /\ BufferTypeOK /\ m_size < BUFFERSIZE /\ m_size' = m_size + 1
      /\ m_tail' = (m_tail + 1) % BUFFERSIZE /\ m_head' = m_head /\ buf' = buf
      /\ slot' = m_tail /\ entry' = e /\ to_write' = p /\ m_state' = m_state
      /\ BUFFERSIZE \in Nat \ {0} /\ e # None
  BY SizeAssumption DEF Ring, Claim, Reserve, HasRoom
<1>2. /\ \A i \in 1..BUFFERSIZE : SlotOf(i) \in Slots /\ SlotOf(i)' = SlotOf(i)
      /\ \A i, j \in 1..BUFFERSIZE : SlotOf(i) = SlotOf(j) => i = j
      /\ m_tail = SlotOf(m_size + 1)
  BY <1>1, SlotsOfLog DEF Ring, BufferTypeOK, SlotOf
<1>3. m_tail' = (m_head' + m_size') % BUFFERSIZE /\ m_tail' \in Slots
  BY <1>1, TailMoves DEF Ring, BufferTypeOK
<1>4. \A i \in 1..m_size : SlotOf(i) # m_tail /\ SlotOf(i) # None
  BY <1>1, <1>2, SizeAssumption DEF BufferTypeOK, Slots
<1>5. BufferTypeOK' /\ slot' # None
  BY <1>1, <1>3, SizeAssumption DEF BufferTypeOK, Slots
<1>6. \E i \in 1..m_size' : slot' = SlotOf(i)'
  BY <1>1, <1>2 DEF BufferTypeOK
<1>7. \A i \in 1..m_size' : SlotOf(i)' # slot' => buf'[SlotOf(i)'] \in Record
  BY <1>1, <1>2, <1>4 DEF Ring, BufferTypeOK
<1>8. Ring'
  BY <1>1, <1>3, <1>5, <1>6, <1>7 DEF Ring
<1>9. /\ Entries \in Seq(Record) /\ Len(Entries) = m_size
      /\ Entries' \in Seq(Record) /\ Len(Entries') = m_size + 1
      /\ \A i \in 1..m_size : Entries[i] = IF SlotOf(i) = slot THEN entry ELSE buf[SlotOf(i)]
      /\ \A i \in 1..(m_size + 1) :
           Entries'[i] = IF SlotOf(i)' = slot' THEN entry' ELSE buf'[SlotOf(i)']
  BY <1>1, <1>8, EntriesOfLog, EntriesOfNext DEF LogHolds
<1>10. \A i \in 1..m_size : Entries'[i] = Entries[i]
  BY <1>1, <1>2, <1>4, <1>9 DEF BufferTypeOK
<1>11. Entries'[m_size + 1] = e
  BY <1>1, <1>2, <1>9 DEF BufferTypeOK
<1> QED
  BY <1>1, <1>8, <1>9, <1>10, <1>11, IsAppend DEF BufferTypeOK

(* Filling the slot changes nothing that the log holds.                    *)
LEMMA FillKeeps ==
  ASSUME Ring, Fill, UNCHANGED <<m_head, m_tail, m_size, m_state>>
  PROVE  Ring' /\ Entries' = Entries /\ slot' = None /\ ~to_write'
<1>1. /\ BufferTypeOK /\ slot # None /\ buf' = [buf EXCEPT ![slot] = entry]
      /\ slot' = None /\ entry' = None /\ to_write' = FALSE
      /\ m_head' = m_head /\ m_tail' = m_tail /\ m_size' = m_size /\ m_state' = m_state
      /\ BUFFERSIZE \in Nat \ {0} /\ entry \in Record /\ slot \in Slots
  BY SizeAssumption DEF Ring, Fill, BufferTypeOK
<1>2. \A i \in 1..BUFFERSIZE : SlotOf(i) \in Slots /\ SlotOf(i)' = SlotOf(i) /\ SlotOf(i) # None
  BY <1>1, SlotsOfLog, SizeAssumption DEF BufferTypeOK, SlotOf, Slots
<1>3. BufferTypeOK'
  BY <1>1 DEF BufferTypeOK
<1>4. \A i \in 1..m_size : buf'[SlotOf(i)] = IF SlotOf(i) = slot THEN entry ELSE buf[SlotOf(i)]
  BY <1>1, <1>2 DEF BufferTypeOK
<1>5. Ring'
  BY <1>1, <1>2, <1>3, <1>4 DEF Ring, BufferTypeOK
<1>6. /\ Entries \in Seq(Record) /\ Len(Entries) = m_size
      /\ Entries' \in Seq(Record) /\ Len(Entries') = m_size
      /\ \A i \in 1..m_size : Entries[i] = IF SlotOf(i) = slot THEN entry ELSE buf[SlotOf(i)]
      /\ \A i \in 1..m_size :
           Entries'[i] = IF SlotOf(i)' = slot' THEN entry' ELSE buf'[SlotOf(i)']
  BY <1>1, <1>5, EntriesOfLog, EntriesOfNext DEF LogHolds
<1>7. \A i \in 1..m_size : Entries'[i] = Entries[i]
  BY <1>1, <1>2, <1>4, <1>6 DEF BufferTypeOK
<1>8. Entries' = Entries
  BY <1>6, <1>7
<1> QED
  BY <1>1, <1>5, <1>8

(* The oldest entries leave the log.                                       *)
LEMMA ReleaseLeaves ==
  ASSUME Ring, slot = None, NEW k \in 1..m_size, Release(k),
         UNCHANGED <<buf, m_tail, m_state, local>>
  PROVE  Ring' /\ Entries' = SubSeq(Entries, k + 1, Len(Entries)) /\ m_size' = m_size - k
<1>1. /\ BufferTypeOK /\ m_size' = m_size - k /\ m_head' = (m_head + k) % BUFFERSIZE
      /\ slot' = None /\ entry' = entry /\ to_write' = to_write
      /\ m_tail' = m_tail /\ buf' = buf /\ m_state' = m_state
      /\ BUFFERSIZE \in Nat \ {0} /\ m_size' \in 0..BUFFERSIZE /\ k \in 1..BUFFERSIZE
  BY SizeAssumption DEF Ring, Release, BufferTypeOK, local
<1>2. m_head' \in Slots
  <2>1. k \in Nat /\ 0 \in Nat /\ k + 0 <= BUFFERSIZE /\ k + 0 = k
    BY <1>1
  <2>2. m_head \in Slots
    BY <1>1 DEF BufferTypeOK
  <2>3. (m_head + (k + 0)) % BUFFERSIZE \in Slots
    BY ONLY <2>1, <2>2, RemainderTwice
  <2> QED
    BY <1>1, <2>1, <2>3
<1>3. \A i \in 1..m_size' : i + k \in 1..m_size /\ SlotOf(i)' = SlotOf(i + k)
  <2> SUFFICES ASSUME NEW i \in 1..m_size' PROVE i + k \in 1..m_size /\ SlotOf(i)' = SlotOf(i + k)
    OBVIOUS
  <2>1. i + k \in 1..m_size /\ i - 1 \in Nat /\ k + (i - 1) <= BUFFERSIZE
    BY <1>1 DEF BufferTypeOK
  <2>2. (((m_head + k) % BUFFERSIZE) + (i - 1)) % BUFFERSIZE = (m_head + (k + (i - 1))) % BUFFERSIZE
    BY <1>1, <2>1, RemainderTwice DEF BufferTypeOK
  <2>3. m_head' + i - 1 = ((m_head + k) % BUFFERSIZE) + (i - 1) /\ m_head + (i + k) - 1 = m_head + (k + (i - 1))
    BY <1>1, <1>2 DEF BufferTypeOK, Slots
  <2> QED
    BY <2>1, <2>2, <2>3 DEF SlotOf
<1>4. m_tail' = (m_head' + m_size') % BUFFERSIZE
  <2> DEFINE rest == m_size - k
  <2>1. k + rest = m_size /\ k + rest <= BUFFERSIZE /\ rest \in Nat /\ k \in Nat /\ m_head \in Slots
    BY <1>1 DEF BufferTypeOK
  <2>2. m_size' = rest
    BY <1>1
  <2> HIDE DEF rest
  <2>3. (((m_head + k) % BUFFERSIZE) + rest) % BUFFERSIZE = (m_head + (k + rest)) % BUFFERSIZE
    BY ONLY <2>1, RemainderTwice
  <2> QED
    BY <1>1, <2>1, <2>2, <2>3 DEF Ring
<1>5. BufferTypeOK'
  BY <1>1, <1>2 DEF BufferTypeOK
<1>6. Ring'
  BY <1>1, <1>3, <1>4, <1>5 DEF Ring
<1>7. /\ Entries \in Seq(Record) /\ Len(Entries) = m_size
      /\ Entries' \in Seq(Record) /\ Len(Entries') = m_size - k
      /\ \A i \in 1..m_size : Entries[i] = IF SlotOf(i) = slot THEN entry ELSE buf[SlotOf(i)]
      /\ \A i \in 1..m_size' :
           Entries'[i] = IF SlotOf(i)' = slot' THEN entry' ELSE buf'[SlotOf(i)']
  BY <1>1, <1>6, EntriesOfLog, EntriesOfNext DEF LogHolds
<1>8. \A i \in 1..(m_size - k) : Entries'[i] = Entries[i + k]
  BY <1>1, <1>3, <1>7 DEF Ring
<1>9. Entries' = SubSeq(Entries, k + 1, Len(Entries))
  BY <1>1, <1>7, <1>8 DEF BufferTypeOK
<1> QED
  BY <1>1, <1>6, <1>9

(* The ring does not change.                                               *)
LEMMA RingStays ==
  ASSUME Ring, UNCHANGED <<ring, local>>, m_state' \in {"S_STOPPED", "S_STARTED"}
  PROVE  Ring' /\ Entries' = Entries /\ m_size' = m_size
<1>1. /\ m_head' = m_head /\ m_tail' = m_tail /\ m_size' = m_size /\ buf' = buf
      /\ slot' = slot /\ entry' = entry /\ to_write' = to_write
  BY DEF ring, local
<1>2. BufferTypeOK'
  BY <1>1 DEF Ring, BufferTypeOK
<1> QED
  BY <1>1, <1>2 DEF Ring, Entries, EntryAt, SlotOf

------------------------------------------------------------------------------
(* The logger that compresses blocks.                                      *)

Tasks == {"encode", "paint", "write"}

(* OneHand, hand by hand.                                                  *)
Apart ==
  /\ m_size >= CBLOCKSIZE <=>
       compressing \/ pc \in Tasks \/ port = "busy" \/ pc = "repost" \/ to_write
  /\ compressing => pc = "code" /\ port = "idle" /\ ~to_write
  /\ pc # "code" => port = "idle" /\ ~to_write
  /\ port = "busy" => ~to_write

(* What was read of the log is still its oldest block.                     *)
BlockIsRead ==
  /\ CBLOCKSIZE <= m_size /\ bits \in [1..CBLOCKSIZE -> Record]
  /\ \A i \in 1..CBLOCKSIZE : bits[i] = Entries[i]

(* The head is at the beginning of a block.                                *)
CompressedInv ==
  /\ TypeOK /\ Ring /\ Apart
  /\ m_head % CBLOCKSIZE = 0
  /\ pc \in {"paint", "write"} \/ port = "busy" => BlockIsRead

LEMMA HandsApart == TypeOK => (OneHand <=> Apart)
<1> SUFFICES ASSUME TypeOK PROVE OneHand <=> Apart
  OBVIOUS
<1>1. /\ "posted" \in Hands <=> compressing
      /\ "task" \in Hands <=> pc \in Tasks
      /\ "port" \in Hands <=> port = "busy"
      /\ "poster" \in Hands <=> pc = "repost"
      /\ "recorder" \in Hands <=> to_write
      /\ Hands \subseteq {"posted", "task", "port", "poster", "recorder"}
  BY DEF Hands, Tasks
<1>2. Hands # {} <=> compressing \/ pc \in Tasks \/ port = "busy" \/ pc = "repost" \/ to_write
  BY <1>1
<1>3. (\A g, h \in Hands : g = h) <=>
        /\ compressing => pc = "code" /\ port = "idle" /\ ~to_write
        /\ pc # "code" => port = "idle" /\ ~to_write
        /\ port = "busy" => ~to_write
  BY <1>1 DEF TypeOK, Tasks
<1> QED
  BY <1>2, <1>3 DEF OneHand, Apart

(* A block never goes past the end of the buffer.                          *)
LEMMA BlocksAreAligned ==
  ASSUME m_head \in Slots, m_head % CBLOCKSIZE = 0
  PROVE  /\ CBLOCKSIZE \in 1..BUFFERSIZE
         /\ m_head + CBLOCKSIZE <= BUFFERSIZE
         /\ ((m_head + CBLOCKSIZE) % BUFFERSIZE) % CBLOCKSIZE = 0
<1> DEFINE B == BUFFERSIZE
           C == CBLOCKSIZE
           h == m_head
<1>1. B \in Nat \ {0} /\ C \in Nat \ {0} /\ B % C = 0 /\ h \in Nat /\ h < B /\ h % C = 0
  BY SizeAssumption, BlockAssumption DEF Slots
<1> HIDE DEF B, C, h
<1>2. \A a \in Nat : a % C = 0 => \E q \in Nat : a = q * C
  BY <1>1, SMT
<1>3. PICK k \in Nat : h = k * C
  BY <1>1, <1>2
<1>4. PICK q \in Nat : B = q * C
  BY <1>1, <1>2
<1>5. k < q
  BY <1>1, <1>3, <1>4, SMT
<1>6. (k + 1) * C <= q * C
  <2>1. k + 1 <= q
    BY <1>5
  <2> QED
    BY <1>1, <2>1, SMT
<1>7. (k + 1) * C = h + C
  BY <1>1, <1>3, SMT
<1>8. h + C <= B
  BY <1>4, <1>6, <1>7
<1>9. (h + C) % C = 0
  <2>1. ((k + 1) * C) % C = 0
    BY <1>1, SMT
  <2> QED
    BY <1>7, <2>1
<1>10. (h + C) % B = IF h + C < B THEN h + C ELSE 0
  <2> DEFINE a == h + C
  <2>1. a \in 0..(2 * BUFFERSIZE - 1) /\ a <= B
    BY <1>1, <1>8 DEF B
  <2> HIDE DEF a
  <2>2. a % BUFFERSIZE = IF a < BUFFERSIZE THEN a ELSE a - BUFFERSIZE
    BY <2>1, RemainderOnce
  <2>3. a % B = IF a < B THEN a ELSE 0
    BY <1>1, <2>1, <2>2 DEF B
  <2> QED
    BY <2>3 DEF a
<1>11. 0 % C = 0
  BY <1>1, SMT
<1> QED
  BY <1>1, <1>8, <1>9, <1>10, <1>11 DEF B, C, h

(* What a step of a logger does to its queue and to what the port sends    *)
(* (out, and next after the step), as BlockLog has it.                     *)
Becomes(block, out, next) ==
  \/ /\ \E e \in Record : Entries' = Append(Entries, e)
     /\ Len(Entries) < BUFFERSIZE /\ next = out
  \/ /\ out = << >> /\ Len(Entries) >= block
     /\ next = SubSeq(Entries, 1, block) /\ Entries' = Entries
  \/ /\ out # << >> /\ next = << >>
     /\ Entries' = SubSeq(Entries, block + 1, Len(Entries))
  \/ Entries' = Entries /\ next = out

LEMMA BlockGrows ==
  ASSUME Ring, BlockIsRead, NEW e \in Record, Entries' = Append(Entries, e), Ring',
         bits' = bits, m_size' = m_size + 1
  PROVE  BlockIsRead'
<1>1. /\ Entries \in Seq(Record) /\ Len(Entries) = m_size /\ m_size \in Nat
      /\ CBLOCKSIZE \in Nat
  BY EntriesOfLog, SizeAssumption, BlockAssumption DEF LogHolds
<1>2. \A i \in 1..CBLOCKSIZE : Entries'[i] = Entries[i]
  BY <1>1 DEF BlockIsRead
<1> QED
  BY <1>1, <1>2 DEF BlockIsRead

LEMMA CompressedHandler ==
  ASSUME CompressedInv, NEW e \in Record, HandlerRecords(e)
  PROVE  CompressedInv' /\ Becomes(CBLOCKSIZE, Out, Out')
<1>1. /\ Reserve /\ buf' = [buf EXCEPT ![m_tail] = e]
      /\ compressing' = (compressing \/ FillsBlock)
      /\ UNCHANGED <<m_head, m_state, pc, local, bits, port>> /\ m_size' = m_size + 1
  BY DEF HandlerRecords, Reserve
<1>2. Ring' /\ Entries' = Append(Entries, e) /\ Len(Entries) < BUFFERSIZE
  BY <1>1, HandlerJoins DEF CompressedInv
<1>3. m_size \in Nat /\ CBLOCKSIZE \in Nat \ {0}
  BY BlockAssumption, SizeAssumption DEF CompressedInv, Ring, BufferTypeOK
<1>4. TypeOK'
  BY <1>1, <1>2 DEF CompressedInv, TypeOK, FillsBlock, Ring
<1>5. Apart'
  <2>1. (m_size' >= CBLOCKSIZE <=> m_size >= CBLOCKSIZE \/ FillsBlock) /\ (FillsBlock => ~(m_size >= CBLOCKSIZE))
    BY <1>1, <1>3 DEF FillsBlock
  <2>2. pc' = pc /\ port' = port /\ to_write' = to_write /\ compressing' = (compressing \/ FillsBlock)
    BY <1>1 DEF local
  <2>3. FillsBlock => pc = "code" /\ port = "idle" /\ ~to_write
    BY <2>1 DEF CompressedInv, Apart, TypeOK, Tasks
  <2>4. Apart
    BY DEF CompressedInv
  <2>5. CASE FillsBlock
    BY <2>1, <2>2, <2>3, <2>5 DEF Apart, Tasks
  <2>6. CASE ~FillsBlock
    BY <2>1, <2>2, <2>4, <2>6, Zenon DEF Apart
  <2> QED BY <2>5, <2>6
<1>6. pc' \in {"paint", "write"} \/ port' = "busy" => BlockIsRead'
  BY <1>1, <1>2, BlockGrows DEF CompressedInv
<1>7. m_head' % CBLOCKSIZE = 0
  BY <1>1 DEF CompressedInv
<1>8. Out' = Out
  BY <1>1 DEF Out
<1> QED
  BY <1>2, <1>4, <1>5, <1>6, <1>7, <1>8 DEF CompressedInv, Becomes

(* A recordChange of the main program reserves its slot.                   *)
LEMMA CompressedClaims ==
  ASSUME CompressedInv, NEW e \in Record, Ready, Claim(e, FillsBlock),
         UNCHANGED <<buf, m_head, m_state, compressing, bits, port>>,
         \/ pc = "code" /\ pc' = "code"
         \/ pc = "paint" /\ pc' = "write"
  PROVE  CompressedInv' /\ Becomes(CBLOCKSIZE, Out, Out')
<1>1. slot = None /\ m_size' = m_size + 1 /\ slot' = m_tail /\ to_write' = FillsBlock
      /\ FillsBlock \in BOOLEAN
  BY DEF Ready, Claim, Reserve, FillsBlock
<1>2. Ring' /\ Entries' = Append(Entries, e) /\ Len(Entries) < BUFFERSIZE
  BY <1>1, ClaimJoins DEF CompressedInv
<1>3. m_size \in Nat /\ CBLOCKSIZE \in Nat \ {0} /\ ~to_write
  BY <1>1, BlockAssumption, SizeAssumption DEF CompressedInv, Ring, BufferTypeOK
<1>4. TypeOK'
  BY <1>2 DEF CompressedInv, TypeOK, Ring
<1>5. Apart'
  <2>1. (m_size' >= CBLOCKSIZE <=> m_size >= CBLOCKSIZE \/ FillsBlock) /\ (FillsBlock => ~(m_size >= CBLOCKSIZE))
    BY <1>1, <1>3 DEF FillsBlock
  <2>2. CASE pc = "code" /\ pc' = "code"
    BY <1>1, <1>3, <2>1, <2>2 DEF CompressedInv, Apart, Tasks
  <2>3. CASE pc = "paint" /\ pc' = "write"
    BY <1>1, <1>3, <2>1, <2>3 DEF CompressedInv, Apart, Tasks
  <2> QED BY <2>2, <2>3
<1>6. pc' \in {"paint", "write"} \/ port' = "busy" => BlockIsRead'
  BY <1>1, <1>2, BlockGrows DEF CompressedInv
<1>7. m_head' % CBLOCKSIZE = 0 /\ Out' = Out
  BY DEF CompressedInv, Out
<1> QED
  BY <1>2, <1>4, <1>5, <1>6, <1>7 DEF CompressedInv, Becomes

LEMMA CompressedFills ==
  ASSUME CompressedInv, TaskFills
  PROVE  CompressedInv' /\ Becomes(CBLOCKSIZE, Out, Out')
<1>1. /\ Fill /\ compressing' = (compressing \/ to_write)
      /\ UNCHANGED <<m_head, m_tail, m_size, m_state, pc, bits, port>>
  BY DEF TaskFills
<1>2. Ring' /\ Entries' = Entries /\ ~to_write'
  BY <1>1, FillKeeps DEF CompressedInv
<1>3. TypeOK'
  BY <1>1, <1>2 DEF CompressedInv, TypeOK, BufferTypeOK, Ring
<1>4. Apart'
  BY <1>1, <1>2 DEF CompressedInv, Apart, TypeOK, BufferTypeOK
<1>5. (pc' \in {"paint", "write"} \/ port' = "busy" => BlockIsRead') /\ m_head' % CBLOCKSIZE = 0
  BY <1>1, <1>2 DEF CompressedInv, BlockIsRead
<1>6. Out' = Out
  BY <1>1 DEF Out
<1> QED
  BY <1>2, <1>3, <1>4, <1>5, <1>6 DEF CompressedInv, Becomes

(* The steps of CompressTask, of the port and of the poster.               *)
LEMMA CompressedMoves ==
  ASSUME CompressedInv, StartDone \/ CompressStarts \/ CompressWrites \/ Repost
  PROVE  CompressedInv' /\ Becomes(CBLOCKSIZE, Out, Out')
<1>1. UNCHANGED <<ring, local, bits>> /\ m_state' \in {"S_STOPPED", "S_STARTED"}
      /\ to_write' = to_write /\ m_head' = m_head
  BY DEF StartDone, CompressStarts, CompressWrites, Repost, CompressedInv, Ring, BufferTypeOK,
         ring, local
<1>2. Ring' /\ Entries' = Entries /\ m_size' = m_size
  BY <1>1, RingStays DEF CompressedInv
<1>3. TypeOK'
  BY <1>1, <1>2 DEF StartDone, CompressStarts, CompressWrites, Repost, CompressedInv, TypeOK, Ring
<1>4. slot = None => ~to_write
  BY DEF CompressedInv, Ring
<1>5. Apart'
  BY <1>1, <1>2, <1>4 DEF StartDone, CompressStarts, CompressWrites, Repost, Ready, CompressedInv,
     Apart, Tasks, TypeOK, BufferTypeOK
<1>6. pc' \in {"paint", "write"} \/ port' = "busy" => BlockIsRead'
  BY <1>1, <1>2 DEF StartDone, CompressStarts, CompressWrites, Repost, CompressedInv, BlockIsRead
<1>7. Becomes(CBLOCKSIZE, Out, Out')
  <2>1. CASE CompressWrites
    <3>1. pc = "write" /\ port = "idle" /\ port' = "busy" /\ bits' = bits
      BY <1>1, <2>1 DEF CompressWrites, CompressedInv, Apart
    <3>2. /\ Entries \in Seq(Record) /\ Len(Entries) = m_size /\ m_size \in Nat
          /\ CBLOCKSIZE \in Nat \ {0} /\ BlockIsRead
      BY <3>1, EntriesOfLog, BlockAssumption, SizeAssumption DEF LogHolds, CompressedInv
    <3>3. bits = SubSeq(Entries, 1, CBLOCKSIZE) /\ Len(Entries) >= CBLOCKSIZE
      BY <3>2 DEF BlockIsRead
    <3> QED
      BY <1>2, <3>1, <3>3 DEF Becomes, Out
  <2>2. CASE StartDone \/ CompressStarts \/ Repost
    BY <1>2, <2>2 DEF StartDone, CompressStarts, Repost, Becomes, Out
  <2> QED BY <2>1, <2>2
<1> QED
  BY <1>1, <1>2, <1>3, <1>5, <1>6, <1>7 DEF CompressedInv

(* The block is read although the task does not look at the buffer's end.  *)
LEMMA CompressedEncodes ==
  ASSUME CompressedInv, CompressEncodes
  PROVE  CompressedInv' /\ Becomes(CBLOCKSIZE, Out, Out')
<1>1. /\ slot = None /\ pc = "encode" /\ pc' = "paint"
      /\ bits' = [i \in 1..CBLOCKSIZE |-> buf[m_head + i - 1]]
      /\ UNCHANGED <<ring, local>> /\ UNCHANGED <<m_state, compressing, port, m_head, to_write>>
  BY DEF CompressEncodes, Ready, ring, local
<1>2. Ring' /\ Entries' = Entries /\ m_size' = m_size
  BY <1>1, RingStays DEF CompressedInv, Ring, BufferTypeOK
<1>3. /\ Entries \in Seq(Record) /\ Len(Entries) = m_size /\ m_size \in 0..BUFFERSIZE
      /\ \A i \in 1..m_size : Entries[i] = IF SlotOf(i) = slot THEN entry ELSE buf[SlotOf(i)]
      /\ m_head \in Slots /\ BUFFERSIZE \in Nat \ {0}
  BY EntriesOfLog, SizeAssumption DEF LogHolds, CompressedInv, Ring, BufferTypeOK
<1>4. CBLOCKSIZE \in 1..BUFFERSIZE /\ m_head + CBLOCKSIZE <= BUFFERSIZE /\ CBLOCKSIZE <= m_size
  BY <1>1, <1>3, BlocksAreAligned DEF CompressedInv, Apart, Tasks
<1>5. ASSUME NEW i \in 1..CBLOCKSIZE PROVE bits'[i] = Entries[i] /\ Entries[i] \in Record
  <2> DEFINE a == m_head + i - 1
  <2>1. a \in 0..(2 * BUFFERSIZE - 1) /\ a < BUFFERSIZE /\ i \in 1..m_size /\ i \in 1..BUFFERSIZE
    BY <1>3, <1>4 DEF Slots
  <2>2. SlotOf(i) = a % BUFFERSIZE /\ bits'[i] = buf[a]
    BY <1>1 DEF SlotOf
  <2> HIDE DEF a
  <2>3. SlotOf(i) = a
    BY <2>1, <2>2, RemainderOnce
  <2>4. SlotOf(i) # slot
    BY <1>1, <1>3, <2>1, SlotsOfLog, SizeAssumption DEF Slots
  <2> QED
    BY <1>3, <2>1, <2>2, <2>3, <2>4
<1>6. BlockIsRead'
  BY <1>1, <1>2, <1>4, <1>5 DEF BlockIsRead
<1>7. TypeOK' /\ Apart'
  BY <1>1, <1>2, <1>6 DEF CompressedInv, TypeOK, Ring, BlockIsRead, Apart, Tasks
<1>8. Out' = Out
  BY <1>1 DEF Out, CompressedInv, Apart
<1> QED
  BY <1>1, <1>2, <1>6, <1>7, <1>8 DEF CompressedInv, Becomes

LEMMA CompressedPaints ==
  ASSUME CompressedInv, CompressPaints
  PROVE  CompressedInv' /\ Becomes(CBLOCKSIZE, Out, Out')
<1>1. CASE \E e \in Record : Claim(e, FillsBlock) /\ UNCHANGED <<buf, m_head>>
  <2>1. PICK e \in Record : Claim(e, FillsBlock)
    BY <1>1
  <2> QED
    BY <1>1, <2>1, CompressedClaims DEF CompressPaints
<1>2. CASE UNCHANGED <<ring, local>>
  <2>1. /\ pc = "paint" /\ pc' = "write" /\ to_write' = to_write /\ m_head' = m_head
        /\ UNCHANGED <<m_state, compressing, bits, port>>
    BY <1>2 DEF CompressPaints, ring, local
  <2>2. Ring' /\ Entries' = Entries /\ m_size' = m_size
    BY <1>2, <2>1, RingStays DEF CompressedInv, Ring, BufferTypeOK
  <2> QED
    BY <2>1, <2>2 DEF CompressedInv, TypeOK, Ring, Apart, Tasks, BlockIsRead, Becomes, Out
<1> QED BY <1>1, <1>2 DEF CompressPaints

LEMMA CompressedDone ==
  ASSUME CompressedInv, WriteDone
  PROVE  CompressedInv' /\ Becomes(CBLOCKSIZE, Out, Out')
<1>1. /\ slot = None /\ pc = "code" /\ port = "busy" /\ port' = "idle"
      /\ Release(CBLOCKSIZE) /\ m_head' = (m_head + CBLOCKSIZE) % BUFFERSIZE
      /\ pc' = IF m_size' >= CBLOCKSIZE THEN "repost" ELSE "code"
      /\ UNCHANGED <<buf, m_tail, m_state, local>> /\ UNCHANGED <<compressing, bits, to_write>>
  BY DEF WriteDone, Ready, Release, BlockWaits, local
<1>2. /\ Entries \in Seq(Record) /\ Len(Entries) = m_size /\ m_size \in Nat
      /\ CBLOCKSIZE \in Nat \ {0} /\ BlockIsRead /\ CBLOCKSIZE \in 1..m_size
  BY <1>1, EntriesOfLog, BlockAssumption, SizeAssumption
     DEF LogHolds, CompressedInv, BlockIsRead
<1>3. Ring' /\ Entries' = SubSeq(Entries, CBLOCKSIZE + 1, Len(Entries)) /\ m_size' = m_size - CBLOCKSIZE
  BY <1>1, <1>2, ReleaseLeaves DEF CompressedInv
<1>4. m_head' % CBLOCKSIZE = 0
  BY <1>1, BlocksAreAligned DEF CompressedInv, Ring, BufferTypeOK
<1>5. TypeOK'
  BY <1>1, <1>3 DEF CompressedInv, TypeOK, Ring
<1>6. Apart'
  BY <1>1, <1>2, <1>3 DEF CompressedInv, TypeOK, Apart, Tasks
<1>7. Out = bits /\ Out' = << >> /\ bits # << >>
  BY <1>1, <1>2 DEF Out, BlockIsRead
<1> QED
  BY <1>1, <1>3, <1>4, <1>5, <1>6, <1>7 DEF CompressedInv, Becomes

LEMMA CompressedStep ==
  ASSUME CompressedInv, Next
  PROVE  CompressedInv' /\ Becomes(CBLOCKSIZE, Out, Out')
<1>1. ASSUME NEW e \in Record, HandlerRecords(e) PROVE CompressedInv' /\ Becomes(CBLOCKSIZE, Out, Out')
  BY <1>1, CompressedHandler
<1>2. ASSUME NEW e \in Record, TaskReserves(e) PROVE CompressedInv' /\ Becomes(CBLOCKSIZE, Out, Out')
  BY <1>2, CompressedClaims DEF TaskReserves
<1>3. CASE TaskFills
  BY <1>3, CompressedFills
<1>4. CASE StartDone \/ CompressStarts \/ CompressWrites \/ Repost
  BY <1>4, CompressedMoves
<1>5. CASE CompressEncodes
  BY <1>5, CompressedEncodes
<1>6. CASE CompressPaints
  BY <1>6, CompressedPaints
<1>7. CASE WriteDone
  BY <1>7, CompressedDone
<1> QED BY <1>1, <1>2, <1>3, <1>4, <1>5, <1>6, <1>7 DEF Next
LEMMA CompressedInit == Init => CompressedInv /\ Entries = << >> /\ Out = << >>
<1> SUFFICES ASSUME Init PROVE CompressedInv /\ Entries = << >> /\ Out = << >>
  OBVIOUS
<1>1. BUFFERSIZE \in Nat \ {0} /\ CBLOCKSIZE \in Nat \ {0}
  BY SizeAssumption, BlockAssumption
<1>2. /\ m_head = 0 /\ m_tail = 0 /\ m_size = 0 /\ slot = None /\ entry = None /\ to_write = FALSE
      /\ buf = [s \in Slots |-> None] /\ m_state = "S_STOPPED"
      /\ compressing = FALSE /\ pc = "code" /\ bits = << >> /\ port = "idle"
  BY DEF Init, BufferInit
<1>3. 0 \in Slots /\ (0 + 0) % BUFFERSIZE = 0 /\ 0 % CBLOCKSIZE = 0
  BY <1>1 DEF Slots
<1>4. BufferTypeOK
  BY <1>1, <1>2, <1>3 DEF BufferTypeOK
<1>5. Ring /\ Entries = << >>
  BY <1>2, <1>3, <1>4 DEF Ring, Entries
<1> QED
  BY <1>1, <1>2, <1>3, <1>4, <1>5 DEF CompressedInv, TypeOK, Apart, Tasks, Out

------------------------------------------------------------------------------
(* The logger that sends entry by entry.                                   *)

(* The first entry is in one pair of hands.                                *)
EntryApart ==
  /\ m_size > 0 <=> preparing \/ sends \/ reposting \/ to_write
  /\ preparing => ~sends /\ ~reposting /\ ~to_write
  /\ sends => ~reposting /\ ~to_write
  /\ reposting => ~to_write

(* The pointer is at the head of the log, and the copy is its entry.       *)
EntryInv ==
  /\ E!TypeOK /\ Ring /\ EntryApart
  /\ m_size > 0 => m_w_entry = m_head
  /\ sends => xe \in Record /\ xe = Entries[1]

(* What the two loggers have in common is the same.                        *)
LEMMA SameBuffer ==
  /\ E!BufferTypeOK <=> BufferTypeOK
  /\ E!BufferInit <=> BufferInit
  /\ E!Reserve <=> Reserve
  /\ \A e, p : E!Claim(e, p) <=> Claim(e, p)
  /\ E!Fill <=> Fill
  /\ \A k : E!Release(k) <=> Release(k)
  /\ E!ring = ring /\ E!local = local /\ E!Slots = Slots
  BY DEF E!BufferTypeOK, BufferTypeOK, E!BufferInit, BufferInit, E!Reserve, Reserve,
         E!HasRoom, HasRoom, E!Claim, Claim, E!Fill, Fill, E!Release, Release,
         E!ring, ring, E!local, local, E!Slots, Slots

LEMMA FirstSlot == Ring => (m_size > 0 => SlotOf(1) = m_head)
<1> SUFFICES ASSUME Ring, m_size > 0 PROVE SlotOf(1) = m_head
  OBVIOUS
<1>1. BUFFERSIZE \in Nat \ {0} /\ m_head \in Slots
  BY SizeAssumption DEF Ring, BufferTypeOK
<1>2. m_head + 1 - 1 = m_head /\ m_head \in 0..(2 * BUFFERSIZE - 1) /\ m_head < BUFFERSIZE
  BY <1>1 DEF Slots
<1> QED
  BY <1>2, RemainderOnce DEF SlotOf

LEMMA EntryHandler ==
  ASSUME EntryInv, NEW e \in Record, E!HandlerRecords(e)
  PROVE  EntryInv' /\ Becomes(1, E!Out, E!Out')
<1>1. /\ Reserve /\ buf' = [buf EXCEPT ![m_tail] = e] /\ UNCHANGED <<m_head, m_state, local>>
      /\ m_w_entry' = IF m_size = 0 THEN m_tail ELSE m_w_entry
      /\ preparing' = (preparing \/ m_size = 0)
      /\ to_write' = to_write /\ m_size' = m_size + 1
      /\ UNCHANGED <<reposting, xe, sends, m_head>>
  BY SameBuffer DEF E!HandlerRecords, E!ReserveEntry, E!local, local, Reserve
<1>2. Ring' /\ Entries' = Append(Entries, e) /\ Len(Entries) < BUFFERSIZE
  BY <1>1, HandlerJoins DEF EntryInv
<1>3. /\ Entries \in Seq(Record) /\ Len(Entries) = m_size /\ m_size \in Nat
      /\ BUFFERSIZE \in Nat \ {0} /\ m_tail = (m_head + m_size) % BUFFERSIZE
      /\ m_head \in Slots /\ m_tail \in Slots
  BY EntriesOfLog, SizeAssumption DEF LogHolds, EntryInv, Ring, BufferTypeOK
<1>4. E!TypeOK'
  BY <1>1, <1>2, <1>3, SameBuffer DEF EntryInv, E!TypeOK, Ring, BufferTypeOK, E!BufferTypeOK, E!Slots, Slots
<1>5. EntryApart'
  <2>1. EntryApart /\ (m_size = 0 <=> ~(m_size > 0)) /\ m_size' > 0
    BY <1>1, <1>3 DEF EntryInv
  <2>2. preparing' = (preparing \/ m_size = 0) /\ to_write' = to_write /\ reposting' = reposting /\ sends' = sends
    BY <1>1
  <2>3. CASE m_size = 0
    BY <2>1, <2>2, <2>3 DEF EntryApart
  <2>4. CASE m_size # 0
    <3>1. preparing' = preparing
      BY <1>4, <2>2, <2>4 DEF EntryInv, E!TypeOK
    <3> QED
      BY <2>1, <2>2, <2>4, <3>1, Zenon DEF EntryApart
  <2> QED BY <2>3, <2>4
<1>6. m_size = 0 => m_tail = m_head
  <2>1. m_head + 0 = m_head /\ m_head % BUFFERSIZE = m_head
    BY <1>3 DEF Slots
  <2> QED
    BY <1>3, <2>1
<1>7. m_w_entry' = m_head'
  BY <1>1, <1>3, <1>6 DEF EntryInv
<1>8. sends => m_size > 0
  BY DEF EntryInv, EntryApart
<1>9. sends' => xe' \in Record /\ xe' = Entries'[1]
  BY <1>1, <1>2, <1>3, <1>8 DEF EntryInv
<1>10. E!Out' = E!Out
  BY <1>1 DEF E!Out
<1> QED
  BY <1>2, <1>4, <1>5, <1>7, <1>9, <1>10 DEF EntryInv, Becomes

LEMMA EntryClaims ==
  ASSUME EntryInv, NEW e \in Record, E!TaskReserves(e)
  PROVE  EntryInv' /\ Becomes(1, E!Out, E!Out')
<1> DEFINE p == m_size = 0
<1>1. /\ slot = None /\ ~reposting /\ Claim(e, p) /\ UNCHANGED <<buf, m_head, m_state>>
      /\ m_w_entry' = IF m_size = 0 THEN m_tail ELSE m_w_entry
      /\ to_write' = p /\ m_size' = m_size + 1 /\ p \in BOOLEAN
      /\ UNCHANGED <<reposting, xe, sends, m_head, preparing>>
  BY SameBuffer DEF E!TaskReserves, E!ReserveEntry, E!Ready, Claim, Reserve
<1>2. Ring' /\ Entries' = Append(Entries, e) /\ Len(Entries) < BUFFERSIZE
  BY <1>1, ClaimJoins DEF EntryInv
<1>3. /\ Entries \in Seq(Record) /\ Len(Entries) = m_size /\ m_size \in Nat
      /\ BUFFERSIZE \in Nat \ {0} /\ m_tail = (m_head + m_size) % BUFFERSIZE
      /\ m_head \in Slots /\ m_tail \in Slots /\ ~to_write
  BY <1>1, EntriesOfLog, SizeAssumption DEF LogHolds, EntryInv, Ring, BufferTypeOK
<1>4. E!TypeOK'
  BY <1>1, <1>2, <1>3, SameBuffer DEF EntryInv, E!TypeOK, Ring, BufferTypeOK, E!BufferTypeOK, E!Slots, Slots
<1>5. EntryApart'
  <2>1. EntryApart /\ (m_size = 0 <=> ~(m_size > 0)) /\ m_size' > 0 /\ ~to_write
    BY <1>1, <1>3 DEF EntryInv
  <2>2. preparing' = preparing /\ to_write' = (m_size = 0) /\ reposting' = reposting /\ sends' = sends
    BY <1>1
  <2> QED
    BY <2>1, <2>2 DEF EntryApart
<1>6. m_size = 0 => m_tail = m_head
  <2>1. m_head + 0 = m_head /\ m_head % BUFFERSIZE = m_head
    BY <1>3 DEF Slots
  <2> QED
    BY <1>3, <2>1
<1>7. m_w_entry' = m_head'
  BY <1>1, <1>3, <1>6 DEF EntryInv
<1>8. sends => m_size > 0
  BY DEF EntryInv, EntryApart
<1>9. sends' => xe' \in Record /\ xe' = Entries'[1]
  BY <1>1, <1>2, <1>3, <1>8 DEF EntryInv
<1>10. E!Out' = E!Out
  BY <1>1 DEF E!Out
<1> QED
  BY <1>2, <1>4, <1>5, <1>7, <1>9, <1>10 DEF EntryInv, Becomes

LEMMA EntryFills ==
  ASSUME EntryInv, E!TaskFills
  PROVE  EntryInv' /\ Becomes(1, E!Out, E!Out')
<1>1. /\ Fill /\ preparing' = (preparing \/ to_write)
      /\ UNCHANGED <<m_head, m_tail, m_size, m_w_entry, m_state, reposting, xe, sends>>
  BY SameBuffer DEF E!TaskFills
<1>2. Ring' /\ Entries' = Entries /\ ~to_write'
  BY <1>1, FillKeeps DEF EntryInv
<1>3. E!TypeOK'
  BY <1>1, <1>2, SameBuffer DEF EntryInv, E!TypeOK, Ring, BufferTypeOK, E!BufferTypeOK, E!Slots, Slots
<1>4. EntryApart'
  BY <1>1, <1>2 DEF EntryInv, EntryApart
<1> QED
  BY <1>1, <1>2, <1>3, <1>4 DEF EntryInv, Becomes, E!Out

(* The first entry is copied when its slot has been filled.                *)
LEMMA EntryPrepares ==
  ASSUME EntryInv, E!PrepareWrite
  PROVE  EntryInv' /\ Becomes(1, E!Out, E!Out')
<1>1. /\ slot = None /\ ~reposting /\ preparing /\ preparing' = FALSE
      /\ xe' = buf[m_w_entry] /\ sends' = TRUE
      /\ UNCHANGED <<ring, local>> /\ UNCHANGED <<m_w_entry, m_state, reposting, m_head, to_write>>
  BY DEF E!PrepareWrite, E!Ready, E!ring, E!local, ring, local
<1>2. Ring' /\ Entries' = Entries /\ m_size' = m_size
  BY <1>1, RingStays DEF EntryInv, Ring, BufferTypeOK
<1>3. m_size > 0 /\ ~sends /\ ~to_write
  BY <1>1 DEF EntryInv, EntryApart
<1>4. /\ Entries \in Seq(Record) /\ Len(Entries) = m_size /\ m_size \in Nat
      /\ \A i \in 1..m_size : Entries[i] = IF SlotOf(i) = slot THEN entry ELSE buf[SlotOf(i)]
  BY EntriesOfLog DEF LogHolds, EntryInv
<1>5. 1 \in 1..m_size /\ SlotOf(1) = m_head /\ m_head # None
  BY <1>3, <1>4, FirstSlot, SizeAssumption DEF EntryInv, Ring, BufferTypeOK, Slots
<1>6. xe' = Entries[1] /\ xe' \in Record
  BY <1>1, <1>3, <1>4, <1>5 DEF EntryInv
<1>7. E!TypeOK' /\ EntryApart'
  BY <1>1, <1>2, <1>3, <1>6, SameBuffer
     DEF EntryInv, E!TypeOK, Ring, BufferTypeOK, E!BufferTypeOK, E!Slots, Slots, EntryApart
<1>8. E!Out = << >> /\ E!Out' = SubSeq(Entries, 1, 1) /\ Len(Entries) >= 1
  BY <1>1, <1>3, <1>4, <1>6 DEF E!Out
<1> QED
  BY <1>1, <1>2, <1>6, <1>7, <1>8 DEF EntryInv, Becomes

LEMMA EntryDone ==
  ASSUME EntryInv, E!WriteDone
  PROVE  EntryInv' /\ Becomes(1, E!Out, E!Out')
<1>1. /\ slot = None /\ ~reposting /\ sends /\ sends' = FALSE /\ Release(1)
      /\ reposting' = (m_size' > 0) /\ m_size' = m_size - 1
      /\ m_w_entry' = IF m_size' > 0 THEN m_head' ELSE m_w_entry
      /\ UNCHANGED <<buf, m_tail, m_state, local>> /\ UNCHANGED <<preparing, xe, to_write>>
  BY SameBuffer DEF E!WriteDone, E!Ready, Release, E!local, local
<1>2. /\ Entries \in Seq(Record) /\ Len(Entries) = m_size /\ m_size \in Nat /\ m_size > 0
      /\ 1 \in 1..m_size /\ ~preparing /\ ~to_write
  BY <1>1, EntriesOfLog DEF LogHolds, EntryInv, EntryApart
<1>3. Ring' /\ Entries' = SubSeq(Entries, 1 + 1, Len(Entries))
  BY <1>1, <1>2, ReleaseLeaves DEF EntryInv
<1>4. E!TypeOK'
  <2>1. m_w_entry' \in E!Slots \cup {None}
    BY <1>1, <1>3 DEF EntryInv, E!TypeOK, Ring, BufferTypeOK, E!Slots, Slots
  <2>2. (m_size' > 0) \in BOOLEAN
    OBVIOUS
  <2> QED
    BY <1>1, <1>3, <2>1, <2>2 DEF EntryInv, E!TypeOK, Ring, BufferTypeOK, E!BufferTypeOK, E!Slots, Slots
<1>5. EntryApart'
  BY <1>1, <1>2 DEF EntryInv, EntryApart
<1>6. E!Out # << >> /\ E!Out' = << >>
  BY <1>1 DEF E!Out
<1> QED
  BY <1>1, <1>3, <1>4, <1>5, <1>6 DEF EntryInv, Becomes

LEMMA EntryMoves ==
  ASSUME EntryInv, E!StartDone \/ E!Repost
  PROVE  EntryInv' /\ Becomes(1, E!Out, E!Out')
<1>1. UNCHANGED <<ring, local>> /\ m_state' \in {"S_STOPPED", "S_STARTED"}
      /\ UNCHANGED <<m_w_entry, xe, sends, m_head, to_write>>
  BY DEF E!StartDone, E!Repost, EntryInv, Ring, BufferTypeOK, E!ring, E!local, ring, local
<1>2. Ring' /\ Entries' = Entries /\ m_size' = m_size
  BY <1>1, RingStays DEF EntryInv
<1>3. E!TypeOK'
  BY <1>1, <1>2, SameBuffer DEF EntryInv, E!TypeOK, Ring, BufferTypeOK, E!BufferTypeOK, E!Slots, Slots,
     E!StartDone, E!Repost
<1>4. EntryApart'
  BY <1>1, <1>2 DEF EntryInv, EntryApart, E!StartDone, E!Repost
<1> QED
  BY <1>1, <1>2, <1>3, <1>4 DEF EntryInv, Becomes, E!Out

LEMMA EntryStep ==
  ASSUME EntryInv, E!Next
  PROVE  EntryInv' /\ Becomes(1, E!Out, E!Out')
  BY EntryHandler, EntryClaims, EntryFills, EntryPrepares, EntryDone, EntryMoves DEF E!Next

LEMMA EntryInit == Init /\ E!Init => EntryInv /\ E!Out = << >>
<1> SUFFICES ASSUME Init, E!Init PROVE EntryInv /\ E!Out = << >>
  OBVIOUS
<1>1. Ring /\ m_size = 0 /\ to_write = FALSE
  BY CompressedInit DEF CompressedInv, Init, BufferInit
<1>2. m_w_entry = None /\ preparing = FALSE /\ reposting = FALSE /\ xe = None /\ sends = FALSE
  BY DEF E!Init
<1> QED
  <2>1. E!TypeOK
    BY <1>1, <1>2, SameBuffer DEF E!TypeOK, Ring
  <2>2. EntryApart /\ ~(m_size > 0)
    BY <1>1, <1>2 DEF EntryApart
  <2> QED
    BY <1>1, <1>2, <2>1, <2>2 DEF EntryInv, E!Out

------------------------------------------------------------------------------
(* The logger that flushes its log in messages of N entries.               *)

(* A log that is full is not recorded to, except while the task that took  *)
(* the last slot is about to end the recording.                            *)
LastTaken == at \in {"fillingLast", "full"}
Recording ==
  /\ LastTaken => stagedState = "S_REC"
  /\ stagedState = "S_REC" => (count >= LOGSIZE <=> LastTaken)
  /\ at = "recording" => count <= LOGSIZE + MaxOver /\ (stagedState # "S_REC" => count >= LOGSIZE)

(* The slot that is taken and not filled is the main program's.            *)
Filling ==
  /\ stagedSlot # LOGSIZE => at \in {"filling", "fillingLast"}
  /\ \A s \in Memory!Slots : s < count /\ s # stagedSlot => s \in filled

(* The index of a flush stays within the log or one behind it.             *)
Flushing ==
  /\ stagedState = "S_FLUSH" => m_report_index <= count + 1
  /\ n > 0 => at = "code"
  /\ Memory!OneFlush

StagedInv == Memory!TypeOK /\ Recording /\ Filling /\ Flushing

LEMMA StagedFacts == StagedInv => Memory!SlotsAreFilled /\ Memory!OneFlush
BY DEF StagedInv, Memory!SlotsAreFilled, Filling, Flushing, Memory!TypeOK, Memory!Slots

LEMMA StagedInit == Memory!Init => StagedInv
<1> SUFFICES ASSUME Memory!Init PROVE StagedInv
  OBVIOUS
<1>1. LOGSIZE \in Nat \ {0} /\ MaxOver \in Nat /\ Word \in Nat \ {0} /\ N \in Nat
  BY MemoryAssumption DEF Memory!LogAssumption, Memory!BufferAssumption
<1>2. {continuous, flushing, fulls, report} \subseteq BOOLEAN
  BY Zenon DEF Memory!Init
<1>3. Memory!TypeOK
  <2>1. /\ filled = {} /\ count = 0 /\ m_report_index = 0 /\ m_missed_flush = 0
        /\ stagedSlot = LOGSIZE /\ n = 0
        /\ stagedState = "S_IDLE" /\ at = "code"
    BY DEF Memory!Init
  <2> QED
    BY <1>1, <1>2, <2>1 DEF Memory!TypeOK
<1>4. Recording /\ Filling /\ Flushing
  BY <1>1
     DEF Memory!Init, Recording, LastTaken, Filling, Flushing, Memory!OneFlush,
         Memory!Slots
<1> QED
  BY <1>3, <1>4 DEF StagedInv

LEMMA ZeroBelow == \A k \in Nat : 0 <= k + 1
OBVIOUS

(* Whoever enters S_FULL or starts the flush leaves no slot unfilled.      *)
LEMMA FullKeeps ==
  ASSUME StagedInv, stagedState = "S_REC", Memory!EnterFull,
         count' \in 0..(LOGSIZE + MaxOver + 1), count' >= LOGSIZE,
         filled' \subseteq Memory!Slots, stagedSlot' \in 0..LOGSIZE,
         at' \in {"code", "recording", "filling", "flush"},
         at' = "recording" => count' <= LOGSIZE + MaxOver, Filling', UNCHANGED <<continuous, Memory!message>>
  PROVE  StagedInv'
<1>1. /\ m_report_index \in 0..(LOGSIZE + MaxOver + 2) /\ m_missed_flush \in 0..(Word - 1)
      /\ {continuous, flushing, fulls, report} \subseteq BOOLEAN /\ n \in 0..N
      /\ n = 0 /\ flushing = FALSE /\ n' = n /\ report' = report /\ continuous' = continuous
  BY MemoryAssumption
     DEF StagedInv, Memory!TypeOK, Flushing, Memory!OneFlush, Memory!LogAssumption,
         Memory!BufferAssumption, Memory!message
<1>2. /\ LOGSIZE \in Nat /\ MaxOver \in Nat /\ Word \in Nat \ {0} /\ Byte \in Nat \ {0}
  BY MemoryAssumption DEF Memory!LogAssumption, Memory!BufferAssumption
<1>3. CASE continuous /\ Memory!EnterFlush /\ UNCHANGED fulls
  <2>1. /\ stagedState' = "S_FLUSH" /\ m_missed_flush' = 0 /\ m_report_index' = 0
        /\ fulls' = fulls
    BY <1>3 DEF Memory!EnterFlush
  <2>2. flushing' \in BOOLEAN
    BY <1>3, Zenon DEF Memory!EnterFlush
  <2>3. Memory!TypeOK'
    BY <1>1, <1>2, <2>1, <2>2 DEF Memory!TypeOK
  <2>4. Recording' /\ Flushing'
    <3>1. Recording'
      BY <1>1, <1>2, <2>1 DEF Recording, LastTaken
    <3>2. Memory!OneFlush'
      BY <1>1, <2>1 DEF Memory!OneFlush
    <3>3. m_report_index' <= count' + 1
      <4>1. count' \in Nat
        BY <1>2
      <4>2. m_report_index' = 0
        BY <2>1
      <4>3. 0 <= count' + 1
        BY <4>1, ZeroBelow, Zenon
      <4> QED
        BY <4>2, <4>3, Zenon
    <3>4. ~(n' > 0)
      BY <1>1
    <3> QED
      BY <3>1, <3>2, <3>3, <3>4 DEF Flushing
  <2> QED
    BY <2>3, <2>4 DEF StagedInv
<1>4. CASE /\ ~continuous /\ stagedState' = "S_FULL" /\ fulls' = TRUE
           /\ UNCHANGED <<flushing, m_missed_flush, m_report_index>>
  <2>1. Memory!TypeOK'
    BY <1>1, <1>4 DEF Memory!TypeOK
  <2>2. Recording' /\ Flushing'
    BY <1>1, <1>2, <1>4 DEF Recording, LastTaken, Flushing, Memory!OneFlush
  <2> QED
    BY <2>1, <2>2 DEF StagedInv
<1> QED
  BY <1>3, <1>4 DEF Memory!EnterFull

LEMMA StagedStep ==
  ASSUME StagedInv, [Memory!Next /\ UNCHANGED continuous]_<<continuous, Memory!vars>>
  PROVE  StagedInv' /\ (Memory!RoundEnds => m_report_index > count)
<1>1. /\ LOGSIZE \in Nat \ {0} /\ MaxOver \in Nat /\ Word \in Nat \ {0}
      /\ Byte \in Nat \ {0}
      /\ N \in Nat \ {0}
  BY MemoryAssumption DEF Memory!LogAssumption, Memory!BufferAssumption
<1>2. /\ filled \subseteq Memory!Slots /\ count \in 0..(LOGSIZE + MaxOver + 1)
      /\ m_report_index \in 0..(LOGSIZE + MaxOver + 2) /\ m_missed_flush \in 0..(Word - 1)
      /\ stagedSlot \in 0..LOGSIZE /\ n \in 0..N
      /\ at \in {"code", "recording", "filling", "fillingLast", "full", "flush"}
      /\ stagedState \in {"S_IDLE", "S_REC", "S_FULL", "S_FLUSH"}
  BY DEF StagedInv, Memory!TypeOK
<1>3. continuous' = continuous
  BY DEF Memory!vars
<1>4. CASE Memory!HandlerRecords
  <2>1. /\ stagedState = "S_REC" /\ count < LOGSIZE + MaxOver /\ count' = count + 1
        /\ filled' = (IF count < LOGSIZE THEN filled \cup {count} ELSE filled)
        /\ UNCHANGED <<at, stagedSlot, n, report, told>>
    BY <1>4 DEF Memory!HandlerRecords, Memory!local, Memory!message
  <2>2. /\ filled' \subseteq Memory!Slots /\ count' \in 0..(LOGSIZE + MaxOver + 1)
        /\ stagedSlot' = stagedSlot
    BY <1>1, <1>2, <2>1 DEF Memory!Slots
  <2>3. Filling'
    BY <1>1, <1>2, <2>1 DEF StagedInv, Filling, Memory!Slots
  <2>4. CASE count' = LOGSIZE /\ Memory!EnterFull
    <3>1. ~LastTaken
      BY <1>1, <1>2, <2>1, <2>4 DEF StagedInv, Recording
    <3>2. at' \in {"code", "recording", "filling", "flush"} /\ count' <= LOGSIZE + MaxOver
      BY <1>1, <1>2, <2>1, <3>1 DEF LastTaken
    <3>3. ~Memory!RoundEnds
      BY <2>1 DEF Memory!RoundEnds
    <3> QED
      BY <1>1, <1>2, <1>3, <2>1, <2>2, <2>3, <2>4, <3>2, <3>3, FullKeeps
         DEF Memory!message
  <2>5. CASE count' # LOGSIZE /\ Memory!Unless
    <3>1. Memory!TypeOK'
      BY <1>2, <1>3, <2>1, <2>2, <2>5 DEF StagedInv, Memory!TypeOK, Memory!Unless
    <3>2. Recording' /\ Flushing'
      BY <1>1, <1>2, <2>1, <2>5
         DEF StagedInv, Recording, LastTaken, Flushing, Memory!OneFlush, Memory!Unless
    <3> QED
      BY <2>3, <2>1, <3>1, <3>2 DEF StagedInv, Memory!RoundEnds
  <2> QED
    BY <1>4, <2>4, <2>5 DEF Memory!HandlerRecords
<1>5. CASE Memory!Missed
  <2>1. m_missed_flush' \in 0..(Word - 1)
    BY <1>1, <1>2, <1>5 DEF Memory!Missed
  <2> QED
    BY <1>2, <1>3, <1>5, <2>1
       DEF Memory!Missed, StagedInv, Memory!TypeOK, Recording, LastTaken, Filling,
           Flushing, Memory!OneFlush, Memory!local, Memory!message, Memory!RoundEnds
<1>6. CASE Memory!TaskReadsState
  BY <1>1, <1>2, <1>3, <1>6
     DEF Memory!TaskReadsState, StagedInv, Memory!TypeOK, Recording, LastTaken, Filling,
         Flushing, Memory!OneFlush, Memory!message, Memory!RoundEnds
<1>7. CASE Memory!TaskReserves
  <2>1. n = 0 /\ n' = n /\ stagedSlot = LOGSIZE
    BY <1>1, <1>2, <1>7
       DEF Memory!TaskReserves, StagedInv, Flushing, Filling, Memory!message
  <2>2. count <= LOGSIZE + MaxOver
    BY <1>7 DEF Memory!TaskReserves, StagedInv, Recording
  <2>3. Memory!TypeOK'
    BY <1>1, <1>2, <1>3, <1>7, <2>2
       DEF Memory!TaskReserves, StagedInv, Memory!TypeOK, Memory!FreeSlot,
           Memory!message
  <2>4. Filling'
    BY <1>1, <1>2, <1>7, <2>1
       DEF Memory!TaskReserves, StagedInv, Filling, Memory!FreeSlot, Memory!Slots
  <2>5. Recording' /\ Flushing'
    BY <1>1, <1>2, <1>7, <2>1
       DEF Memory!TaskReserves, StagedInv, Recording, LastTaken, Flushing,
           Memory!OneFlush, Memory!message
  <2> QED
    BY <1>7, <2>3, <2>4, <2>5 DEF StagedInv, Memory!TaskReserves, Memory!RoundEnds
<1>8. CASE Memory!TaskFills
  <2>1. Filling'
    BY <1>1, <1>2, <1>8 DEF Memory!TaskFills, StagedInv, Filling, Memory!Slots
  <2> QED
    BY <1>1, <1>2, <1>3, <1>8, <2>1
       DEF Memory!TaskFills, StagedInv, Memory!TypeOK, Recording, LastTaken, Flushing,
           Memory!OneFlush, Memory!message, Memory!RoundEnds
<1>9. CASE Memory!TaskFull
  <2>1. /\ stagedState = "S_REC" /\ count' = count /\ count >= LOGSIZE /\ filled' = filled
        /\ stagedSlot' = stagedSlot /\ at' = "code" /\ Memory!EnterFull
    BY <1>9 DEF Memory!TaskFull, StagedInv, Recording, LastTaken
  <2>2. Filling'
    BY <1>1, <1>2, <1>9, <2>1 DEF StagedInv, Filling, Memory!TaskFull
  <2> QED
    BY <1>2, <1>3, <1>9, <2>1, <2>2, FullKeeps DEF Memory!TaskFull, Memory!RoundEnds
<1>10. CASE Memory!SignalFull
  BY <1>2, <1>3, <1>10
     DEF Memory!SignalFull, StagedInv, Memory!TypeOK, Recording, LastTaken, Filling,
         Flushing, Memory!OneFlush, Memory!local, Memory!message, Memory!RoundEnds
<1>11. CASE Memory!record
  BY <1>1, <1>2, <1>3, <1>11
     DEF Memory!record, Memory!EnterRec, StagedInv, Memory!TypeOK, Recording, LastTaken,
         Filling, Flushing, Memory!OneFlush, Memory!local, Memory!message,
         Memory!RoundEnds, Memory!Slots
<1>12. CASE Memory!flush
  BY <1>1, <1>2, <1>3, <1>12
     DEF Memory!flush, Memory!CanFlush, StagedInv, Memory!TypeOK, Recording, LastTaken,
         Filling, Flushing, Memory!OneFlush, Memory!message, Memory!RoundEnds
<1>13. CASE Memory!TaskEntersFlush
  <2>1. flushing' \in BOOLEAN
    BY <1>13, Zenon DEF Memory!TaskEntersFlush, Memory!EnterFlush
  <2>2. n = 0 /\ n' = n
    BY <1>1, <1>2, <1>13 DEF Memory!TaskEntersFlush, StagedInv, Flushing, Memory!message
  <2> QED
    BY <1>1, <1>2, <1>3, <1>13, <2>1, <2>2
       DEF Memory!TaskEntersFlush, Memory!EnterFlush, StagedInv, Memory!TypeOK,
           Recording, LastTaken, Filling, Flushing, Memory!OneFlush, Memory!message,
           Memory!RoundEnds
<1>14. CASE Memory!FlushTask
  <2>1. stagedState = "S_FLUSH" /\ m_report_index <= count + 1
    BY <1>14 DEF Memory!FlushTask, StagedInv, Flushing, Memory!OneFlush
  <2>2. m_report_index' \in 0..(count + 1) /\ n' \in 0..N
    BY <1>1, <1>2, <1>14, <2>1 DEF Memory!FlushTask, Memory!LogNextMsg
  <2>3. /\ at = "code" /\ flushing' = FALSE /\ report' = FALSE
        /\ UNCHANGED <<filled, count, m_missed_flush, stagedState, fulls, at, stagedSlot>>
    BY <1>14 DEF Memory!FlushTask, Memory!local
  <2>4. Memory!TypeOK'
    <3>1. {continuous', flushing', fulls', report'} \subseteq BOOLEAN
      BY <1>3, <2>3 DEF StagedInv, Memory!TypeOK
    <3>2. m_report_index' \in 0..(LOGSIZE + MaxOver + 2)
      BY <1>1, <1>2, <2>2
    <3> QED
      BY <1>2, <2>2, <2>3, <3>1, <3>2 DEF Memory!TypeOK
  <2>5. Recording' /\ Filling'
    BY <2>3 DEF StagedInv, Recording, LastTaken, Filling
  <2>6. Flushing'
    BY <1>2, <2>1, <2>2, <2>3 DEF Flushing, Memory!OneFlush
  <2> QED
    BY <2>3, <2>4, <2>5, <2>6 DEF StagedInv, Memory!RoundEnds
<1>15. CASE Memory!SendDone
  <2>1. /\ at = "code" /\ n > 0 /\ UNCHANGED <<m_missed_flush, fulls, at, stagedSlot>>
    BY <1>15 DEF Memory!SendDone, Memory!local
  <2>2. /\ stagedState = "S_FLUSH" /\ ~flushing /\ flushing = FALSE
        /\ m_report_index <= count + 1
    BY <2>1 DEF StagedInv, Flushing, Memory!OneFlush, Memory!TypeOK
  <2>3. CASE /\ Memory!More /\ flushing' = TRUE /\ n' = 0
             /\ UNCHANGED <<filled, count, m_report_index, stagedState, report>>
    <3>1. Memory!TypeOK'
      BY <1>1, <1>2, <1>3, <2>1, <2>3 DEF StagedInv, Memory!TypeOK
    <3>2. Recording' /\ Filling'
      BY <2>1, <2>3 DEF StagedInv, Recording, LastTaken, Filling
    <3>3. Flushing'
      BY <2>1, <2>2, <2>3 DEF Flushing, Memory!OneFlush
    <3> QED
      BY <2>3, <3>1, <3>2, <3>3 DEF StagedInv, Memory!RoundEnds
  <2>4. CASE /\ m_report_index = count /\ m_report_index' = m_report_index + 1
             /\ n' = 1 /\ report' = TRUE
             /\ UNCHANGED <<filled, count, stagedState, flushing>>
    <3>1. Memory!TypeOK'
      BY <1>1, <1>2, <1>3, <2>1, <2>4 DEF StagedInv, Memory!TypeOK
    <3>2. Recording' /\ Filling'
      BY <2>1, <2>4 DEF StagedInv, Recording, LastTaken, Filling
    <3>3. Flushing'
      BY <1>2, <2>1, <2>2, <2>4 DEF Flushing, Memory!OneFlush
    <3> QED
      BY <2>4, <3>1, <3>2, <3>3 DEF StagedInv, Memory!RoundEnds
  <2>5. CASE /\ ~Memory!More /\ m_report_index # count /\ n' = 0 /\ report' = FALSE
             /\ IF continuous THEN Memory!EnterRec
                ELSE stagedState' = "S_IDLE" /\ UNCHANGED <<filled, count>>
             /\ UNCHANGED <<m_report_index, flushing>>
    <3>1. m_report_index > count
      BY <1>2, <2>5 DEF Memory!More
    <3>2. stagedState' \in {"S_REC", "S_IDLE"} /\ (stagedState' = "S_REC" => count' = 0 /\ filled' = {})
          /\ (stagedState' = "S_IDLE" => count' = count /\ filled' = filled)
      BY <2>5 DEF Memory!EnterRec
    <3>3. Memory!TypeOK'
      <4>1. {continuous', flushing', fulls', report'} \subseteq BOOLEAN
        BY <1>3, <2>1, <2>5 DEF StagedInv, Memory!TypeOK
      <4>2. /\ filled' \subseteq Memory!Slots /\ count' \in 0..(LOGSIZE + MaxOver + 1)
            /\ m_report_index' = m_report_index /\ n' = 0
            /\ m_missed_flush' = m_missed_flush
        BY <1>1, <1>2, <2>1, <2>5, <3>2
      <4> QED
        BY <1>1, <1>2, <2>1, <3>2, <4>1, <4>2 DEF Memory!TypeOK
    <3>4. Recording' /\ Filling'
      BY <1>1, <1>2, <2>1, <3>2
         DEF StagedInv, Recording, LastTaken, Filling, Memory!Slots
    <3>5. Flushing'
      BY <2>1, <2>2, <2>5, <3>2 DEF Flushing, Memory!OneFlush
    <3> QED
      BY <3>1, <3>3, <3>4, <3>5 DEF StagedInv
  <2> QED
    BY <1>15, <2>3, <2>4, <2>5 DEF Memory!SendDone
<1>16. CASE UNCHANGED <<continuous, Memory!vars>>
  BY <1>16
     DEF Memory!vars, StagedInv, Memory!TypeOK, Recording, LastTaken, Filling, Flushing,
         Memory!OneFlush, Memory!local, Memory!message, Memory!RoundEnds
<1> QED
  BY <1>4, <1>5, <1>6, <1>7, <1>8, <1>9, <1>10, <1>11, <1>12, <1>13, <1>14, <1>15, <1>16
     DEF Memory!Next

(* What the messages of the round have told; the report of the flush,      *)
(* which moves the index too, tells nothing.  Nothing is told before the   *)
(* flush, nor while a recordChange of the main program is under way.       *)
Telling ==
  /\ told \in Seq(Nat) /\ Memory!TellsInOrder
  /\ stagedState = "S_FLUSH" =>
       Len(told) = (IF report THEN m_report_index - 1 ELSE m_report_index)
  /\ told # << >> => at = "code" /\ stagedState \in {"S_FLUSH", "S_IDLE"}
  /\ report => /\ stagedState = "S_FLUSH" /\ at = "code" /\ ~flushing
               /\ m_report_index = count + 1

LEMMA TellingInit == Memory!Init => Telling
BY DEF Memory!Init, Telling, Memory!TellsInOrder

(* A message adds the indices from that of the flush.                      *)
LEMMA TellsOn ==
  ASSUME NEW s \in Seq(Nat), NEW last \in Nat, Len(s) <= last,
         \A i \in DOMAIN s : s[i] = i - 1
  PROVE  LET t == s \o [i \in 1..(last - Len(s)) |-> Len(s) + i - 1]
         IN  /\ t \in Seq(Nat) /\ Len(t) = last /\ DOMAIN t = 1..last
             /\ \A i \in 1..last : t[i] = i - 1
<1> DEFINE more == [i \in 1..(last - Len(s)) |-> Len(s) + i - 1]
<1>1. Len(s) \in Nat /\ last - Len(s) \in Nat
  OBVIOUS
<1>2. more \in Seq(Nat) /\ Len(more) = last - Len(s)
  BY <1>1
<1>3. \A i \in 1..(last - Len(s)) : more[i] = Len(s) + i - 1
  OBVIOUS
<1> HIDE DEF more
<1>4. /\ s \o more \in Seq(Nat) /\ Len(s \o more) = last
      /\ \A i \in 1..last : (s \o more)[i] = IF i <= Len(s) THEN s[i] ELSE more[i - Len(s)]
  BY <1>1, <1>2
<1>5. \A i \in 1..last : (s \o more)[i] = i - 1
  BY <1>1, <1>3, <1>4
<1>6. DOMAIN (s \o more) = 1..last
  BY <1>4
<1> QED
  BY <1>4, <1>5, <1>6 DEF more

LEMMA Untold ==
  ASSUME told' = << >>, ~report', stagedState' = "S_FLUSH" => m_report_index' = 0
  PROVE  Telling'
BY DEF Telling, Memory!TellsInOrder

LEMMA TellingStep ==
  ASSUME StagedInv, Telling, [Memory!Next /\ UNCHANGED continuous]_<<continuous, Memory!vars>>
  PROVE  Telling' /\ (Memory!RoundEnds => Memory!AllIsSent)
<1>1. /\ count \in Nat /\ m_report_index \in Nat /\ N \in Nat \ {0} /\ LOGSIZE \in Nat
      /\ n \in Nat /\ report \in BOOLEAN /\ flushing \in BOOLEAN
  BY MemoryAssumption
     DEF StagedInv, Memory!TypeOK, Memory!LogAssumption, Memory!BufferAssumption
<1>2. Memory!RoundEnds => Memory!AllIsSent
  <2> SUFFICES ASSUME Memory!RoundEnds, NEW s \in Memory!Slots, s < count
               PROVE  \E i \in DOMAIN told : told[i] = s
    BY Zenon DEF Memory!AllIsSent
  <2>1. stagedState = "S_FLUSH" /\ m_report_index > count
    BY StagedStep DEF Memory!RoundEnds
  <2>2. told \in Seq(Nat) /\ Len(told) >= count
    BY <1>1, <2>1 DEF Telling
  <2>3. s + 1 \in DOMAIN told
    BY <1>1, <2>2 DEF Memory!Slots
  <2>4. told[s + 1] = s
    BY <1>1, <2>3 DEF Telling, Memory!TellsInOrder, Memory!Slots
  <2> QED
    BY <2>3, <2>4
<1> SUFFICES Telling'
  BY <1>2
<1>3. at # "code" \/ stagedState \in {"S_REC", "S_FULL"} => told = << >> /\ ~report
  BY DEF Telling
<1>4. stagedState = "S_FLUSH" /\ told = << >> /\ ~report => m_report_index = 0
  BY DEF Telling
<1>5. CASE Memory!HandlerRecords
  <2>1. stagedState = "S_REC" /\ told' = told /\ report' = report
    BY <1>5 DEF Memory!HandlerRecords, Memory!message
  <2>2. stagedState' = "S_FLUSH" => m_report_index' = 0
    BY <1>5, <2>1
       DEF Memory!HandlerRecords, Memory!EnterFull, Memory!EnterFlush, Memory!Unless
  <2> QED
    BY <1>3, <2>1, <2>2, Untold
<1>6. CASE Memory!Missed \/ Memory!SignalFull
  <2>1. UNCHANGED <<told, filled, count, m_report_index, stagedState, flushing, at, report>>
    BY <1>1, <1>6 DEF Memory!Missed, Memory!SignalFull, Memory!local, Memory!message
  <2> QED
    BY <2>1 DEF Telling, Memory!TellsInOrder, Memory!Slots
<1>7. CASE Memory!TaskReadsState \/ Memory!flush
  <2>1. /\ stagedState \in {"S_REC", "S_FULL"} /\ stagedState' = stagedState
        /\ told' = told /\ report' = report
    BY <1>7 DEF Memory!TaskReadsState, Memory!flush, Memory!CanFlush, Memory!message
  <2> QED
    BY <1>3, <2>1, Untold
<1>8. CASE Memory!TaskReserves \/ Memory!TaskFills
  <2>1. /\ at # "code" /\ stagedState' = stagedState /\ m_report_index' = m_report_index
        /\ told' = told /\ report' = report
    BY <1>8 DEF Memory!TaskReserves, Memory!TaskFills, Memory!message
  <2> QED
    BY <1>3, <1>4, <2>1, Untold
<1>9. CASE Memory!TaskFull \/ Memory!TaskEntersFlush
  <2>1. at # "code" /\ told' = told /\ report' = report
    BY <1>9 DEF Memory!TaskFull, Memory!TaskEntersFlush, Memory!message
  <2>2. stagedState' = "S_FLUSH" => m_report_index' = 0
    BY <1>9
       DEF Memory!TaskFull, Memory!TaskEntersFlush, Memory!EnterFull, Memory!EnterFlush
  <2> QED
    BY <1>3, <2>1, <2>2, Untold
<1>10. CASE Memory!record
  <2>1. stagedState = "S_IDLE" /\ told' = << >> /\ report' = report /\ stagedState' = "S_REC"
    BY <1>10 DEF Memory!record, Memory!EnterRec
  <2> QED
    BY <2>1, Untold DEF Telling
<1>11. CASE Memory!FlushTask
  <2> DEFINE last == IF m_report_index + N <= count + 1 THEN m_report_index + N ELSE count + 1
  <2>1. /\ at = "code" /\ flushing /\ report' = FALSE /\ m_report_index' = last
        /\ told' = told \o [i \in 1..(last - m_report_index) |-> m_report_index + i - 1]
        /\ UNCHANGED <<filled, count, stagedState, at>>
    BY <1>11 DEF Memory!FlushTask, Memory!LogNextMsg, Memory!local
  <2>2. /\ stagedState = "S_FLUSH" /\ m_report_index <= count + 1
        /\ ~report /\ Memory!SlotsAreFilled
    BY <2>1, StagedFacts DEF StagedInv, Flushing, Memory!OneFlush, Telling
  <2>3. last \in Nat /\ m_report_index <= last /\ last <= count + 1
    BY <1>1, <2>2
  <2> HIDE DEF last
  <2>4. told \in Seq(Nat) /\ Len(told) = m_report_index /\ \A i \in DOMAIN told : told[i] = i - 1
    BY <2>2 DEF Telling, Memory!TellsInOrder
  <2>5. /\ told' \in Seq(Nat) /\ Len(told') = last /\ DOMAIN told' = 1..last
        /\ \A i \in 1..last : told'[i] = i - 1
    <3>1. told' = told \o [i \in 1..(last - Len(told)) |-> Len(told) + i - 1]
      BY <2>1, <2>4
    <3>2. Len(told) <= last
      BY <2>3, <2>4
    <3> QED
      BY <2>3, <2>4, <3>1, <3>2, TellsOn, Zenon
  <2>6. Memory!TellsInOrder'
    <3> SUFFICES ASSUME NEW i \in 1..last
                 PROVE  /\ told'[i] = i - 1 /\ told'[i] <= count'
                        /\ told'[i] < count' /\ told'[i] \in Memory!Slots => told'[i] \in filled'
      BY <2>5, Zenon DEF Memory!TellsInOrder, Memory!Slots
    <3>1. told'[i] = i - 1 /\ count' = count /\ filled' = filled /\ i - 1 <= count
      BY <1>1, <2>1, <2>3, <2>5
    <3> QED
      BY <2>1, <2>2, <3>1 DEF Memory!SlotsAreFilled
  <2> QED
    BY <2>1, <2>2, <2>5, <2>6 DEF Telling
<1>12. CASE Memory!SendDone
  <2>1. at = "code" /\ at' = at /\ stagedState = "S_FLUSH" /\ ~flushing
    BY <1>1, <1>12 DEF Memory!SendDone, Memory!local, StagedInv, Flushing, Memory!OneFlush
  <2>2. CASE /\ Memory!More /\ flushing' = TRUE
             /\ UNCHANGED <<filled, count, m_report_index, stagedState, report, told>>
    <3>1. ~report
      BY <1>1, <2>2 DEF Memory!More, Telling
    <3> QED
      BY <2>1, <2>2, <3>1 DEF Telling, Memory!TellsInOrder, Memory!Slots
  <2>3. CASE /\ m_report_index = count /\ m_report_index' = m_report_index + 1
             /\ report' = TRUE /\ UNCHANGED <<filled, count, stagedState, flushing, told>>
    <3>1. ~report
      BY <1>1, <2>3 DEF Telling
    <3> QED
      BY <1>1, <2>1, <2>3, <3>1 DEF Telling, Memory!TellsInOrder, Memory!Slots
  <2>4. CASE /\ report' = FALSE
             /\ IF continuous THEN Memory!EnterRec
                ELSE stagedState' = "S_IDLE" /\ UNCHANGED <<filled, count, told>>
    <3>1. CASE told' = << >> /\ stagedState' = "S_REC"
      BY <2>4, <3>1, Untold
    <3>2. CASE stagedState' = "S_IDLE" /\ UNCHANGED <<filled, count, told>>
      BY <2>1, <2>4, <3>2 DEF Telling, Memory!TellsInOrder, Memory!Slots
    <3> QED
      BY <2>4, <3>1, <3>2 DEF Memory!EnterRec
  <2> QED
    BY <1>12, <2>2, <2>3, <2>4 DEF Memory!SendDone
<1>13. CASE UNCHANGED <<continuous, Memory!vars>>
  BY <1>13 DEF Memory!vars, Memory!local, Memory!message, Telling, Memory!TellsInOrder, Memory!Slots
<1> QED
  BY <1>5, <1>6, <1>7, <1>8, <1>9, <1>10, <1>11, <1>12, <1>13 DEF Memory!Next

------------------------------------------------------------------------------
(* The logger that reports its log entry by entry.                         *)

Words == Nat \cup Record \cup {None}
Held == IF rawCount < LOGSIZE THEN rawCount ELSE LOGSIZE

(* What was kept is in the log, but for the slot that the main program has *)
(* taken and not filled.                                                   *)
Keeping ==
  /\ kept \in Seq(Record) /\ Len(kept) = Held
  /\ \A s \in Memory!Raw!Slots : s < Held /\ s # rawSlot => log[s] = kept[s + 1]

(* The change of the main program, which finds the logger recording or     *)
(* full until it has its slot and has filled it.                           *)
Changing ==
  /\ change # None => rawState \in {"S_REC", "S_FULL"}
  /\ reserved => change # None
  /\ reserved /\ rawSlot < LOGSIZE => rawSlot < Held /\ kept[rawSlot + 1] = change
  /\ ~reserved => rawSlot = LOGSIZE
  /\ rawState \in {"S_REC", "S_IDLE"} => rawCount <= LOGSIZE
  /\ change # None /\ ~reserved => rawCount <= LOGSIZE + 1

Reporting ==
  /\ rawState = "S_REP_LOG" =>
       /\ change = None /\ total_reports = Held /\ report_index <= total_reports
       /\ uart_msg \in Seq(Words) /\ rawReport \in Seq(Words)
  /\ rawState # "S_REP_LOG" => uart_msg = << >> /\ rawReport = << >>
  /\ Memory!Raw!ReportTellsLog

RawInv == Memory!Raw!TypeOK /\ Keeping /\ Changing /\ Reporting

LEMMA PrefixGrows ==
  ASSUME NEW S, NEW q \in Seq(S), NEW i \in Nat, i < Len(q)
  PROVE  SubSeq(q, 1, i + 1) = SubSeq(q, 1, i) \o <<q[i + 1]>>
<1>1. Len(q) \in Nat /\ \A j \in 1..Len(q) : q[j] \in S
  BY LenProperties, ElementOfSeq
<1>2. /\ SubSeq(q, 1, i) \in Seq(S) /\ Len(SubSeq(q, 1, i)) = i
      /\ \A j \in 1..i : SubSeq(q, 1, i)[j] = q[j]
  <2>1. \A j \in 1..i : q[j] \in S
    BY <1>1
  <2>2. i \in Int /\ 1 \in Int /\ (1 <= i => i - 1 + 1 = i) /\ (~(1 <= i) => i = 0)
    OBVIOUS
  <2>3. /\ SubSeq(q, 1, i) \in Seq(S)
        /\ Len(SubSeq(q, 1, i)) = (IF 1 <= i THEN i - 1 + 1 ELSE 0)
        /\ \A j \in 1..(i - 1 + 1) : SubSeq(q, 1, i)[j] = q[1 + j - 1]
    BY <2>1, <2>2, SubSeqProperties
  <2> QED
    BY <2>2, <2>3
<1>3. /\ SubSeq(q, 1, i + 1) \in Seq(S) /\ Len(SubSeq(q, 1, i + 1)) = i + 1
      /\ \A j \in 1..(i + 1) : SubSeq(q, 1, i + 1)[j] = q[j]
  <2>1. \A j \in 1..(i + 1) : q[j] \in S
    BY <1>1
  <2>2. i + 1 \in Int /\ 1 \in Int /\ 1 <= i + 1 /\ i + 1 - 1 + 1 = i + 1
    OBVIOUS
  <2>3. /\ SubSeq(q, 1, i + 1) \in Seq(S)
        /\ Len(SubSeq(q, 1, i + 1)) = (IF 1 <= i + 1 THEN i + 1 - 1 + 1 ELSE 0)
        /\ \A j \in 1..(i + 1 - 1 + 1) : SubSeq(q, 1, i + 1)[j] = q[1 + j - 1]
    BY <2>1, <2>2, SubSeqProperties
  <2> QED
    BY <2>2, <2>3
<1>4. q[i + 1] \in S
  BY <1>1
<1>5. /\ <<q[i + 1]>> \in Seq(S) /\ Len(<<q[i + 1]>>) = 1 /\ <<q[i + 1]>>[1] = q[i + 1]
  BY <1>4
<1> DEFINE r == SubSeq(q, 1, i) \o <<q[i + 1]>>
<1>6. /\ r \in Seq(S) /\ Len(r) = i + 1
      /\ \A j \in 1..(i + 1) : r[j] = IF j <= i THEN SubSeq(q, 1, i)[j] ELSE <<q[i + 1]>>[j - i]
  BY <1>2, <1>5, ConcatProperties
<1> HIDE DEF r
<1>7. ASSUME NEW j \in 1..(i + 1) PROVE r[j] = q[j]
  <2>1. CASE j <= i
    BY <1>2, <1>6, <2>1
  <2>2. CASE ~(j <= i)
    <3>1. j = i + 1 /\ j - i = 1
      BY <2>2
    <3> QED
      BY <1>5, <1>6, <2>2, <3>1
  <2> QED
    BY <2>1, <2>2
<1>8. SubSeq(q, 1, i + 1) = r
  <2>1. /\ Len(SubSeq(q, 1, i + 1)) = Len(r)
        /\ \A j \in 1..Len(SubSeq(q, 1, i + 1)) : SubSeq(q, 1, i + 1)[j] = r[j]
    BY <1>3, <1>6, <1>7
  <2> QED
    BY <1>3, <1>6, <2>1, SeqEqual
<1> QED
  BY <1>8 DEF r

LEMMA Regroup ==
  ASSUME NEW p \in Seq(Words), NEW q \in Seq(Words), NEW r \in Seq(Words)
  PROVE  (p \o q) \o r = p \o (q \o r)
BY ConcatAssociative

LEMMA RawInit == Memory!Raw!Init => RawInv
<1> SUFFICES ASSUME Memory!Raw!Init PROVE RawInv
  OBVIOUS
<1>1. LOGSIZE \in Nat \ {0}
  BY MemoryAssumption DEF Memory!BufferAssumption, Memory!LogAssumption
<1>2. Memory!Raw!TypeOK
  <2>1. {rawFulls, reserved} \subseteq BOOLEAN
    BY Zenon DEF Memory!Raw!Init
  <2> QED
    BY <1>1, <2>1 DEF Memory!Raw!Init, Memory!Raw!TypeOK
<1>3. Keeping /\ Changing /\ Reporting
  BY <1>1
     DEF Memory!Raw!Init, Keeping, Held, Changing, Reporting, Memory!Raw!ReportTellsLog,
         Memory!Raw!Slots
<1> QED
  BY <1>2, <1>3 DEF RawInv

(* Counting a change appends it to what was kept, if it has a slot.        *)
LEMMA CountKeeps ==
  ASSUME RawInv, NEW e \in Record, rawState \in {"S_REC", "S_FULL"},
         Memory!Raw!Count(e), rawCount <= LOGSIZE + 1
  PROVE  /\ kept' \in Seq(Record) /\ Len(kept') = Held'
         /\ \A i \in 1..Held : kept'[i] = kept[i]
         /\ rawCount < LOGSIZE => Held = rawCount /\ kept'[rawCount + 1] = e /\ Held' = rawCount + 1
         /\ rawCount >= LOGSIZE => Held = LOGSIZE /\ Held' = LOGSIZE
         /\ Held' \in 0..LOGSIZE /\ Held \in 0..LOGSIZE
         /\ rawCount' = rawCount + 1 /\ rawCount' \in 0..(LOGSIZE + 2)
         /\ rawState' \in {"S_REC", "S_FULL"}
         /\ (rawState' = "S_REC" => rawCount' <= LOGSIZE)
<1>1. LOGSIZE \in Nat \ {0} /\ rawCount \in Nat
  BY MemoryAssumption
     DEF Memory!BufferAssumption, Memory!LogAssumption, RawInv, Memory!Raw!TypeOK
<1>2. /\ rawCount' = rawCount + 1
      /\ rawState' = (IF rawCount < LOGSIZE THEN rawState ELSE "S_FULL")
      /\ kept' = (IF rawCount < LOGSIZE THEN Append(kept, e) ELSE kept)
  BY DEF Memory!Raw!Count, Memory!Raw!HasRoom
<1>3. kept \in Seq(Record) /\ Len(kept) = Held
  BY DEF RawInv, Keeping
<1>4. Held = IF rawCount < LOGSIZE THEN rawCount ELSE LOGSIZE
  BY DEF Held
<1>5. Held' = IF rawCount + 1 < LOGSIZE THEN rawCount + 1 ELSE LOGSIZE
  BY <1>2 DEF Held
<1>6. /\ Append(kept, e) \in Seq(Record) /\ Len(Append(kept, e)) = Len(kept) + 1
      /\ \A i \in 1..Len(kept) : Append(kept, e)[i] = kept[i]
      /\ Append(kept, e)[Len(kept) + 1] = e
  BY <1>3, AppendProperties
<1>7. CASE rawCount < LOGSIZE
  BY <1>1, <1>2, <1>3, <1>4, <1>5, <1>6, <1>7
<1>8. CASE ~(rawCount < LOGSIZE)
  BY <1>1, <1>2, <1>3, <1>4, <1>5, <1>8
<1> QED
  BY <1>7, <1>8

LEMMA RawStep ==
  ASSUME RawInv, [Memory!Raw!Next]_Memory!Raw!vars
  PROVE  RawInv' /\ (Memory!Raw!ReportEnds => Memory!Raw!ReportIsComplete)
<1>1. LOGSIZE \in Nat \ {0} /\ None \notin Record
  BY MemoryAssumption DEF Memory!BufferAssumption, Memory!LogAssumption
<1>2. /\ log \in [Memory!Raw!Slots -> Record \cup {None}] /\ rawCount \in 0..(LOGSIZE + 2)
      /\ rawState \in {"S_IDLE", "S_REC", "S_FULL", "S_REP_LOG"}
      /\ report_index \in 0..LOGSIZE /\ total_reports \in 0..LOGSIZE
      /\ {rawFulls, reserved} \subseteq BOOLEAN /\ change \in Record \cup {None}
      /\ rawSlot \in 0..LOGSIZE
  BY DEF RawInv, Memory!Raw!TypeOK
<1>3. kept \in Seq(Record) /\ Len(kept) = Held /\ Held \in 0..LOGSIZE /\ Held <= rawCount
  BY <1>1, <1>2 DEF RawInv, Keeping, Held
<1>4. ASSUME NEW e \in Record, Memory!Raw!HandlerRecords(e)
      PROVE RawInv' /\ ~Memory!Raw!ReportEnds
  <2>1. /\ rawState = "S_REC" /\ Memory!Raw!Count(e)
        /\ log' = (IF rawCount < LOGSIZE THEN [log EXCEPT ![rawCount] = e] ELSE log)
        /\ UNCHANGED <<report_index, total_reports, uart_msg, rawReport, change, reserved, rawSlot>>
    BY <1>4
       DEF Memory!Raw!HandlerRecords, Memory!Raw!HasRoom, Memory!Raw!reporting,
           Memory!Raw!local
  <2>2. rawCount <= LOGSIZE
    BY <2>1 DEF RawInv, Changing
  <2>3. /\ kept' \in Seq(Record) /\ Len(kept') = Held'
        /\ \A i \in 1..Held : kept'[i] = kept[i]
        /\ rawCount < LOGSIZE => Held = rawCount /\ kept'[rawCount + 1] = e /\ Held' = rawCount + 1
        /\ rawCount >= LOGSIZE => Held = LOGSIZE /\ Held' = LOGSIZE
        /\ Held' \in 0..LOGSIZE /\ Held \in 0..LOGSIZE
        /\ rawCount' = rawCount + 1 /\ rawCount' \in 0..(LOGSIZE + 2)
        /\ rawState' \in {"S_REC", "S_FULL"}
        /\ (rawState' = "S_REC" => rawCount' <= LOGSIZE)
    BY <1>1, <1>2, <2>1, <2>2, CountKeeps
  <2>4. Memory!Raw!TypeOK'
    <3>1. {rawFulls', reserved'} \subseteq BOOLEAN
      <4>1. rawFulls' \in BOOLEAN
        BY <1>4, Zenon DEF Memory!Raw!HandlerRecords
      <4> QED
        BY <1>2, <2>1, <4>1
    <3>2. log' \in [Memory!Raw!Slots -> Record \cup {None}]
      BY <1>2, <2>1
    <3> QED
      BY <1>2, <2>1, <2>3, <3>1, <3>2 DEF Memory!Raw!TypeOK
  <2>5. Keeping'
    <3>1. \A s \in Memory!Raw!Slots : s < Held' /\ s # rawSlot' => log'[s] = kept'[s + 1]
      <4> SUFFICES ASSUME NEW s \in Memory!Raw!Slots, s < Held', s # rawSlot
                   PROVE log'[s] = kept'[s + 1]
        BY <2>1
      <4>1. s \in Nat /\ s < LOGSIZE
        BY <1>1 DEF Memory!Raw!Slots
      <4>2. CASE s < Held
        <5>1. log[s] = kept[s + 1] /\ kept'[s + 1] = kept[s + 1]
          BY <1>3, <2>3, <4>1, <4>2 DEF RawInv, Keeping
        <5>2. log'[s] = log[s]
          BY <1>1, <1>2, <2>1, <2>3, <4>1, <4>2
        <5> QED
          BY <5>1, <5>2
      <4>3. CASE ~(s < Held)
        <5>1. rawCount < LOGSIZE /\ s = rawCount
          BY <1>1, <1>2, <2>3, <4>1, <4>3
        <5> QED
          BY <1>2, <2>1, <2>3, <5>1
      <4> QED
        BY <4>2, <4>3
    <3> QED
      BY <2>3, <3>1 DEF Keeping
  <2>6. Changing'
    <3>1. reserved /\ rawSlot < LOGSIZE => rawSlot < Held' /\ kept'[rawSlot + 1] = change
      BY <1>1, <1>2, <1>3, <2>3 DEF RawInv, Changing
    <3> QED
      BY <1>1, <1>2, <2>1, <2>2, <2>3, <3>1 DEF RawInv, Changing
  <2>7. Reporting'
    BY <2>1, <2>3 DEF RawInv, Reporting, Memory!Raw!ReportTellsLog
  <2> QED
    BY <2>1, <2>4, <2>5, <2>6, <2>7 DEF RawInv, Memory!Raw!ReportEnds
<1>5. ASSUME NEW e \in Record, Memory!Raw!TaskReadsState(e)
      PROVE RawInv' /\ ~Memory!Raw!ReportEnds
  <2>1. /\ change = None /\ rawState = "S_REC" /\ change' = e
        /\ UNCHANGED <<log, rawCount, rawState, report_index, total_reports, uart_msg, rawReport, rawFulls,
                       reserved, rawSlot, kept>>
    BY <1>5 DEF Memory!Raw!TaskReadsState, Memory!Raw!Ready, Memory!Raw!reporting
  <2>2. Memory!Raw!TypeOK' /\ Keeping'
    BY <2>1 DEF RawInv, Memory!Raw!TypeOK, Keeping, Held
  <2>3. Changing'
    BY <1>1, <1>2, <2>1 DEF RawInv, Changing
  <2>4. Reporting'
    BY <2>1 DEF RawInv, Reporting, Memory!Raw!ReportTellsLog
  <2> QED
    BY <2>1, <2>2, <2>3, <2>4 DEF RawInv, Memory!Raw!ReportEnds
<1>6. CASE Memory!Raw!TaskReserves
  <2>1. /\ change # None /\ change \in Record /\ ~reserved /\ Memory!Raw!Count(change)
        /\ reserved' = TRUE /\ rawSlot' = (IF rawCount < LOGSIZE THEN rawCount ELSE LOGSIZE)
        /\ UNCHANGED <<log, report_index, total_reports, uart_msg, rawReport, rawFulls, change>>
    BY <1>2, <1>6
       DEF Memory!Raw!TaskReserves, Memory!Raw!Ready, Memory!Raw!HasRoom,
           Memory!Raw!reporting
  <2>2. rawCount <= LOGSIZE + 1 /\ rawState \in {"S_REC", "S_FULL"} /\ rawSlot = LOGSIZE
    BY <2>1 DEF RawInv, Changing
  <2>3. /\ kept' \in Seq(Record) /\ Len(kept') = Held'
        /\ \A i \in 1..Held : kept'[i] = kept[i]
        /\ rawCount < LOGSIZE => Held = rawCount /\ kept'[rawCount + 1] = change /\ Held' = rawCount + 1
        /\ rawCount >= LOGSIZE => Held = LOGSIZE /\ Held' = LOGSIZE
        /\ Held' \in 0..LOGSIZE /\ Held \in 0..LOGSIZE
        /\ rawCount' = rawCount + 1 /\ rawCount' \in 0..(LOGSIZE + 2)
        /\ rawState' \in {"S_REC", "S_FULL"}
        /\ (rawState' = "S_REC" => rawCount' <= LOGSIZE)
    BY <2>1, <2>2, CountKeeps
  <2>4. Memory!Raw!TypeOK'
    BY <1>1, <1>2, <2>1, <2>3 DEF Memory!Raw!TypeOK
  <2>5. Keeping'
    <3>1. \A s \in Memory!Raw!Slots : s < Held' /\ s # rawSlot' => log'[s] = kept'[s + 1]
      <4> SUFFICES ASSUME NEW s \in Memory!Raw!Slots, s < Held', s # rawSlot'
                   PROVE log'[s] = kept'[s + 1]
        OBVIOUS
      <4>1. s \in Nat /\ s < LOGSIZE
        BY <1>1 DEF Memory!Raw!Slots
      <4>2. s < Held
        BY <1>1, <1>2, <2>1, <2>3, <4>1
      <4> QED
        BY <1>1, <1>3, <2>1, <2>2, <2>3, <4>1, <4>2 DEF RawInv, Keeping
    <3> QED
      BY <2>3, <3>1 DEF Keeping
  <2>6. Changing'
    BY <1>1, <1>2, <2>1, <2>2, <2>3 DEF Changing
  <2>7. Reporting'
    BY <2>1, <2>2, <2>3 DEF RawInv, Reporting, Memory!Raw!ReportTellsLog
  <2> QED
    BY <2>2, <2>4, <2>5, <2>6, <2>7 DEF RawInv, Memory!Raw!ReportEnds
<1>7. CASE Memory!Raw!TaskFills
  <2>1. /\ reserved /\ change' = None /\ reserved' = FALSE /\ rawSlot' = LOGSIZE
        /\ log' = (IF rawSlot = LOGSIZE THEN log ELSE [log EXCEPT ![rawSlot] = change])
        /\ UNCHANGED <<rawCount, rawState, report_index, total_reports, uart_msg, rawReport, kept>>
    BY <1>7 DEF Memory!Raw!TaskFills, Memory!Raw!reporting
  <2>2. change # None /\ rawState \in {"S_REC", "S_FULL"} /\ Held' = Held
    BY <2>1 DEF RawInv, Changing, Held
  <2>3. Memory!Raw!TypeOK'
    <3>1. rawFulls' \in BOOLEAN
      BY <1>7, Zenon DEF Memory!Raw!TaskFills
    <3>2. log' \in [Memory!Raw!Slots -> Record \cup {None}]
      BY <1>2, <2>1
    <3>3. {rawFulls', reserved'} \subseteq BOOLEAN
      BY <2>1, <3>1
    <3>4. /\ rawCount' \in 0..(LOGSIZE + 2) /\ rawSlot' \in 0..LOGSIZE
          /\ report_index' \in 0..LOGSIZE /\ total_reports' \in 0..LOGSIZE
      BY <1>1, <1>2, <2>1
    <3> QED
      BY <1>2, <2>1, <3>2, <3>3, <3>4 DEF Memory!Raw!TypeOK
  <2>4. Keeping'
    <3>1. \A s \in Memory!Raw!Slots : s < Held => log'[s] = kept[s + 1]
      <4> SUFFICES ASSUME NEW s \in Memory!Raw!Slots, s < Held PROVE log'[s] = kept[s + 1]
        OBVIOUS
      <4>1. s \in Nat /\ s < LOGSIZE
        BY <1>1 DEF Memory!Raw!Slots
      <4>2. CASE s # rawSlot
        BY <1>2, <2>1, <4>1, <4>2 DEF RawInv, Keeping
      <4>3. CASE s = rawSlot
        BY <1>2, <2>1, <4>1, <4>3 DEF RawInv, Changing
      <4> QED
        BY <4>2, <4>3
    <3> QED
      BY <1>3, <2>1, <2>2, <3>1 DEF Keeping
  <2>5. Changing'
    BY <1>1, <2>1, <2>2 DEF RawInv, Changing
  <2>6. Reporting'
    BY <2>1, <2>2 DEF RawInv, Reporting, Memory!Raw!ReportTellsLog
  <2> QED
    BY <2>2, <2>3, <2>4, <2>5, <2>6 DEF RawInv, Memory!Raw!ReportEnds
<1>8. CASE Memory!Raw!SignalFull
  BY <1>8
     DEF Memory!Raw!SignalFull, RawInv, Memory!Raw!TypeOK, Keeping, Held, Changing,
         Reporting, Memory!Raw!ReportTellsLog, Memory!Raw!ReportEnds,
         Memory!Raw!reporting, Memory!Raw!local
<1>9. CASE Memory!Raw!record
  <2>1. /\ rawState = "S_IDLE" /\ rawState' = "S_REC" /\ change = None
        /\ UNCHANGED <<log, rawCount, report_index, total_reports, uart_msg, rawReport, rawFulls, change,
                       reserved, rawSlot, kept>>
    BY <1>9
       DEF Memory!Raw!record, Memory!Raw!Ready, Memory!Raw!reporting, Memory!Raw!local
  <2>2. Memory!Raw!TypeOK' /\ Keeping'
    BY <2>1 DEF RawInv, Memory!Raw!TypeOK, Keeping, Held
  <2>3. Changing' /\ Reporting'
    BY <2>1 DEF RawInv, Changing, Held, Reporting, Memory!Raw!ReportTellsLog
  <2> QED
    BY <2>1, <2>2, <2>3 DEF RawInv, Memory!Raw!ReportEnds
<1>10. CASE Memory!Raw!flush
  <2>1. /\ change = None /\ rawState \in {"S_REC", "S_FULL"} /\ rawState' = "S_REP_LOG"
        /\ total_reports' = Memory!Raw!TotalReports /\ report_index' = 0
        /\ uart_msg' = <<rawCount>>
        /\ UNCHANGED <<log, rawCount, rawFulls, change, reserved, rawSlot, kept, rawReport>>
    BY <1>10 DEF Memory!Raw!flush, Memory!Raw!Ready, Memory!Raw!local
  <2>2. total_reports' = Held /\ Held' = Held /\ rawReport = << >>
    BY <1>1, <1>2, <2>1 DEF Memory!Raw!TotalReports, Held, RawInv, Reporting
  <2>3. Memory!Raw!TypeOK' /\ Keeping'
    BY <1>1, <1>2, <1>3, <2>1, <2>2 DEF RawInv, Memory!Raw!TypeOK, Keeping
  <2>4. Changing'
    BY <1>1, <2>1, <2>2 DEF RawInv, Changing
  <2>5. Reporting'
    <3>1. uart_msg' \in Seq(Words) /\ rawReport' \in Seq(Words)
      BY <1>2, <2>1, <2>2 DEF Words
    <3>2. SubSeq(kept, 1, 0) = << >>
      BY <1>3
    <3>3. rawReport' \o uart_msg' = <<rawCount'>> \o SubSeq(kept', 1, report_index')
      BY <1>2, <2>1, <2>2, <3>2
    <3> QED
      BY <1>3, <2>1, <2>2, <3>1, <3>3 DEF Reporting, Memory!Raw!ReportTellsLog
  <2> QED
    BY <2>1, <2>3, <2>4, <2>5 DEF RawInv, Memory!Raw!ReportEnds
<1>11. CASE Memory!Raw!SendDone
  <2>1. /\ uart_msg # << >> /\ UNCHANGED <<log, rawFulls, change, reserved, rawSlot>>
    BY <1>11 DEF Memory!Raw!SendDone, Memory!Raw!local
  <2>2. /\ rawState = "S_REP_LOG" /\ change = None /\ reserved = FALSE /\ rawSlot = LOGSIZE
        /\ total_reports = Held /\ report_index <= total_reports
        /\ uart_msg \in Seq(Words) /\ rawReport \in Seq(Words)
        /\ rawReport \o uart_msg = <<rawCount>> \o SubSeq(kept, 1, report_index)
    BY <1>2, <2>1 DEF RawInv, Reporting, Memory!Raw!ReportTellsLog, Changing
  <2>3. CASE Memory!Raw!MoreToReport
    <3>1. /\ report_index < total_reports /\ uart_msg' = <<log[report_index]>>
          /\ report_index' = report_index + 1 /\ rawReport' = rawReport \o uart_msg
          /\ UNCHANGED <<rawCount, rawState, total_reports, kept>>
      BY <1>11, <2>3 DEF Memory!Raw!SendDone, Memory!Raw!MoreToReport
    <3>2. report_index \in Memory!Raw!Slots /\ report_index < Held /\ Held' = Held
      BY <1>1, <1>2, <1>3, <2>2, <3>1 DEF Memory!Raw!Slots, Held
    <3>3. log[report_index] = kept[report_index + 1] /\ kept[report_index + 1] \in Record
      <4>1. log[report_index] = kept[report_index + 1]
        BY <1>1, <1>2, <2>2, <3>2 DEF RawInv, Keeping, Memory!Raw!Slots
      <4>2. report_index + 1 \in 1..Len(kept)
        BY <1>2, <1>3, <3>2
      <4> QED
        BY <1>3, <4>1, <4>2, ElementOfSeq
    <3>4. Memory!Raw!TypeOK' /\ Keeping' /\ Changing'
      BY <1>1, <1>2, <2>1, <2>2, <3>1, <3>2
         DEF RawInv, Memory!Raw!TypeOK, Keeping, Changing
    <3>5. /\ SubSeq(kept, 1, report_index + 1)
                = SubSeq(kept, 1, report_index) \o <<kept[report_index + 1]>>
      BY <1>2, <1>3, <3>2, PrefixGrows
    <3>6. /\ uart_msg' \in Seq(Words) /\ rawReport' \in Seq(Words)
          /\ <<rawCount>> \in Seq(Words) /\ <<kept[report_index + 1]>> \in Seq(Words)
      <4>1. rawCount \in Words /\ kept[report_index + 1] \in Words
        BY <1>2, <3>3 DEF Words
      <4>2. <<rawCount>> \in Seq(Words) /\ <<kept[report_index + 1]>> \in Seq(Words)
        BY <4>1
      <4>3. rawReport \o uart_msg \in Seq(Words)
        BY <2>2, ConcatProperties
      <4> QED
        BY <3>1, <3>3, <4>2, <4>3
    <3>7. SubSeq(kept, 1, report_index) \in Seq(Words)
      <4>1. \A j \in 1..report_index : kept[j] \in Words
        <5>1. \A j \in 1..Len(kept) : kept[j] \in Record
          BY <1>3, ElementOfSeq
        <5> QED
          BY <1>2, <1>3, <3>2, <5>1 DEF Words
      <4> QED
        BY <1>2, <4>1, SubSeqProperties
    <3>8. rawReport' \o uart_msg' = <<rawCount>> \o SubSeq(kept, 1, report_index + 1)
      <4>1. (<<rawCount>> \o SubSeq(kept, 1, report_index)) \o <<kept[report_index + 1]>>
              = <<rawCount>> \o (SubSeq(kept, 1, report_index) \o <<kept[report_index + 1]>>)
        BY <3>6, <3>7, Regroup
      <4> QED
        BY <2>2, <3>1, <3>3, <3>5, <4>1
    <3>9. Reporting'
      BY <1>2, <2>1, <2>2, <3>1, <3>2, <3>6, <3>8
         DEF Reporting, Memory!Raw!ReportTellsLog
    <3> QED
      BY <2>2, <3>1, <3>4, <3>9 DEF RawInv, Memory!Raw!ReportEnds
  <2>4. CASE ~Memory!Raw!MoreToReport
    <3>1. /\ ~(report_index < total_reports) /\ uart_msg' = << >> /\ rawCount' = 0
          /\ report_index' = 0 /\ total_reports' = 0 /\ rawState' = "S_IDLE"
          /\ kept' = << >> /\ rawReport' = << >>
      BY <1>11, <2>4
         DEF Memory!Raw!SendDone, Memory!Raw!MoreToReport, Memory!Raw!InitState
    <3>2. report_index = Len(kept)
      BY <1>2, <1>3, <2>2, <3>1
    <3>3. Memory!Raw!TypeOK' /\ Keeping' /\ Changing' /\ Reporting'
      <4>1. Held' = 0
        BY <1>1, <3>1 DEF Held
      <4>2. Memory!Raw!TypeOK'
        BY <1>1, <1>2, <2>1, <3>1 DEF Memory!Raw!TypeOK
      <4>3. Keeping'
        BY <3>1, <4>1 DEF Keeping, Memory!Raw!Slots
      <4> QED
        BY <1>1, <2>1, <2>2, <3>1, <4>2, <4>3
           DEF Changing, Reporting, Memory!Raw!ReportTellsLog
    <3> QED
      BY <3>2, <3>3 DEF RawInv, Memory!Raw!ReportIsComplete
  <2> QED
    BY <2>3, <2>4
<1>12. CASE UNCHANGED Memory!Raw!vars
  BY <1>12
     DEF Memory!Raw!vars, RawInv, Memory!Raw!TypeOK, Keeping, Held, Changing, Reporting,
         Memory!Raw!ReportTellsLog, Memory!Raw!ReportEnds, Memory!Raw!reporting,
         Memory!Raw!local
<1> QED
  BY <1>4, <1>5, <1>6, <1>7, <1>8, <1>9, <1>10, <1>11, <1>12 DEF Memory!Raw!Next

------------------------------------------------------------------------------
(* The logger that dumps continuously.                                     *)

(* The task t is in the queue q. *)
Has(q, t) == \E i \in 1..Len(q) : q[i] = t

PostedTasks == {"dump", "startDone", "stopDone"}

(* The property is inductive by itself, with the types of the variables.   *)
DumpInv == Memory!Dumping!TypeOK /\ tasks \in Seq(PostedTasks) /\ Memory!Dumping!DumpsGoOn

LEMMA AppendContains ==
  ASSUME NEW q \in Seq(PostedTasks), NEW t \in PostedTasks
  PROVE  /\ Append(q, t) \in Seq(PostedTasks) /\ Has(Append(q, t), t)
         /\ \A u \in PostedTasks : Has(q, u) => Has(Append(q, t), u)
<1>1. /\ Append(q, t) \in Seq(PostedTasks) /\ Len(Append(q, t)) = Len(q) + 1
      /\ \A i \in 1..Len(q) : Append(q, t)[i] = q[i]
      /\ Append(q, t)[Len(q) + 1] = t /\ Len(q) \in Nat
  BY AppendProperties, LenProperties
<1> DEFINE r == Append(q, t)
<1> HIDE DEF r
<1>2. /\ Len(r) = Len(q) + 1 /\ \A i \in 1..Len(q) : r[i] = q[i]
      /\ r[Len(q) + 1] = t /\ Len(q) \in Nat
  BY <1>1 DEF r
<1>3. \E i \in 1..Len(r) : r[i] = t
  BY <1>2
<1>4. ASSUME NEW u \in PostedTasks, NEW i \in 1..Len(q), q[i] = u
      PROVE  \E j \in 1..Len(r) : r[j] = u
  <2>1. i \in 1..Len(r) /\ r[i] = u
    BY <1>2, <1>4
  <2> QED
    BY <2>1
<1>5. Has(r, t) /\ \A u \in PostedTasks : Has(q, u) => Has(r, u)
  BY <1>3, <1>4 DEF Has
<1> QED
  BY <1>1, <1>5 DEF r

LEMMA TailContains ==
  ASSUME NEW q \in Seq(PostedTasks), q # << >>
  PROVE  /\ Tail(q) \in Seq(PostedTasks)
         /\ \A u \in PostedTasks : Has(q, u) /\ Head(q) # u => Has(Tail(q), u)
<1>1. /\ Tail(q) \in Seq(PostedTasks) /\ Len(Tail(q)) = Len(q) - 1
      /\ \A i \in 1..Len(Tail(q)) : Tail(q)[i] = q[i + 1]
      /\ Len(q) \in Nat \ {0} /\ Head(q) = q[1]
  BY HeadTailProperties, EmptySeq, LenProperties
<1> DEFINE r == Tail(q)
<1> HIDE DEF r
<1>2. ASSUME NEW u \in PostedTasks, NEW i \in 1..Len(q), q[i] = u, Head(q) # u
      PROVE  \E j \in 1..Len(r) : r[j] = u
  <2>1. i - 1 \in 1..Len(r) /\ r[i - 1] = u
    BY <1>1, <1>2 DEF r
  <2> QED
    BY <2>1
<1>3. \A u \in PostedTasks : Has(q, u) /\ Head(q) # u => Has(r, u)
  BY <1>2 DEF Has
<1> QED
  BY <1>1, <1>3 DEF r

LEMMA PostKeeps ==
  ASSUME tasks \in Seq(PostedTasks), NEW t \in PostedTasks
  PROVE  /\ Memory!Dumping!Post(t) \in Seq(PostedTasks) /\ Has(Memory!Dumping!Post(t), t)
         /\ \A u \in PostedTasks : Has(tasks, u) => Has(Memory!Dumping!Post(t), u)
BY AppendContains
   DEF Memory!Dumping!Post, Memory!Dumping!Posted, Memory!Dumping!Contains, Has

LEMMA TakeKeeps ==
  ASSUME tasks \in Seq(PostedTasks), NEW t \in PostedTasks, Memory!Dumping!NextTask(t)
  PROVE  /\ Tail(tasks) \in Seq(PostedTasks)
         /\ \A u \in PostedTasks : Memory!Dumping!Posted(u) /\ t # u => Has(Tail(tasks), u)
BY TailContains
   DEF Memory!Dumping!NextTask, Memory!Dumping!Posted, Memory!Dumping!Contains, Has

LEMMA DumpInit == Memory!Dumping!Init => DumpInv
<1> SUFFICES ASSUME Memory!Dumping!Init PROVE DumpInv
  OBVIOUS
<1>1. tasks \in Seq(PostedTasks)
  BY DEF Memory!Dumping!Init, PostedTasks
<1>2. Memory!Dumping!TypeOK
  <2>1. {m_sending, m_dump_posted, posting} \subseteq BOOLEAN
    BY Zenon DEF Memory!Dumping!Init
  <2> QED
    BY <2>1, MemoryAssumption
       DEF Memory!Dumping!Init, Memory!Dumping!TypeOK, Memory!BufferAssumption,
           Memory!Dumping!Slots
<1> QED
  BY <1>1, <1>2 DEF DumpInv, Memory!Dumping!DumpsGoOn, Memory!Dumping!Init

LEMMA StoreKeeps ==
  ASSUME DumpInv, NEW e \in Record, Memory!Dumping!Store(e),
         posting' \in BOOLEAN
  PROVE  Memory!Dumping!TypeOK' /\ m_dump_posted' = TRUE
<1>1. /\ buffer \in [Memory!Dumping!Slots -> Record \cup {None}]
      /\ dumpHead \in Memory!Dumping!Slots /\ m_count \in 0..(Counter - 1)
      /\ DUMPSIZE \in Nat \ {0} /\ Counter \in Nat \ {0}
  BY MemoryAssumption DEF Memory!BufferAssumption, DumpInv, Memory!Dumping!TypeOK
<1>2. /\ buffer' = [buffer EXCEPT ![dumpHead] = e] /\ dumpHead' = (dumpHead + 1) % DUMPSIZE
      /\ m_count' = (m_count + 1) % Counter /\ m_dump_posted' = TRUE
      /\ UNCHANGED <<dumpTail, m_sending, dumpState, uart>>
  BY DEF Memory!Dumping!Store, Memory!Dumping!NextSlot
<1>3. buffer' \in [Memory!Dumping!Slots -> Record \cup {None}]
  BY <1>1, <1>2
<1>4. dumpHead' \in Memory!Dumping!Slots
  BY <1>1, <1>2 DEF Memory!Dumping!Slots
<1>5. m_count' \in 0..(Counter - 1) /\ dumpTail' \in 0..(Counter - 1)
  BY <1>1, <1>2 DEF DumpInv, Memory!Dumping!TypeOK
<1>6. {m_sending', m_dump_posted', posting'} \subseteq BOOLEAN
  BY <1>2 DEF DumpInv, Memory!Dumping!TypeOK
<1> QED
  BY <1>2, <1>3, <1>4, <1>5, <1>6 DEF DumpInv, Memory!Dumping!TypeOK

LEMMA DumpStep ==
  ASSUME DumpInv, [Memory!Dumping!Next]_Memory!Dumping!vars
  PROVE  DumpInv'
<1>1. /\ Memory!Dumping!TypeOK /\ tasks \in Seq(PostedTasks) /\ Memory!Dumping!DumpsGoOn
  BY DEF DumpInv
<1>2. /\ {"dump", "startDone", "stopDone"} \subseteq PostedTasks
      /\ DUMPSIZE \in Nat \ {0} /\ Counter \in Nat \ {0} /\ 0 \in Memory!Dumping!Slots
      /\ "idle" \notin Record /\ "idle" # None
  BY MemoryAssumption DEF PostedTasks, Memory!BufferAssumption, Memory!Dumping!Slots
<1>3. ASSUME NEW e \in Record, Memory!Dumping!HandlerRecords(e) PROVE DumpInv'
  <2>1. Memory!Dumping!Store(e) /\ posting' = posting /\ dumpState' = dumpState
        /\ tasks' = IF m_dump_posted THEN tasks ELSE Memory!Dumping!Post("dump")
    BY <1>3 DEF Memory!Dumping!HandlerRecords, Memory!Dumping!Store
  <2>2. Memory!Dumping!TypeOK' /\ m_dump_posted' = TRUE
    BY <1>1, <2>1, StoreKeeps DEF Memory!Dumping!TypeOK
  <2>3. tasks' \in Seq(PostedTasks) /\ (~m_dump_posted => Memory!Dumping!Posted("dump")')
        /\ (m_dump_posted => tasks' = tasks)
    BY <1>1, <1>2, <2>1, PostKeeps
       DEF Memory!Dumping!Posted, Memory!Dumping!Contains, Has
  <2>4. Memory!Dumping!DumpsGoOn'
    BY <1>1, <2>1, <2>2, <2>3
       DEF Memory!Dumping!DumpsGoOn, Memory!Dumping!Posted, Memory!Dumping!Contains, Has
  <2> QED
    BY <2>2, <2>3, <2>4 DEF DumpInv
<1>4. ASSUME NEW e \in Record, Memory!Dumping!TaskRecords(e) PROVE DumpInv'
  <2>1. /\ Memory!Dumping!Store(e) /\ ~posting /\ posting' = ~m_dump_posted
        /\ dumpState' = dumpState /\ tasks' = tasks
    BY <1>4 DEF Memory!Dumping!TaskRecords, Memory!Dumping!Store
  <2>2. posting' \in BOOLEAN
    BY <2>1
  <2>3. Memory!Dumping!TypeOK' /\ m_dump_posted' = TRUE
    BY <2>1, <2>2, StoreKeeps
  <2>4. Memory!Dumping!DumpsGoOn'
    BY <1>1, <2>1, <2>3
       DEF Memory!Dumping!DumpsGoOn, Memory!Dumping!Posted, Memory!Dumping!Contains, Has
  <2> QED
    BY <1>1, <2>1, <2>3, <2>4 DEF DumpInv
<1>5. CASE Memory!Dumping!TaskPosts
  <2>1. /\ posting' = FALSE /\ tasks' = Memory!Dumping!Post("dump")
        /\ UNCHANGED <<buffer, dumpHead, dumpTail, m_count, m_sending, m_dump_posted, dumpState, uart>>
    BY <1>5 DEF Memory!Dumping!TaskPosts, Memory!Dumping!ring
  <2>2. tasks' \in Seq(PostedTasks) /\ Memory!Dumping!Posted("dump")'
    BY <1>1, <1>2, <2>1, PostKeeps
       DEF Memory!Dumping!Posted, Memory!Dumping!Contains, Has
  <2> QED
    BY <1>1, <2>1, <2>2 DEF DumpInv, Memory!Dumping!TypeOK, Memory!Dumping!DumpsGoOn
<1>6. CASE Memory!Dumping!Dump
  <2>1. /\ Memory!Dumping!NextTask("dump")
        /\ UNCHANGED <<buffer, dumpHead, dumpTail, m_count, dumpState, posting>>
    BY <1>6 DEF Memory!Dumping!Dump, Memory!Dumping!ring
  <2>2. Tail(tasks) \in Seq(PostedTasks)
    BY <1>1, <1>2, <2>1, TakeKeeps
  <2>3. CASE /\ dumpState \in {"STOPPING", "STOPPED"} /\ tasks' = Tail(tasks)
             /\ UNCHANGED <<m_sending, m_dump_posted, uart>>
    BY <1>1, <2>1, <2>2, <2>3
       DEF DumpInv, Memory!Dumping!TypeOK, Memory!Dumping!DumpsGoOn
  <2>4. CASE /\ uart' \in Memory!Dumping!Tails /\ m_sending' = TRUE /\ m_dump_posted' = FALSE
             /\ tasks' = Tail(tasks)
    <3>1. uart' \in Record \cup {None} /\ uart' # "idle"
      BY <1>1, <1>2, <2>4 DEF Memory!Dumping!Tails, Memory!Dumping!TypeOK
    <3>2. {m_sending', m_dump_posted', posting'} \subseteq BOOLEAN
      BY <1>1, <2>1, <2>4 DEF Memory!Dumping!TypeOK
    <3>3. Memory!Dumping!TypeOK'
      BY <1>1, <2>1, <3>1, <3>2 DEF Memory!Dumping!TypeOK
    <3> QED
      BY <2>2, <2>4, <3>1, <3>3 DEF DumpInv, Memory!Dumping!DumpsGoOn
  <2>5. CASE /\ uart # "idle" /\ m_dump_posted' = TRUE /\ tasks' = Append(Tail(tasks), "dump")
             /\ UNCHANGED <<m_sending, uart>>
    <3>1. tasks' \in Seq(PostedTasks) /\ Memory!Dumping!Posted("dump")'
      BY <1>2, <2>2, <2>5, AppendContains
         DEF Memory!Dumping!Posted, Memory!Dumping!Contains, Has
    <3>2. {m_sending', m_dump_posted', posting'} \subseteq BOOLEAN
      BY <1>1, <2>1, <2>5 DEF Memory!Dumping!TypeOK
    <3>3. Memory!Dumping!TypeOK'
      BY <1>1, <2>1, <2>5, <3>2 DEF Memory!Dumping!TypeOK
    <3> QED
      BY <2>5, <3>1, <3>3 DEF DumpInv, Memory!Dumping!DumpsGoOn
  <2> QED
    BY <1>6, <2>3, <2>4, <2>5 DEF Memory!Dumping!Dump
<1>7. ASSUME NEW ok \in BOOLEAN, Memory!Dumping!SendDone(ok) PROVE DumpInv'
  <2>1. /\ ~posting /\ uart' = "idle" /\ m_sending' = FALSE
        /\ UNCHANGED <<buffer, dumpHead, dumpState, posting>>
    BY <1>7 DEF Memory!Dumping!SendDone
  <2>2. dumpTail' \in 0..(Counter - 1) /\ m_count' \in 0..(Counter - 1)
    <3>1. dumpTail \in 0..(Counter - 1) /\ m_count \in 0..(Counter - 1)
      BY <1>1 DEF Memory!Dumping!TypeOK
    <3>2. /\ dumpTail' = (IF ok THEN (dumpTail + 1) % Counter ELSE dumpTail)
          /\ m_count' = (IF ok THEN (m_count + Counter - 1) % Counter ELSE m_count)
      BY <1>7 DEF Memory!Dumping!SendDone
    <3>3. /\ (dumpTail + 1) % Counter \in 0..(Counter - 1)
          /\ (m_count + Counter - 1) % Counter \in 0..(Counter - 1)
      BY <1>2, <3>1
    <3> QED
      BY <3>1, <3>2, <3>3
  <2>3. CASE m_count' > 0 /\ ~m_dump_posted
    <3>1. m_dump_posted' = TRUE /\ tasks' = Memory!Dumping!Post("dump")
      BY <1>7, <2>3 DEF Memory!Dumping!SendDone
    <3>2. tasks' \in Seq(PostedTasks) /\ Memory!Dumping!Posted("dump")'
      BY <1>1, <1>2, <3>1, PostKeeps
         DEF Memory!Dumping!Posted, Memory!Dumping!Contains, Has
    <3>3. {m_sending', m_dump_posted', posting'} \subseteq BOOLEAN
      BY <1>1, <2>1, <3>1 DEF Memory!Dumping!TypeOK
    <3>4. Memory!Dumping!TypeOK'
      BY <1>1, <2>1, <2>2, <3>3 DEF Memory!Dumping!TypeOK
    <3> QED
      BY <3>1, <3>2, <3>4 DEF DumpInv, Memory!Dumping!DumpsGoOn
  <2>4. CASE ~(m_count' > 0 /\ ~m_dump_posted)
    <3>1. m_dump_posted' = m_dump_posted /\ tasks' = tasks
      BY <1>7, <2>4 DEF Memory!Dumping!SendDone
    <3>2. {m_sending', m_dump_posted', posting'} \subseteq BOOLEAN
      BY <1>1, <2>1, <3>1 DEF Memory!Dumping!TypeOK
    <3>3. Memory!Dumping!TypeOK'
      BY <1>1, <2>1, <2>2, <3>2 DEF Memory!Dumping!TypeOK
    <3> QED
      BY <1>1, <2>1, <2>4, <3>1, <3>3
         DEF DumpInv, Memory!Dumping!DumpsGoOn, Memory!Dumping!Posted,
             Memory!Dumping!Contains, Has
  <2> QED
    BY <2>3, <2>4
<1>8. CASE Memory!Dumping!record
  <2>1. /\ dumpState' = "STARTING" /\ tasks' = Memory!Dumping!Post("startDone")
        /\ UNCHANGED <<buffer, dumpHead, dumpTail, m_count, m_sending, m_dump_posted, posting, uart>>
    BY <1>8 DEF Memory!Dumping!record, Memory!Dumping!ring
  <2>2. tasks' \in Seq(PostedTasks)
    BY <1>1, <1>2, <2>1, PostKeeps
  <2> QED
    BY <1>1, <2>1, <2>2 DEF DumpInv, Memory!Dumping!TypeOK, Memory!Dumping!DumpsGoOn
<1>9. CASE Memory!Dumping!flush
  BY <1>1, <1>9
     DEF Memory!Dumping!flush, Memory!Dumping!ring, DumpInv, Memory!Dumping!TypeOK,
         Memory!Dumping!DumpsGoOn
<1>10. CASE Memory!Dumping!SerialStops
  <2>1. /\ dumpState = "STOPPING" /\ tasks' = Memory!Dumping!Post("stopDone")
        /\ UNCHANGED <<buffer, dumpHead, dumpTail, m_count, m_sending, m_dump_posted, dumpState, posting,
                       uart>>
    BY <1>10 DEF Memory!Dumping!SerialStops, Memory!Dumping!ring
  <2>2. tasks' \in Seq(PostedTasks)
    BY <1>1, <1>2, <2>1, PostKeeps
  <2> QED
    BY <1>1, <2>1, <2>2 DEF DumpInv, Memory!Dumping!TypeOK, Memory!Dumping!DumpsGoOn
<1>11. CASE Memory!Dumping!StopDone
  <2>1. /\ Memory!Dumping!NextTask("stopDone") /\ dumpState' = "STOPPED"
        /\ tasks' = Tail(tasks)
        /\ UNCHANGED <<buffer, dumpHead, dumpTail, m_count, m_sending, m_dump_posted, posting, uart>>
    BY <1>11 DEF Memory!Dumping!StopDone, Memory!Dumping!ring
  <2>2. tasks' \in Seq(PostedTasks)
    BY <1>1, <1>2, <2>1, TakeKeeps
  <2> QED
    BY <1>1, <2>1, <2>2 DEF DumpInv, Memory!Dumping!TypeOK, Memory!Dumping!DumpsGoOn
<1>12. CASE Memory!Dumping!StartDone
  <2>1. /\ Memory!Dumping!NextTask("startDone") /\ Tail(tasks) \in Seq(PostedTasks)
        /\ Memory!Dumping!Posted("dump") => Has(Tail(tasks), "dump")
    BY <1>1, <1>2, <1>12, TakeKeeps DEF Memory!Dumping!StartDone
  <2>2. CASE /\ tasks' = Tail(tasks) /\ dumpState' = "LOGGING"
             /\ dumpHead' = 0 /\ dumpTail' = 0 /\ m_count' = 0
             /\ m_sending' = FALSE /\ m_dump_posted' = FALSE
             /\ UNCHANGED <<buffer, posting, uart>>
    <3>1. {m_sending', m_dump_posted', posting'} \subseteq BOOLEAN
      BY <1>1, <2>2 DEF Memory!Dumping!TypeOK
    <3>2. Memory!Dumping!TypeOK'
      BY <1>1, <1>2, <2>2, <3>1 DEF Memory!Dumping!TypeOK
    <3> QED
      BY <2>1, <2>2, <3>2 DEF DumpInv, Memory!Dumping!DumpsGoOn
  <2>3. CASE /\ tasks' = Append(Tail(tasks), "startDone")
             /\ UNCHANGED <<Memory!Dumping!ring, m_sending, m_dump_posted, dumpState, posting, uart>>
    <3>1. /\ tasks' \in Seq(PostedTasks)
          /\ Memory!Dumping!Posted("dump") => Memory!Dumping!Posted("dump")'
      <4>1. tasks' \in Seq(PostedTasks) /\ (Has(Tail(tasks), "dump") => Has(tasks', "dump"))
        BY <1>2, <2>1, <2>3, AppendContains
      <4> QED
        BY <2>1, <4>1 DEF Memory!Dumping!Posted, Memory!Dumping!Contains, Has
    <3> QED
      BY <1>1, <2>3, <3>1
         DEF DumpInv, Memory!Dumping!TypeOK, Memory!Dumping!DumpsGoOn,
             Memory!Dumping!ring
  <2> QED
    BY <1>12, <2>2, <2>3 DEF Memory!Dumping!StartDone
<1>13. CASE UNCHANGED Memory!Dumping!vars
  BY <1>1, <1>13
     DEF Memory!Dumping!vars, Memory!Dumping!ring, DumpInv, Memory!Dumping!TypeOK,
         Memory!Dumping!DumpsGoOn, Memory!Dumping!Posted, Memory!Dumping!Contains, Has
<1> QED
  BY <1>3, <1>4, <1>5, <1>6, <1>7, <1>8, <1>9, <1>10, <1>11, <1>12, <1>13
     DEF Memory!Dumping!Next

------------------------------------------------------------------------------
(* The logger that adds up times.                                          *)
(* The sum of the times of a resource, which the library's fold takes in   *)
(* an order of its own.                                                    *)

Sum(f) == Accounting!MapThenSumSet(LAMBDA a : f[a], Activity)

First(s) == CHOOSE a \in s : TRUE
Partial(g, f, s) == IF s = {} THEN 0 ELSE f[First(s)] + g[s \ {First(s)}]
Partials(f) == CHOOSE g : g = [s \in SUBSET Activity |-> Partial(g, f, s)]

LEMMA SumIsPartial == ASSUME NEW f PROVE Sum(f) = Partials(f)[Activity]
BY DEF Sum, Accounting!MapThenSumSet, Accounting!MapThenFoldSet, Partials, Partial,
   First

LEMMA FirstIn == ASSUME NEW s, s # {} PROVE First(s) \in s
BY DEF First

(* Induction on finite sets: of sets of activities one is smallest.        *)
LEMMA SmallestSet ==
  ASSUME IsFiniteSet(Activity), NEW T, T \subseteq SUBSET Activity, T # {}
  PROVE  \E s \in T : \A a \in s : s \ {a} \notin T
<1> DEFINE Sizes == {Cardinality(s) : s \in T}
<1>1. \A s \in T : IsFiniteSet(s) /\ Cardinality(s) \in Nat
  BY FS_Subset, FS_CardinalityType
<1>2. Sizes \subseteq Nat /\ Sizes # {}
  BY <1>1
<1>3. PICK size \in Sizes : \A less \in Sizes : ~ (<<less, size>> \in OpToRel(<, Nat))
  <2> HIDE DEF Sizes
  <2> QED
    BY <1>2, NatLessThanWellFounded, WFMin
<1>4. PICK s \in T : size = Cardinality(s)
  OBVIOUS
<1>5. ASSUME NEW a \in s, s \ {a} \in T PROVE FALSE
  <2> DEFINE less == Cardinality(s \ {a})
  <2>1. less = size - 1 /\ size \in Nat /\ less \in Nat /\ less \in Sizes
    BY <1>1, <1>4, <1>5, FS_RemoveElement
  <2> HIDE DEF less, Sizes
  <2>2. ~(less < size)
    BY <1>3, <2>1 DEF OpToRel
  <2> QED
    BY <2>1, <2>2
<1> QED
  BY <1>4, <1>5

(* The partial sums exist up to every size of a set, hence all of them.    *)
LEMMA PartialsExist ==
  ASSUME IsFiniteSet(Activity), NEW f
  PROVE  \E g : g = [s \in SUBSET Activity |-> Partial(g, f, s)]
<1> DEFINE UpTo(g, size) ==
             /\ g = [s \in SUBSET Activity |-> g[s]]
             /\ \A s \in SUBSET Activity : Cardinality(s) <= size => g[s] = Partial(g, f, s)
           Bad == {size \in Nat : ~ \E g : UpTo(g, size)}
<1>1. \A s \in SUBSET Activity : IsFiniteSet(s) /\ Cardinality(s) \in Nat
  BY FS_Subset, FS_CardinalityType
<1>2. Bad = {}
  <2> SUFFICES ASSUME Bad # {} PROVE FALSE
    OBVIOUS
  <2>1. PICK size \in Bad : \A less \in Bad : ~ (<<less, size>> \in OpToRel(<, Nat))
    <3>1. Bad \subseteq Nat
      OBVIOUS
    <3> QED
      BY <3>1, NatLessThanWellFounded, WFMin
  <2>2. size \in Nat /\ ~ \E g : UpTo(g, size)
    BY <2>1
  <2>3. \E h : h = [s \in SUBSET Activity |-> h[s]] /\ (size > 0 => UpTo(h, size - 1))
    <3>1. CASE size = 0
      <4> DEFINE h == [s \in SUBSET Activity |-> 0]
      <4>1. h = [s \in SUBSET Activity |-> h[s]]
        OBVIOUS
      <4> HIDE DEF h, UpTo
      <4> QED
        BY <3>1, <4>1
    <3>2. CASE size > 0
      <4>1. size - 1 \in Nat /\ size - 1 < size
        BY <2>2, <3>2
      <4>2. size - 1 \notin Bad
        BY <2>1, <2>2, <4>1 DEF OpToRel
      <4> QED
        BY <4>1, <4>2
    <3> QED
      BY <2>2, <3>1, <3>2
  <2>4. PICK h : h = [s \in SUBSET Activity |-> h[s]] /\ (size > 0 => UpTo(h, size - 1))
    BY <2>3
  <2> DEFINE g == [s \in SUBSET Activity |->
                     IF Cardinality(s) = size THEN Partial(h, f, s) ELSE h[s]]
  <2>5. ASSUME NEW s \in SUBSET Activity, Cardinality(s) <= size
        PROVE  g[s] = Partial(h, f, s)
    <3>1. g[s] = IF Cardinality(s) = size THEN Partial(h, f, s) ELSE h[s]
      OBVIOUS
    <3>2. Cardinality(s) \in Nat
      BY <1>1
    <3> HIDE DEF g
    <3>3. CASE Cardinality(s) # size
      <4>1. size > 0 /\ Cardinality(s) <= size - 1
        BY <2>2, <2>5, <3>2, <3>3
      <4>2. h[s] = Partial(h, f, s)
        BY <2>4, <4>1
      <4> QED
        BY <3>1, <3>3, <4>2
    <3> QED
      BY <3>1, <3>3
  <2>6. ASSUME NEW s \in SUBSET Activity, Cardinality(s) <= size
        PROVE g[s] = Partial(g, f, s)
    <3> DEFINE r == s \ {First(s)}
    <3>1. Cardinality(s) \in Nat
      BY <1>1
    <3>2. CASE s = {}
      <4>1. Partial(h, f, s) = Partial(g, f, s)
        BY <3>2 DEF Partial
      <4> QED
        BY <2>5, <2>6, <4>1
    <3>3. CASE s # {}
      <4>1. r \in SUBSET Activity /\ Cardinality(r) = Cardinality(s) - 1
        BY <1>1, <3>3, FirstIn, FS_RemoveElement
      <4>2. g[r] = h[r]
        BY <2>2, <2>6, <3>1, <4>1
      <4>3. Partial(g, f, s) = Partial(h, f, s)
        BY <3>3, <4>2 DEF Partial
      <4> QED
        BY <2>5, <2>6, <4>3
    <3> QED
      BY <3>2, <3>3
  <2>7. UpTo(g, size)
    <3>1. g = [s \in SUBSET Activity |-> g[s]]
      OBVIOUS
    <3> HIDE DEF g
    <3> QED
      BY <2>6, <3>1
  <2> QED
    BY <2>2, <2>7
<1>3. Cardinality(Activity) \in Nat
  BY <1>1
<1>4. PICK g : UpTo(g, Cardinality(Activity))
  BY <1>2, <1>3
<1>5. \A s \in SUBSET Activity : g[s] = Partial(g, f, s)
  BY <1>4, FS_Subset
<1>6. g = [s \in SUBSET Activity |-> Partial(g, f, s)]
  BY <1>4, <1>5
<1> QED
  BY <1>6

LEMMA PartialSums ==
  ASSUME IsFiniteSet(Activity), NEW f, NEW s \in SUBSET Activity
  PROVE  Partials(f)[s] = IF s = {} THEN 0
                          ELSE f[First(s)] + Partials(f)[s \ {First(s)}]
<1> DEFINE g == Partials(f)
<1>1. g = [t \in SUBSET Activity |-> Partial(g, f, t)]
  BY PartialsExist DEF Partials
<1> HIDE DEF g
<1>2. g[s] = Partial(g, f, s)
  BY <1>1
<1> QED
  BY <1>2 DEF Partial, g

(* Changing the time of one activity changes the sum by as much.           *)
LEMMA SumChanges ==
  ASSUME IsFiniteSet(Activity), NEW f \in [Activity -> Int], NEW a \in Activity, NEW v \in Int
  PROVE  Sum(f) \in Int /\ Sum([f EXCEPT ![a] = v]) = Sum(f) - f[a] + v
<1> DEFINE h == [f EXCEPT ![a] = v]
           P(s) == Partials(f)[s]
           Q(s) == Partials(h)[s]
           Right(s) == P(s) \in Int /\ Q(s) = P(s) + IF a \in s THEN v - f[a] ELSE 0
           Bad == {s \in SUBSET Activity : ~Right(s)}
<1>1. h \in [Activity -> Int] /\ \A b \in Activity : h[b] = IF b = a THEN v ELSE f[b]
  OBVIOUS
<1> HIDE DEF h
<1>2. Bad = {}
  <2> SUFFICES ASSUME Bad # {} PROVE FALSE
    OBVIOUS
  <2>1. PICK s \in Bad : \A b \in s : s \ {b} \notin Bad
    <3>1. Bad \subseteq SUBSET Activity
      OBVIOUS
    <3> HIDE DEF Bad
    <3> QED
      BY <3>1, SmallestSet
  <2>2. s \in SUBSET Activity /\ ~Right(s)
    BY <2>1
  <2> DEFINE b == First(s)
             r == s \ {b}
  <2>3. CASE s = {}
    <3>1. P(s) = 0 /\ Q(s) = 0 /\ a \notin s
      BY <2>2, <2>3, PartialSums
    <3> HIDE DEF P, Q
    <3> QED
      BY <2>2, <3>1
  <2>4. CASE s # {}
    <3>1. b \in s /\ r \in SUBSET Activity /\ r \notin Bad
      BY <2>1, <2>2, <2>4, FirstIn
    <3>2. Right(r)
      BY <3>1
    <3>3. P(s) = f[b] + P(r) /\ Q(s) = h[b] + Q(r)
      BY <2>2, <2>4, PartialSums
    <3>4. a \in s <=> a \in r \/ a = b
      BY <3>1
    <3>5. b \in Activity /\ (a = b => a \notin r) /\ f[b] \in Int /\ f[a] \in Int
      BY <2>2, <3>1
    <3> HIDE DEF P, Q, b, r
    <3>6. CASE a = b
      <4>1. P(r) \in Int /\ Q(r) = P(r) /\ h[b] = v /\ f[b] = f[a] /\ a \in s
        BY <1>1, <3>2, <3>4, <3>5, <3>6
      <4> QED
        BY <2>2, <3>3, <3>5, <4>1
    <3>7. CASE a # b
      <4>1. P(r) \in Int /\ h[b] = f[b] /\ (a \in s <=> a \in r)
        BY <1>1, <3>2, <3>4, <3>5, <3>7
      <4> QED
        BY <2>2, <3>2, <3>3, <3>5, <4>1
    <3> QED
      BY <3>6, <3>7
  <2> QED
    BY <2>3, <2>4
<1>3. Right(Activity)
  BY <1>2
<1> QED
  BY <1>3, SumIsPartial DEF h

LEMMA SumOfNothing ==
  ASSUME IsFiniteSet(Activity) PROVE Sum([a \in Activity |-> 0]) = 0
<1> DEFINE f == [a \in Activity |-> 0]
           Bad == {s \in SUBSET Activity : Partials(f)[s] # 0}
<1>1. Bad = {}
  <2> SUFFICES ASSUME Bad # {} PROVE FALSE
    OBVIOUS
  <2>1. PICK s \in Bad : \A b \in s : s \ {b} \notin Bad
    <3>1. Bad \subseteq SUBSET Activity
      OBVIOUS
    <3> HIDE DEF Bad
    <3> QED
      BY <3>1, SmallestSet
  <2>2. s \in SUBSET Activity /\ Partials(f)[s] # 0
    BY <2>1
  <2>3. s # {}
    BY <2>2, PartialSums
  <2>4. First(s) \in s
    BY <2>3, FirstIn
  <2>5. Partials(f)[s \ {First(s)}] = 0
    BY <2>1, <2>2, <2>4
  <2>6. f[First(s)] = 0
    BY <2>2, <2>4
  <2> HIDE DEF f
  <2> QED
    BY <2>2, <2>3, <2>5, <2>6, PartialSums
<1> QED
  BY <1>1, SumIsPartial

------------------------------------------------------------------------------
(* Times wrap: remainders.                                                 *)

LEMMA Remainder ==
  ASSUME NEW h \in Nat \ {0}, NEW x \in Int
  PROVE  x % h \in 0..(h - 1) /\ \E k \in Int : x = (x % h) + k * h
<1>1. h \in Nat /\ h > 0
  OBVIOUS
<1>2. x % h \in 0..(h - 1)
  BY <1>1, SMT
<1>3. x = (x % h) + (x \div h) * h
  BY <1>1, Z3
<1>4. x \div h \in Int
  BY <1>1, SMT
<1> QED
  BY <1>2, <1>3, <1>4

LEMMA SameRemainder ==
  ASSUME NEW h \in Nat \ {0}, NEW x \in Int, NEW y \in Int
  PROVE  x % h = y % h <=> \E k \in Int : x = y + k * h
<1>1. h \in Nat /\ h > 0
  OBVIOUS
<1>2. PICK i \in Int : x = (x % h) + i * h
  BY Remainder
<1>3. PICK j \in Int : y = (y % h) + j * h
  BY Remainder
<1>4. x % h \in 0..(h - 1) /\ y % h \in 0..(h - 1)
  BY Remainder
<1> DEFINE a == x % h
           b == y % h
<1>5. a \in 0..(h - 1) /\ b \in 0..(h - 1) /\ x = a + i * h /\ y = b + j * h
  BY <1>2, <1>3, <1>4
<1> HIDE DEF a, b
<1>6. ASSUME a = b PROVE \E k \in Int : x = y + k * h
  <2>1. i - j \in Int /\ (i - j) * h = i * h - j * h
    BY <1>1, SMT
  <2>2. x = y + (i * h - j * h)
    BY <1>1, <1>5, <1>6, SMT
  <2> QED
    BY <2>1, <2>2
<1>7. ASSUME NEW k \in Int, x = y + k * h PROVE a = b
  <2> DEFINE l == k + j - i
  <2>1. l \in Int /\ l * h = k * h + j * h - i * h /\ l * h \in Int
    BY <1>1, SMT
  <2>2. a = b + l * h
    BY <1>1, <1>5, <1>7, <2>1, SMT
  <2> HIDE DEF l
  <2>3. CASE l = 0
    BY <1>5, <2>2, <2>3, SMT
  <2>4. CASE l >= 1
    <3>1. l * h >= h
      BY <1>1, <2>1, <2>4, SMT
    <3> QED
      BY <1>1, <1>5, <2>1, <2>2, <3>1, SMT
  <2>5. CASE l <= -1
    <3>1. l * h <= -h
      BY <1>1, <2>1, <2>5, SMT
    <3> QED
      BY <1>1, <1>5, <2>1, <2>2, <3>1, SMT
  <2> QED
    BY <2>1, <2>3, <2>4, <2>5, SMT
<1> QED
  BY <1>6, <1>7 DEF a, b

------------------------------------------------------------------------------
(* The other slot is the one of the report that is pending. *)
Other == 1 - m_slot
Since(r) == m_last_time[r] - m_slot_start[m_slot]
Interval == m_slot_start[m_slot] - m_slot_start[Other]

(* One hand has the report: its task is posted or the port sends.          *)
Pending ==
  /\ m_report_pending > 0 <=> reportPosted \/ writing # "nothing"
  /\ ~(reportPosted /\ writing # "nothing")
  /\ writing = "header" => m_report_pending = Accounting!RESOURCE_COUNT + 1
  /\ writing = "body" => m_report_pending <= Accounting!RESOURCE_COUNT
  /\ writing = "header" \/ m_report_pending \in 1..Accounting!RESOURCE_COUNT => total_time = Interval % Half

(* The times of each resource in the slot that is written to add up to     *)
(* the time since it was switched to, and those of the other slot to the   *)
(* interval of the report, until they are cleared with its last message.   *)
SlotAddsUp ==
  \A r \in Res : Sum(m_time[m_slot][r]) % Half = Since(r) % Half

OtherAddsUp ==
  IF m_report_pending = 0 \/ (m_report_pending = 1 /\ ~reportPosted)
  THEN m_time[Other] = Accounting!Cleared
  ELSE \A r \in Res : Sum(m_time[Other][r]) % Half = Interval % Half

BodyRight == writing = "body" => Sum(m_body_msg.time) % Half = total_time

AccountInv == Accounting!TypeOK /\ Pending /\ SlotAddsUp /\ OtherAddsUp /\ BodyRight

Numbers ==
  /\ Accounting!RESOURCE_COUNT \in Nat /\ Res = 0..(Accounting!RESOURCE_COUNT - 1)
  /\ MaxTime \in Nat /\ Half \in Nat \ {0}
  /\ IsFiniteSet(Activity) /\ UNKNOWN \in Activity /\ None \notin Activity

LEMMA AssumedNumbers == Numbers
<1>1. \A s : Cardinality(s) = Accounting!Cardinality(s) /\ (IsFiniteSet(s) <=> Accounting!IsFiniteSet(s))
  BY DEF Cardinality, Accounting!Cardinality, IsFiniteSet, Accounting!IsFiniteSet
<1>2. /\ Accounting!RESOURCE_COUNT = Cardinality(Res) /\ IsFiniteSet(Res)
      /\ IsFiniteSet(Activity)
  BY <1>1, TimesAssumption
     DEF Accounting!AccountingAssumption, Accounting!RESOURCE_COUNT
<1> QED
  BY <1>2, TimesAssumption, FS_CardinalityType
     DEF Accounting!AccountingAssumption, Numbers

LEMMA ClearedSums == Numbers => \A r \in Res : Sum(Accounting!Cleared[r]) = 0
BY SumOfNothing DEF Accounting!Cleared, Numbers

LEMMA AccountInit == Numbers /\ Accounting!Init => AccountInv
<1> SUFFICES ASSUME Numbers, Accounting!Init PROVE AccountInv
  OBVIOUS
<1>1. Accounting!TypeOK
  <2>1. 0 \in 0..(Half - 1) /\ 0 \in 0..MaxTime /\ 0 \in 0..(Accounting!RESOURCE_COUNT + 1)
    BY DEF Numbers
  <2>2. m_time \in [0..1 -> [Res -> [Activity -> 0..(Half - 1)]]]
    BY <2>1 DEF Accounting!Init, Accounting!Cleared
  <2>3. m_slot_start \in [0..1 -> 0..MaxTime] /\ m_last_time \in [Res -> 0..MaxTime]
    BY <2>1 DEF Accounting!Init
  <2>4. m_current_act \in [Res -> Activity]
    BY DEF Accounting!Init, Numbers
  <2>5. reading \in {None} \cup [res : Res, act : Activity, now : 0..MaxTime]
    BY DEF Accounting!Init
  <2>6. /\ clock \in 0..MaxTime /\ m_slot \in 0..1
        /\ m_report_pending \in 0..(Accounting!RESOURCE_COUNT + 1)
        /\ reportPosted \in BOOLEAN /\ writing \in {"nothing", "header", "body"}
    <3>1. clock = 0 /\ m_slot = 0 /\ m_report_pending = 0
      BY DEF Accounting!Init
    <3>2. writing \in {"nothing", "header", "body"} /\ m_slot \in 0..1
      BY DEF Accounting!Init
    <3>3. reportPosted \in BOOLEAN
      BY Zenon DEF Accounting!Init
    <3> QED
      BY <2>1, <3>1, <3>2, <3>3, Zenon
  <2> QED
    BY <2>2, <2>3, <2>4, <2>5, <2>6 DEF Accounting!TypeOK
<1>2. Pending
  BY DEF Numbers, Accounting!Init, Pending
<1>3. /\ m_slot = 0 /\ Other = 1 /\ m_time[0] = Accounting!Cleared
      /\ m_time[1] = Accounting!Cleared /\ m_report_pending = 0
  BY DEF Accounting!Init, Other
<1>4. \A r \in Res : Since(r) = 0
  BY DEF Accounting!Init, Since
<1>5. SlotAddsUp
  BY <1>3, <1>4, ClearedSums DEF SlotAddsUp
<1>6. OtherAddsUp
  BY <1>3 DEF OtherAddsUp
<1> QED
  BY <1>1, <1>2, <1>5, <1>6 DEF AccountInv, Accounting!Init, BodyRight

(* Closing the times of a resource brings its sum up to now.               *)
LEMMA CloseAddsUp ==
  ASSUME Numbers, AccountInv, NEW closed, NEW now \in 0..MaxTime, NEW r \in Res
  PROVE  /\ Accounting!Close(closed, now)[r] \in [Activity -> 0..(Half - 1)]
         /\ Sum(Accounting!Close(closed, now)[r]) % Half =
              (IF r \in closed THEN now - m_slot_start[m_slot] ELSE Since(r)) % Half
<1> DEFINE f == m_time[m_slot][r]
           a == m_current_act[r]
           v == (f[a] + now - m_last_time[r]) % Half
<1>1. /\ f \in [Activity -> 0..(Half - 1)] /\ a \in Activity
      /\ m_last_time[r] \in 0..MaxTime /\ m_slot_start[m_slot] \in 0..MaxTime
  BY DEF AccountInv, Accounting!TypeOK
<1>2. Half \in Nat \ {0} /\ MaxTime \in Nat /\ IsFiniteSet(Activity)
  BY DEF Numbers
<1>3. Sum(f) % Half = Since(r) % Half
  BY DEF AccountInv, SlotAddsUp
<1>4. CASE r \notin closed
  BY <1>1, <1>3, <1>4 DEF Accounting!Close
<1>5. CASE r \in closed
  <2>1. Accounting!Close(closed, now)[r] = [f EXCEPT ![a] = v]
    BY <1>5 DEF Accounting!Close
  <2> DEFINE e == now - m_last_time[r]
  <2>2. f \in [Activity -> Int] /\ f[a] \in Int /\ e \in Int /\ Since(r) \in Int
    BY <1>1, <1>2 DEF Since
  <2>3. v = (f[a] + e) % Half
    BY <1>1, <1>2, <2>2
  <2>4. Since(r) + e = now - m_slot_start[m_slot]
    BY <1>1, <1>2 DEF Since
  <2> HIDE DEF f, a, v, e
  <2>5. v \in 0..(Half - 1)
    <3>1. f[a] + e \in Int
      BY <2>2
    <3> QED
      BY <1>2, <2>3, <3>1, Remainder
  <2>6. Sum(f) \in Int /\ Sum([f EXCEPT ![a] = v]) = Sum(f) - f[a] + v
    <3>1. v \in Int
      BY <1>2, <2>5
    <3> QED
      BY <1>1, <1>2, <2>2, <3>1, SumChanges
  <2>7. (Sum(f) - f[a] + v) % Half = (Since(r) + e) % Half
    <3> DEFINE t == f[a]
               total == Sum(f)
               d == Since(r)
               x == total - t + v
               y == d + e
    <3>1. /\ total \in Int /\ t \in Int /\ d \in Int /\ e \in Int /\ v \in Int
          /\ total % Half = d % Half /\ v = (t + e) % Half /\ t + e \in Int
      BY <1>2, <1>3, <2>2, <2>3, <2>5, <2>6
    <3>2. x \in Int /\ y \in Int
      BY <3>1
    <3> HIDE DEF t, total, d
    <3>3. PICK j \in Int : total = d + j * Half
      BY <1>2, <3>1, SameRemainder
    <3>4. PICK k \in Int : t + e = v + k * Half
      BY <1>2, <3>1, Remainder
    <3>5. /\ j - k \in Int /\ j * Half \in Int /\ k * Half \in Int
          /\ (j - k) * Half = j * Half - k * Half
      BY <1>2
    <3>6. x = y + (j - k) * Half
      BY <3>1, <3>3, <3>4, <3>5
    <3> HIDE DEF x, y
    <3>7. x % Half = y % Half
      BY <1>2, <3>2, <3>5, <3>6, SameRemainder
    <3> QED
      BY <3>7 DEF x, y, t, total, d
  <2> QED
    BY <1>1, <1>5, <2>1, <2>4, <2>5, <2>6, <2>7
<1> QED
  BY <1>4, <1>5

Readings == {None} \cup [res : Res, act : Activity, now : 0..MaxTime]

LEMMA ChangeKeeps ==
  ASSUME Numbers, AccountInv, NEW res \in Res, NEW act \in Activity, NEW now \in 0..MaxTime,
         Accounting!Change(res, act, now), reading' \in Readings
  PROVE  AccountInv'
<1> DEFINE over == Accounting!IntervalIsOver(now)
           closed == IF over THEN Res ELSE {res}
<1>1. /\ m_slot \in 0..1 /\ m_report_pending \in 0..(Accounting!RESOURCE_COUNT + 1)
      /\ m_slot_start \in [0..1 -> 0..MaxTime] /\ m_last_time \in [Res -> 0..MaxTime]
      /\ m_time \in [0..1 -> [Res -> [Activity -> 0..(Half - 1)]]]
      /\ m_current_act \in [Res -> Activity]
  BY DEF AccountInv, Accounting!TypeOK
<1>2. /\ m_time' = [m_time EXCEPT ![m_slot] = Accounting!Close(closed, now)]
      /\ m_last_time' = [r \in Res |-> IF r \in closed THEN now ELSE m_last_time[r]]
      /\ m_current_act' = [m_current_act EXCEPT ![res] = act]
      /\ m_report_pending' = IF over THEN Accounting!RESOURCE_COUNT + 1 ELSE m_report_pending
      /\ m_slot' = IF over THEN 1 - m_slot ELSE m_slot
      /\ m_slot_start' = IF over THEN [m_slot_start EXCEPT ![1 - m_slot] = now] ELSE m_slot_start
      /\ reportPosted' = (reportPosted \/ over)
      /\ clock' = clock /\ total_time' = total_time /\ m_body_msg' = m_body_msg
      /\ writing' = writing
  BY DEF Accounting!Change, Accounting!messages
<1>3. over => m_report_pending = 0
  BY DEF Accounting!IntervalIsOver
<1> HIDE DEF over
<1>4. /\ Accounting!Close(closed, now) \in [Res -> [Activity -> 0..(Half - 1)]]
      /\ \A r \in Res : Sum(Accounting!Close(closed, now)[r]) % Half =
                         (IF r \in closed THEN now - m_slot_start[m_slot] ELSE Since(r)) % Half
  <2>1. Accounting!Close(closed, now) = [r \in Res |-> Accounting!Close(closed, now)[r]]
    BY DEF Accounting!Close
  <2> HIDE DEF closed
  <2> QED
    BY <2>1, CloseAddsUp
<1>5. Accounting!RESOURCE_COUNT \in Nat /\ MaxTime \in Nat
  BY DEF Numbers
<1>6. Accounting!TypeOK'
  <2>1. /\ m_time' \in [0..1 -> [Res -> [Activity -> 0..(Half - 1)]]]
        /\ m_last_time' \in [Res -> 0..MaxTime] /\ m_current_act' \in [Res -> Activity]
    <3> HIDE DEF closed
    <3> QED
      BY <1>1, <1>2, <1>4
  <2>2. m_slot_start' \in [0..1 -> 0..MaxTime] /\ m_slot' \in 0..1
    BY <1>1, <1>2
  <2>3. m_report_pending' \in 0..(Accounting!RESOURCE_COUNT + 1) /\ clock' \in 0..MaxTime
    BY <1>1, <1>2, <1>5 DEF AccountInv, Accounting!TypeOK
  <2>4. reportPosted' \in BOOLEAN
    BY <1>2, Zenon
  <2>5. writing' \in {"nothing", "header", "body"}
    BY <1>2 DEF AccountInv, Accounting!TypeOK
  <2> QED
    BY <2>1, <2>2, <2>3, <2>4, <2>5 DEF Accounting!TypeOK, Readings
<1>7. CASE ~over
  <2>1. /\ m_report_pending' = m_report_pending /\ m_slot' = m_slot
        /\ m_slot_start' = m_slot_start
        /\ (reportPosted' <=> reportPosted) /\ closed = {res}
    BY <1>2, <1>7
  <2>2. Other' = Other /\ Other \in 0..1 /\ Other # m_slot /\ Interval' = Interval
    BY <1>1, <2>1 DEF Other, Interval
  <2>3. m_time'[Other] = m_time[Other] /\ m_time'[m_slot] = Accounting!Close({res}, now)
    BY <1>1, <1>2, <2>1, <2>2
  <2>4. Pending'
    BY <1>2, <2>1, <2>2 DEF AccountInv, Pending
  <2>5. SlotAddsUp'
    <3> SUFFICES ASSUME NEW r \in Res
                 PROVE Sum(m_time[m_slot][r])' % Half = Since(r)' % Half
      BY DEF SlotAddsUp
    <3>1. Sum(m_time[m_slot][r])' = Sum(Accounting!Close({res}, now)[r])
      BY <2>1, <2>3 DEF Sum, Accounting!MapThenSumSet, Accounting!MapThenFoldSet
    <3>2. Since(r)' = IF r \in {res} THEN now - m_slot_start[m_slot] ELSE Since(r)
      BY <1>2, <2>1 DEF Since
    <3> QED
      BY <1>4, <2>1, <3>1, <3>2
  <2>6. OtherAddsUp'
    <3>1. \A r : Sum(m_time[Other][r])' = Sum(m_time[Other][r])
      BY <2>2, <2>3 DEF Sum, Accounting!MapThenSumSet, Accounting!MapThenFoldSet
    <3>2. m_time'[Other'] = m_time[Other] /\ Accounting!Cleared' = Accounting!Cleared
      BY <2>2, <2>3 DEF Accounting!Cleared
    <3> QED
      BY <2>1, <2>2, <3>1, <3>2 DEF AccountInv, OtherAddsUp
  <2>7. BodyRight'
    BY <1>2
       DEF AccountInv, BodyRight, Sum, Accounting!MapThenSumSet,
           Accounting!MapThenFoldSet
  <2> QED
    BY <1>6, <2>4, <2>5, <2>6, <2>7 DEF AccountInv
<1>8. CASE over
  <2>1. /\ m_report_pending = 0 /\ m_report_pending' = Accounting!RESOURCE_COUNT + 1
        /\ m_slot' = Other /\ Other' = m_slot /\ reportPosted' /\ closed = Res
        /\ Other \in 0..1 /\ Other # m_slot
    <3>1. reportPosted'
      BY <1>2, <1>8, Zenon
    <3>2. Other \in 0..1 /\ Other # m_slot /\ m_slot' = Other /\ Other' = m_slot
      BY <1>1, <1>2, <1>8 DEF Other
    <3> QED
      BY <1>2, <1>3, <1>8, <3>1, <3>2
  <2>2. m_slot_start'[Other] = now /\ m_slot_start'[m_slot] = m_slot_start[m_slot]
    BY <1>1, <1>2, <1>8, <2>1 DEF Other
  <2>3. m_time'[Other] = m_time[Other] /\ m_time'[m_slot] = Accounting!Close(Res, now)
    BY <1>1, <1>2, <2>1
  <2>4. m_time[Other] = Accounting!Cleared
    BY <2>1 DEF AccountInv, OtherAddsUp
  <2>5. writing = "nothing" /\ ~reportPosted
    BY <1>1, <2>1 DEF AccountInv, Pending, Accounting!TypeOK
  <2>6. Pending'
    BY <1>2, <1>5, <2>1, <2>5 DEF Pending
  <2>7. SlotAddsUp'
    <3> SUFFICES ASSUME NEW r \in Res
                 PROVE Sum(m_time[m_slot][r])' % Half = Since(r)' % Half
      BY DEF SlotAddsUp
    <3>1. Sum(m_time[m_slot][r])' = Sum(Accounting!Cleared[r])
      BY <2>1, <2>3, <2>4 DEF Sum, Accounting!MapThenSumSet, Accounting!MapThenFoldSet
    <3>2. Since(r)' = now - now
      BY <1>2, <2>1, <2>2 DEF Since
    <3> QED
      BY <3>1, <3>2, ClearedSums
  <2>8. OtherAddsUp'
    <3>1. \A r \in Res : Sum(m_time[Other][r])' = Sum(Accounting!Close(Res, now)[r])
      BY <2>1, <2>3 DEF Sum, Accounting!MapThenSumSet, Accounting!MapThenFoldSet
    <3>2. Interval' = now - m_slot_start[m_slot]
      BY <2>1, <2>2 DEF Interval
    <3>3. \A r \in Res : Sum(m_time[Other][r])' % Half = Interval' % Half
      BY <1>4, <2>1, <3>1, <3>2
    <3> QED
      BY <1>5, <2>1, <3>3 DEF OtherAddsUp
  <2>9. BodyRight'
    BY <1>2, <2>5 DEF BodyRight
  <2> QED
    BY <1>6, <2>6, <2>7, <2>8, <2>9 DEF AccountInv
<1> QED
  BY <1>7, <1>8

LEMMA ReportKeeps ==
  ASSUME Numbers, AccountInv, Accounting!ReportTask
  PROVE  AccountInv'
<1> DEFINE res == Accounting!RESOURCE_COUNT - m_report_pending
<1>1. /\ m_slot \in 0..1 /\ m_report_pending \in 0..(Accounting!RESOURCE_COUNT + 1)
      /\ m_time \in [0..1 -> [Res -> [Activity -> 0..(Half - 1)]]]
      /\ Accounting!RESOURCE_COUNT \in Nat /\ Res = 0..(Accounting!RESOURCE_COUNT - 1)
      /\ Half \in Nat \ {0}
  BY DEF AccountInv, Accounting!TypeOK, Numbers
<1>2. /\ reportPosted /\ ~reportPosted' /\ writing = "nothing" /\ writing' # "nothing"
      /\ m_report_pending \in 1..(Accounting!RESOURCE_COUNT + 1)
  BY <1>1 DEF Accounting!ReportTask, AccountInv, Pending
<1>3. UNCHANGED <<clock, Accounting!slots, m_current_act, m_last_time, reading>>
  BY DEF Accounting!ReportTask
<1>4. /\ m_slot' = m_slot /\ m_slot_start' = m_slot_start
      /\ m_report_pending' = m_report_pending
      /\ m_last_time' = m_last_time /\ Other' = Other /\ Interval' = Interval
      /\ Other \in 0..1 /\ Other # m_slot
  BY <1>1, <1>3 DEF Accounting!slots, Other, Interval
<1>5. m_time' = IF m_report_pending = 1 THEN [m_time EXCEPT ![Other] = Accounting!Cleared] ELSE m_time
  BY DEF Accounting!ReportTask, Other
<1>6. m_time'[m_slot] = m_time[m_slot] /\ (m_report_pending # 1 => m_time' = m_time)
  BY <1>1, <1>4, <1>5
<1>7. Accounting!TypeOK'
  <2>1. Accounting!Cleared \in [Res -> [Activity -> 0..(Half - 1)]]
    BY <1>1 DEF Accounting!Cleared
  <2>2. m_time' \in [0..1 -> [Res -> [Activity -> 0..(Half - 1)]]]
    BY <1>1, <1>4, <1>5, <2>1
  <2>3. reportPosted' \in BOOLEAN
    BY Zenon DEF Accounting!ReportTask
  <2>4. writing' \in {"nothing", "header", "body"}
    BY DEF Accounting!ReportTask
  <2> QED
    BY <1>3, <2>2, <2>3, <2>4 DEF AccountInv, Accounting!TypeOK, Accounting!slots
<1>8. SlotAddsUp'
  <2>1. \A r : Sum(m_time[m_slot][r])' = Sum(m_time[m_slot][r]) /\ Since(r)' = Since(r)
    BY <1>4, <1>6 DEF Sum, Accounting!MapThenSumSet, Accounting!MapThenFoldSet, Since
  <2> QED
    BY <2>1 DEF AccountInv, SlotAddsUp
<1>9. OtherAddsUp'
  <2>1. CASE m_report_pending = 1
    <3>1. m_time'[Other] = Accounting!Cleared
      BY <1>1, <1>4, <1>5, <2>1
    <3> QED
      BY <1>2, <1>4, <2>1, <3>1 DEF OtherAddsUp, Accounting!Cleared
  <2>2. CASE m_report_pending # 1
    <3>1. \A r : Sum(m_time[Other][r])' = Sum(m_time[Other][r])
      BY <1>4, <1>6, <2>2 DEF Sum, Accounting!MapThenSumSet, Accounting!MapThenFoldSet
    <3>2. m_time'[Other'] = m_time[Other] /\ Accounting!Cleared' = Accounting!Cleared
      BY <1>4, <1>6, <2>2 DEF Accounting!Cleared
    <3> QED
      BY <1>2, <1>4, <2>2, <3>1, <3>2 DEF AccountInv, OtherAddsUp
  <2> QED
    BY <2>1, <2>2
<1>10. CASE m_report_pending = Accounting!RESOURCE_COUNT + 1
  <2>1. total_time' = Interval % Half /\ writing' = "header" /\ m_body_msg' = m_body_msg
    BY <1>10 DEF Accounting!ReportTask, Interval, Other
  <2>2. Pending'
    BY <1>1, <1>2, <1>4, <1>10, <2>1 DEF Pending
  <2>3. BodyRight'
    BY <2>1 DEF BodyRight
  <2> QED
    BY <1>7, <1>8, <1>9, <2>2, <2>3 DEF AccountInv
<1>11. CASE m_report_pending # Accounting!RESOURCE_COUNT + 1
  <2>1. m_body_msg' = [res |-> res, time |-> m_time[Other][res]] /\ writing' = "body"
        /\ total_time' = total_time
    BY <1>11 DEF Accounting!ReportTask, Other
  <2>2. m_report_pending \in 1..Accounting!RESOURCE_COUNT /\ res \in Res
    BY <1>1, <1>2, <1>11
  <2>3. total_time = Interval % Half
    BY <2>2 DEF AccountInv, Pending
  <2>4. Pending'
    BY <1>1, <1>2, <1>4, <2>1, <2>2, <2>3 DEF Pending
  <2>5. Sum(m_body_msg.time)' = Sum(m_time[Other][res])
    BY <2>1 DEF Sum, Accounting!MapThenSumSet, Accounting!MapThenFoldSet
  <2>6. Sum(m_time[Other][res]) % Half = Interval % Half
    BY <1>2, <2>2 DEF AccountInv, OtherAddsUp
  <2>7. BodyRight'
    BY <2>1, <2>3, <2>5, <2>6 DEF BodyRight
  <2> QED
    BY <1>7, <1>8, <1>9, <2>4, <2>7 DEF AccountInv
<1> QED
  BY <1>10, <1>11

LEMMA DoneKeeps ==
  ASSUME Numbers, AccountInv, Accounting!WriteDone
  PROVE  AccountInv'
<1>1. UNCHANGED <<clock, m_slot, m_slot_start, Accounting!times, reading, total_time, m_body_msg>>
  BY DEF Accounting!WriteDone
<1>2. /\ writing # "nothing" /\ writing' = "nothing"
      /\ m_report_pending' = m_report_pending - 1
      /\ (reportPosted' <=> m_report_pending' # 0) /\ ~reportPosted
      /\ m_report_pending \in 1..(Accounting!RESOURCE_COUNT + 1)
      /\ Accounting!RESOURCE_COUNT \in Nat
  <2>1. /\ writing # "nothing" /\ writing' = "nothing"
        /\ m_report_pending' = m_report_pending - 1
    BY DEF Accounting!WriteDone
  <2>2. reportPosted' <=> m_report_pending' # 0
    BY Zenon DEF Accounting!WriteDone
  <2>3. ~reportPosted /\ m_report_pending > 0
    BY <2>1 DEF AccountInv, Pending
  <2>4. /\ m_report_pending \in 0..(Accounting!RESOURCE_COUNT + 1)
        /\ Accounting!RESOURCE_COUNT \in Nat
    BY DEF AccountInv, Accounting!TypeOK, Numbers
  <2> QED
    BY <2>1, <2>2, <2>3, <2>4
<1>3. /\ m_time' = m_time /\ Other' = Other /\ Interval' = Interval
      /\ Accounting!Cleared' = Accounting!Cleared
      /\ \A r : /\ Sum(m_time[m_slot][r])' = Sum(m_time[m_slot][r])
               /\ Sum(m_time[Other][r])' = Sum(m_time[Other][r]) /\ Since(r)' = Since(r)
  BY <1>1
     DEF Accounting!times, Other, Interval, Since, Accounting!Cleared, Sum,
         Accounting!MapThenSumSet, Accounting!MapThenFoldSet
<1>4. Accounting!TypeOK'
  <2>1. reportPosted' \in BOOLEAN
    BY Zenon DEF Accounting!WriteDone
  <2>2. /\ m_report_pending' \in 0..(Accounting!RESOURCE_COUNT + 1)
        /\ writing' \in {"nothing", "header", "body"}
    BY <1>2
  <2> QED
    BY <1>1, <2>1, <2>2 DEF AccountInv, Accounting!TypeOK, Accounting!times
<1>5. Pending'
  <2>1. m_report_pending' > 0 <=> m_report_pending' # 0
    BY <1>2
  <2>2. writing = "header" \/ m_report_pending' \in 1..Accounting!RESOURCE_COUNT
          => writing = "header" \/ m_report_pending \in 1..Accounting!RESOURCE_COUNT
    BY <1>2 DEF AccountInv, Pending, Accounting!TypeOK
  <2>3. m_report_pending' \in 1..Accounting!RESOURCE_COUNT => total_time' = Interval' % Half
    BY <1>1, <1>2, <1>3, <2>2 DEF AccountInv, Pending
  <2> QED
    BY <1>2, <2>1, <2>3 DEF Pending
<1>6. SlotAddsUp'
  BY <1>3 DEF AccountInv, SlotAddsUp
<1>7. OtherAddsUp'
  <2>1. CASE m_report_pending = 1
    BY <1>2, <1>3, <2>1 DEF AccountInv, OtherAddsUp
  <2>2. CASE m_report_pending # 1
    BY <1>2, <1>3, <2>2 DEF AccountInv, OtherAddsUp
  <2> QED
    BY <2>1, <2>2
<1> QED
  BY <1>2, <1>4, <1>5, <1>6, <1>7 DEF AccountInv, BodyRight

LEMMA AccountStays ==
  ASSUME AccountInv, UNCHANGED <<Accounting!slots, Accounting!times, reportPosted, Accounting!messages>>,
         clock' \in 0..MaxTime, reading' \in Readings
  PROVE  AccountInv'
<1>1. UNCHANGED <<m_slot, m_report_pending, m_slot_start, m_current_act, m_last_time, m_time,
                  total_time, m_body_msg, writing, reportPosted>>
  BY DEF Accounting!slots, Accounting!times, Accounting!messages
<1>2. Accounting!TypeOK'
  BY <1>1 DEF AccountInv, Accounting!TypeOK, Readings
<1>3. /\ Other' = Other /\ Interval' = Interval /\ Accounting!Cleared' = Accounting!Cleared
      /\ \A r : /\ Sum(m_time[m_slot][r])' = Sum(m_time[m_slot][r])
               /\ Sum(m_time[Other][r])' = Sum(m_time[Other][r]) /\ Since(r)' = Since(r)
      /\ Sum(m_body_msg.time)' = Sum(m_body_msg.time)
  BY <1>1
     DEF Other, Interval, Since, Accounting!Cleared, Sum, Accounting!MapThenSumSet,
         Accounting!MapThenFoldSet
<1> QED
  BY <1>1, <1>2, <1>3 DEF AccountInv, Pending, SlotAddsUp, OtherAddsUp, BodyRight

LEMMA AccountStep ==
  ASSUME Numbers, AccountInv, [Accounting!Next]_Accounting!vars
  PROVE  AccountInv'
<1>1. reading \in Readings /\ clock \in 0..MaxTime /\ MaxTime \in Nat
  BY DEF AccountInv, Accounting!TypeOK, Readings, Numbers
<1>2. CASE Accounting!Tick
  BY <1>1, <1>2, AccountStays DEF Accounting!Tick
<1>3. ASSUME NEW res \in Res, NEW act \in Activity, Accounting!HandlerRecords(res, act)
      PROVE  AccountInv'
  BY <1>1, <1>3, ChangeKeeps DEF Accounting!HandlerRecords
<1>4. ASSUME NEW res \in Res, NEW act \in Activity, Accounting!TaskReads(res, act)
      PROVE  AccountInv'
  <2>1. reading' \in Readings
    BY <1>1, <1>4 DEF Accounting!TaskReads, Readings
  <2> QED
    BY <1>1, <1>4, <2>1, AccountStays DEF Accounting!TaskReads
<1>5. CASE Accounting!TaskRecords
  <2>1. reading.res \in Res /\ reading.act \in Activity /\ reading.now \in 0..MaxTime
    BY <1>1, <1>5 DEF Accounting!TaskRecords, Readings
  <2>2. reading' \in Readings
    BY <1>5 DEF Accounting!TaskRecords, Readings
  <2> QED
    BY <1>5, <2>1, <2>2, ChangeKeeps DEF Accounting!TaskRecords
<1>6. CASE UNCHANGED Accounting!vars
  BY <1>1, <1>6, AccountStays DEF Accounting!vars
<1> QED
  BY <1>2, <1>3, <1>4, <1>5, <1>6, ReportKeeps, DoneKeeps DEF Accounting!Next

------------------------------------------------------------------------------
(* The logger that is built in.                                            *)

StreamInv ==
  /\ logger = "compressed" => CompressedInv
  /\ logger = "entry" => EntryInv

LEMMA StreamInit ==
  ASSUME InitLogs
  PROVE  StreamInv /\ Log!Init
<1>1. Init /\ E!Init /\ Init /\ E!Init
  BY DEF InitLogs, InitStreams
<1>2. CompressedInv /\ Entries = << >> /\ Out = << >>
  BY <1>1, CompressedInit
<1>3. EntryInv /\ E!Out = << >>
  BY <1>1, EntryInit
<1>4. BlockOf \in 1..BUFFERSIZE
  BY <1>2, BlocksAreAligned, SizeAssumption DEF BlockOf, CompressedInv, Ring, BufferTypeOK
<1> QED
  BY <1>2, <1>3, <1>4 DEF StreamInv, Log!Init, OutOf

LEMMA StreamStep ==
  ASSUME StreamInv, [NextLogs]_logVars
  PROVE  StreamInv' /\ [Log!Next]_Log!logVars
<1>1. logger' = logger /\ BlockOf' = BlockOf
  BY DEF NextLogs, logVars, BlockOf
<1>2. CASE logger = "compressed" /\ Next
  <2>1. CompressedInv' /\ Becomes(CBLOCKSIZE, Out, Out')
    BY <1>2, CompressedStep DEF StreamInv
  <2>2. BlockOf = CBLOCKSIZE /\ OutOf = Out /\ OutOf' = Out'
    BY <1>1, <1>2 DEF BlockOf, OutOf
  <2> QED
    BY <1>1, <1>2, <2>1, <2>2 DEF StreamInv, Becomes, Log!Next, Log!Accept, Log!Send, Log!Sent, Log!logVars
<1>3. CASE logger = "entry" /\ E!Next
  <2>1. EntryInv' /\ Becomes(1, E!Out, E!Out')
    BY <1>3, EntryStep DEF StreamInv
  <2>2. BlockOf = 1 /\ OutOf = E!Out /\ OutOf' = E!Out'
    BY <1>1, <1>3 DEF BlockOf, OutOf
  <2> QED
    BY <1>1, <1>3, <2>1, <2>2 DEF StreamInv, Becomes, Log!Next, Log!Accept, Log!Send, Log!Sent, Log!logVars
<1>4. CASE UNCHANGED streamVars
  <2>1. /\ UNCHANGED <<ring, m_state, local>> /\ UNCHANGED <<compressing, pc, bits, port>>
        /\ UNCHANGED <<m_w_entry, preparing, reposting, xe, sends>>
        /\ m_head' = m_head /\ m_tail' = m_tail /\ m_size' = m_size /\ buf' = buf
        /\ slot' = slot /\ entry' = entry /\ to_write' = to_write
    BY <1>4 DEF streamVars, both, compressedVars, entryVars, ring, local
  <2>2. Entries' = Entries
    BY <2>1 DEF Entries, EntryAt
  <2>3. OutOf' = OutOf
    BY <1>1, <2>1 DEF OutOf, Out, E!Out
  <2>4. CompressedInv => CompressedInv'
    BY <2>1, <2>2 DEF CompressedInv, TypeOK, BufferTypeOK, Ring, SlotOf, Apart, BlockIsRead
  <2>5. EntryInv => EntryInv'
    BY <2>1, <2>2 DEF EntryInv, E!TypeOK, E!BufferTypeOK, BufferTypeOK, Ring, SlotOf, EntryApart
  <2> QED
    BY <1>1, <2>2, <2>3, <2>4, <2>5 DEF StreamInv, Log!logVars
<1> QED
  BY <1>2, <1>3, <1>4 DEF NextLogs, NextStream, logVars

(* A full block of the compressing logger is always in exactly one pair of *)
(* hands, which the task and writeDone rely on: for every size of the      *)
(* buffer and every block size that divides it.                            *)
THEOREM FullBlockInOneHand == FairLogs => []BlockInOneHand
<1>1. InitLogs => StreamInv
  BY StreamInit
<1>2. StreamInv /\ [NextLogs]_logVars => StreamInv'
  BY StreamStep
<1>3. StreamInv => BlockInOneHand
  BY HandsApart DEF StreamInv, CompressedInv, BlockInOneHand
<1> QED
  BY <1>1, <1>2, <1>3, PTL DEF FairLogs

(* Both loggers that stream send what they accepted, each entry once and   *)
(* in the order of reservation, in blocks that nothing has overwritten.    *)
THEOREM StreamsImplementBlockLog == FairLogs => ImplementsBlockLog
<1>1. InitLogs => StreamInv /\ Log!Init
  BY StreamInit
<1>2. StreamInv /\ [NextLogs]_logVars => StreamInv' /\ [Log!Next]_Log!logVars
  BY StreamStep
<1> QED
  BY <1>1, <1>2, PTL DEF FairLogs, ImplementsBlockLog, Log!Spec

------------------------------------------------------------------------------
(* All loggers: those that are not built in keep their initial values.     *)

LogsInv ==
  /\ TypeOK /\ E!TypeOK /\ StreamInv
  /\ StagedInv /\ Telling /\ RawInv /\ DumpInv /\ AccountInv

LEMMA LogsInit == InitLogs => LogsInv
<1> SUFFICES ASSUME InitLogs PROVE LogsInv
  OBVIOUS
<1>1. /\ Init /\ E!Init /\ StreamInv /\ Memory!Init /\ Memory!Raw!Init
      /\ Memory!Dumping!Init /\ Accounting!Init
  BY StreamInit DEF InitLogs, InitStreams, Memory!InitMemory
<1>2. TypeOK /\ E!TypeOK
  BY <1>1, CompressedInit, EntryInit DEF CompressedInv, EntryInv
<1>3. StagedInv /\ Telling /\ RawInv /\ DumpInv /\ AccountInv
  BY <1>1, StagedInit, TellingInit, RawInit, DumpInit, AccountInit, AssumedNumbers
<1> QED
  BY <1>1, <1>2, <1>3 DEF LogsInv

LEMMA StreamTypes ==
  ASSUME TypeOK, E!TypeOK, StreamInv, [NextLogs]_logVars
  PROVE  TypeOK' /\ E!TypeOK'
<1>1. StreamInv' /\ logger' = logger
  BY StreamStep DEF NextLogs, logVars
<1>2. CASE logger = "compressed" /\ UNCHANGED entryVars
  <2>1. TypeOK' /\ BufferTypeOK'
    BY <1>1, <1>2 DEF StreamInv, CompressedInv, TypeOK
  <2>2. E!BufferTypeOK' /\ E!Slots' = E!Slots
    BY <2>1, SameBuffer DEF E!BufferTypeOK, BufferTypeOK, E!Slots, Slots
  <2> QED
    BY <1>2, <2>1, <2>2 DEF entryVars, E!TypeOK
<1>3. CASE logger = "entry" /\ UNCHANGED compressedVars
  <2>1. E!TypeOK' /\ E!BufferTypeOK'
    BY <1>1, <1>3 DEF StreamInv, EntryInv, E!TypeOK
  <2>2. BufferTypeOK'
    BY <2>1 DEF E!BufferTypeOK, BufferTypeOK, E!Slots, Slots
  <2> QED
    BY <1>3, <2>1, <2>2 DEF compressedVars, TypeOK
<1>4. CASE UNCHANGED streamVars
  BY <1>4
     DEF streamVars, both, compressedVars, entryVars, ring, local, TypeOK, BufferTypeOK, E!TypeOK,
         E!BufferTypeOK
<1> QED
  BY <1>2, <1>3, <1>4 DEF NextLogs, NextStream, logVars

(* A step of the program is one of the logger that is built in.            *)
LEMMA MemorySteps ==
  ASSUME [NextLogs]_logVars
  PROVE  /\ [Memory!Next /\ UNCHANGED continuous]_<<continuous, Memory!vars>>
         /\ [Memory!Raw!Next]_Memory!Raw!vars
         /\ [Memory!Dumping!Next]_Memory!Dumping!vars
         /\ [Accounting!Next]_Accounting!vars
<1>1. CASE UNCHANGED memoryVars
  <2>1. UNCHANGED <<continuous, Memory!vars, Memory!Raw!vars, Memory!Dumping!vars>>
    BY <1>1
       DEF memoryVars, Memory!vars, Memory!local, Memory!message, Memory!Raw!vars,
           Memory!Raw!reporting, Memory!Raw!local, Memory!Dumping!vars, Memory!Dumping!ring
  <2>2. Accounting!Next \/ UNCHANGED Accounting!vars
    <3>1. Accounting!Next \/ UNCHANGED accountVars
      BY <1>1 DEF NextLogs, logVars, Memory!NextMemory
    <3> QED
      BY <3>1
         DEF accountVars, Accounting!vars, Accounting!slots, Accounting!times,
             Accounting!messages
  <2> QED
    BY <2>1, <2>2
<1>2. CASE Memory!NextMemory /\ UNCHANGED accountVars
  <2>1. UNCHANGED Accounting!vars
    BY <1>2
       DEF accountVars, Accounting!vars, Accounting!slots, Accounting!times,
           Accounting!messages
  <2>2. CASE logger = "staged" /\ Memory!Next /\ UNCHANGED <<Memory!rawVars, Memory!dumpVars>>
    <3>1. UNCHANGED <<Memory!Raw!vars, Memory!Dumping!vars>>
      BY <2>2
         DEF Memory!rawVars, Memory!dumpVars, Memory!Raw!vars, Memory!Raw!reporting,
             Memory!Raw!local, Memory!Dumping!vars, Memory!Dumping!ring
    <3> QED
      BY <1>2, <2>1, <2>2, <3>1 DEF Memory!NextMemory
  <2>3. CASE logger = "raw" /\ Memory!Raw!Next /\ UNCHANGED <<Memory!vars, Memory!dumpVars>>
    <3>1. UNCHANGED Memory!Dumping!vars
      BY <2>3 DEF Memory!dumpVars, Memory!Dumping!vars, Memory!Dumping!ring
    <3> QED
      BY <1>2, <2>1, <2>3, <3>1 DEF Memory!NextMemory
  <2>4. CASE /\ logger = "continuous" /\ Memory!Dumping!Next
             /\ UNCHANGED <<Memory!vars, Memory!rawVars>>
    <3>1. UNCHANGED Memory!Raw!vars
      BY <2>4
         DEF Memory!rawVars, Memory!Raw!vars, Memory!Raw!reporting, Memory!Raw!local
    <3> QED
      BY <1>2, <2>1, <2>4, <3>1 DEF Memory!NextMemory
  <2> QED
    BY <1>2, <2>2, <2>3, <2>4 DEF Memory!NextMemory
<1> QED
  BY <1>1, <1>2 DEF NextLogs, logVars

LEMMA LogsStep ==
  ASSUME LogsInv, [NextLogs]_logVars
  PROVE  /\ LogsInv'
         /\ Memory!RoundEnds => Memory!AllIsSent
         /\ Memory!Raw!ReportEnds => Memory!Raw!ReportIsComplete
<1>1. TypeOK' /\ E!TypeOK' /\ StreamInv'
  BY StreamTypes, StreamStep DEF LogsInv
<1>2. StagedInv' /\ Telling' /\ (Memory!RoundEnds => Memory!AllIsSent)
  BY StagedStep, TellingStep, MemorySteps DEF LogsInv
<1>3. RawInv' /\ (Memory!Raw!ReportEnds => Memory!Raw!ReportIsComplete)
  BY RawStep, MemorySteps DEF LogsInv
<1>4. DumpInv' /\ AccountInv'
  BY DumpStep, AccountStep, AssumedNumbers, MemorySteps DEF LogsInv
<1> QED
  BY <1>1, <1>2, <1>3, <1>4 DEF LogsInv

(* The variables of every logger stay within their types: what recordChange *)
(* writes, it writes to a slot of the logger's memory, though changes count *)
(* on in a full log and handlers record in between.  What a flush or a dump *)
(* reads may lie beyond: the types of the staged m_report_index and of the *)
(* continuous m_tail allow it.                                             *)
THEOREM TypesOfLogs == FairLogs => []LogsTypeOK
<1>1. LogsInv => LogsTypeOK
  BY DEF LogsInv, StagedInv, RawInv, DumpInv, AccountInv, LogsTypeOK, Memory!MemoryTypeOK
<1> QED
  BY <1>1, LogsInit, LogsStep, PTL DEF FairLogs

(* A raw report is what was recorded, in order.  The messages of a staged  *)
(* flush tell the log from its start, in order, each index once and none   *)
(* beyond count, and each index below count in the log is filled, though   *)
(* handlers fill the log under a recordChange of the main program.         *)
THEOREM FlushTells == FairLogs => []FlushTellsLog
<1>1. LogsInv => FlushTellsLog
  BY StagedFacts DEF LogsInv, Telling, RawInv, Reporting, FlushTellsLog, Memory!FlushTellsLog
<1> QED
  BY <1>1, LogsInit, LogsStep, PTL DEF FairLogs

(* A flush ends only after every entry was sent.                           *)
THEOREM FlushEndsComplete == FairLogs => FlushIsComplete
<1>1. LogsInv /\ [NextLogs]_logVars =>
        [/\ Memory!RoundEnds => Memory!AllIsSent
         /\ Memory!Raw!ReportEnds => Memory!Raw!ReportIsComplete]_Memory!memoryVars
  BY LogsStep
<1> QED
  BY <1>1, LogsInit, LogsStep, PTL DEF FairLogs, FlushIsComplete, Memory!FlushIsComplete

(* No entry of the continuous logger is forgotten: whoever finds the flag  *)
(* m_dump_posted set can rely on a dump that is posted or about to be.     *)
THEOREM DumpsGo == FairLogs => []DumpsKeepGoing
<1>1. LogsInv => DumpsKeepGoing
  BY DEF LogsInv, DumpInv, DumpsKeepGoing, Memory!DumpsKeepGoing
<1> QED
  BY <1>1, LogsInit, LogsStep, PTL DEF FairLogs

(* In every report the times of the activities add up to the interval, for *)
(* every resource, any number of resources and activities and counters of  *)
(* any width.                                                              *)
THEOREM TimesAddUp == FairLogs => []ReportAddsUp
<1>1. LogsInv => ReportAddsUp
  BY DEF LogsInv, AccountInv, BodyRight, Sum, ReportAddsUp, Accounting!BodyAddsUp,
         Accounting!MapThenSumSet, Accounting!MapThenFoldSet
<1> QED
  BY <1>1, LogsInit, LogsStep, PTL DEF FairLogs
===============================================================================
