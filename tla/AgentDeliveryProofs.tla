------------------------ MODULE AgentDeliveryProofs -------------------------
(***************************************************************************)
(* Proofs about AgentDelivery, for any buffer and batch size, any number   *)
(* of payloads and disk failures, with and without crashes.                *)
(*                                                                         *)
(* That no payload is lost or doubled needs to know where a payload can    *)
(* be: the file, the drained batch and the current payload are disjoint,   *)
(* and everything in them was collected, so the next payload is new.       *)
(***************************************************************************)
EXTENDS AgentDelivery, TLAPS

Distinct(s) == \A i, j \in 1..Len(s) : s[i] = s[j] => i = j

(* Nothing is held that was not collected. *)
HeldWasCollected == Held \subseteq 0..collected

(* What HeldOnce says, place by place. *)
Apart ==
  diskFailures = 0 =>
    /\ Distinct(buffer) /\ Distinct(batch)
    /\ ToSet(buffer) \cap ToSet(batch) = {}
    /\ cur \notin ToSet(buffer) \cup ToSet(batch)

IInv ==
  /\ TypeOK
  /\ HeldWasCollected
  /\ Apart
  /\ NoSilentLoss

-----------------------------------------------------------------------------
(* Sequences *)

(* The elements of a sequence, by index. *)
LEMMA ToSetFacts ==
  ASSUME NEW S, NEW s \in Seq(S)
  PROVE  /\ ToSet(s) \subseteq S
         /\ \A i \in 1..Len(s) : s[i] \in ToSet(s)
         /\ \A x \in ToSet(s) : \E i \in 1..Len(s) : s[i] = x
BY DEF ToSet

(* The empty sequence. *)
LEMMA EmptyFacts == ToSet(<< >>) = {} /\ Distinct(<< >>) /\ Len(<< >>) = 0
BY DEF ToSet, Distinct

(* Appending an element. *)
LEMMA AppendFacts ==
  ASSUME NEW S, NEW s \in Seq(S), NEW p \in S
  PROVE  /\ Append(s, p) \in Seq(S) /\ Len(Append(s, p)) = Len(s) + 1
         /\ ToSet(Append(s, p)) = ToSet(s) \cup {p}
         /\ Distinct(s) /\ p \notin ToSet(s) => Distinct(Append(s, p))
<1> DEFINE a == Append(s, p)
<1>1. /\ a \in Seq(S) /\ Len(a) = Len(s) + 1 /\ Len(s) \in Nat
      /\ \A i \in 1..Len(s) : a[i] = s[i]
      /\ a[Len(s) + 1] = p
  OBVIOUS
<1> HIDE DEF a
<1>2. ToSet(a) = ToSet(s) \cup {p}
  <2>1. ToSet(a) \subseteq ToSet(s) \cup {p}
    BY <1>1, ToSetFacts
  <2>2. ToSet(s) \cup {p} \subseteq ToSet(a)
    BY <1>1, ToSetFacts
  <2> QED BY <2>1, <2>2
<1>3. Distinct(s) /\ p \notin ToSet(s) => Distinct(a)
  BY <1>1, ToSetFacts DEF Distinct
<1> QED BY <1>1, <1>2, <1>3 DEF a

(* Dropping the first element. *)
LEMMA TailFacts ==
  ASSUME NEW S, NEW s \in Seq(S), s # << >>
  PROVE  /\ Head(s) \in S /\ Tail(s) \in Seq(S) /\ Len(Tail(s)) = Len(s) - 1
         /\ ToSet(s) = ToSet(Tail(s)) \cup {Head(s)}
         /\ Distinct(s) => Distinct(Tail(s)) /\ Head(s) \notin ToSet(Tail(s))
<1> DEFINE t == Tail(s)
<1>1. /\ t \in Seq(S) /\ Len(t) = Len(s) - 1 /\ Len(s) \in Nat /\ Len(s) > 0
      /\ \A i \in 1..Len(t) : t[i] = s[i + 1]
      /\ Head(s) = s[1] /\ s[1] \in S
  OBVIOUS
<1> HIDE DEF t
<1>2. ToSet(s) = ToSet(t) \cup {Head(s)}
  <2>1. ASSUME NEW x \in ToSet(s) PROVE x \in ToSet(t) \cup {Head(s)}
    <3>1. PICK i \in 1..Len(s) : s[i] = x
      BY ToSetFacts
    <3>2. CASE i = 1
      BY <1>1, <3>1, <3>2
    <3>3. CASE i # 1
      <4>1. i - 1 \in 1..Len(t) /\ t[i - 1] = s[i]
        BY <1>1, <3>1, <3>3
      <4> QED BY <1>1, <3>1, <4>1, ToSetFacts
    <3> QED BY <3>2, <3>3
  <2>2. ASSUME NEW x \in ToSet(t) PROVE x \in ToSet(s)
    <3>1. PICK i \in 1..Len(t) : t[i] = x
      BY <1>1, ToSetFacts
    <3>2. i + 1 \in 1..Len(s) /\ s[i + 1] = x
      BY <1>1, <3>1
    <3> QED BY <3>2, ToSetFacts
  <2>3. Head(s) \in ToSet(s)
    BY <1>1, ToSetFacts
  <2> QED BY <2>1, <2>2, <2>3
<1>3. ASSUME Distinct(s) PROVE Distinct(t) /\ Head(s) \notin ToSet(t)
  <2>1. Distinct(t)
    BY <1>1, <1>3 DEF Distinct
  <2>2. ASSUME NEW i \in 1..Len(t) PROVE t[i] # Head(s)
    <3>1. i + 1 \in 1..Len(s) /\ 1 \in 1..Len(s) /\ i + 1 # 1 /\ t[i] = s[i + 1]
      BY <1>1
    <3> QED BY <1>1, <1>3, <3>1 DEF Distinct
  <2> QED BY <1>1, <2>1, <2>2, ToSetFacts
<1> QED BY <1>1, <1>2, <1>3 DEF t

(* A contiguous part of a sequence. *)
LEMMA PartFacts ==
  ASSUME NEW S, NEW s \in Seq(S), NEW m \in 1..Len(s) + 1, NEW n \in m-1..Len(s)
  PROVE  /\ SubSeq(s, m, n) \in Seq(S) /\ Len(SubSeq(s, m, n)) = n - m + 1
         /\ \A i \in 1..n - m + 1 : SubSeq(s, m, n)[i] = s[m + i - 1]
         /\ ToSet(SubSeq(s, m, n)) \subseteq ToSet(s)
         /\ Distinct(s) => Distinct(SubSeq(s, m, n))
<1> DEFINE q == SubSeq(s, m, n)
<1>0. Len(s) \in Nat /\ m \in Int /\ n \in Int /\ m >= 1 /\ m <= Len(s) + 1
      /\ n >= m - 1 /\ n <= Len(s)
  OBVIOUS
<1>1. /\ q \in Seq(S) /\ Len(q) = n - m + 1
      /\ \A i \in 1..n - m + 1 : q[i] = s[m + i - 1]
  BY <1>0
<1> HIDE DEF q
<1>2. ASSUME NEW x \in ToSet(q) PROVE x \in ToSet(s)
  <2>1. PICK i \in 1..Len(q) : q[i] = x
    BY <1>1, ToSetFacts
  <2>2. m + i - 1 \in 1..Len(s) /\ s[m + i - 1] = x
    BY <1>0, <1>1, <2>1
  <2> QED BY <2>2, ToSetFacts
<1>3. ASSUME Distinct(s), NEW i \in 1..Len(q), NEW j \in 1..Len(q), q[i] = q[j]
      PROVE  i = j
  <2>1. /\ m + i - 1 \in 1..Len(s) /\ m + j - 1 \in 1..Len(s)
        /\ s[m + i - 1] = s[m + j - 1]
    BY <1>0, <1>1, <1>3
  <2>2. m + i - 1 = m + j - 1
    BY <1>3, <2>1 DEF Distinct
  <2> QED BY <1>0, <2>2
<1> QED BY <1>1, <1>2, <1>3 DEF q, Distinct

(* A sequence cut in two. *)
LEMMA CutFacts ==
  ASSUME NEW S, NEW s \in Seq(S), NEW n \in 0..Len(s)
  PROVE  LET front == SubSeq(s, 1, n)
             back == SubSeq(s, n + 1, Len(s))
         IN  /\ front \in Seq(S) /\ Len(front) = n
             /\ back \in Seq(S) /\ Len(back) = Len(s) - n
             /\ ToSet(s) = ToSet(front) \cup ToSet(back)
             /\ Distinct(s) => /\ Distinct(front) /\ Distinct(back)
                               /\ ToSet(front) \cap ToSet(back) = {}
<1> DEFINE front == SubSeq(s, 1, n)
           back == SubSeq(s, n + 1, Len(s))
<1>0. Len(s) \in Nat /\ n \in Nat /\ n <= Len(s)
  OBVIOUS
<1>1. /\ front \in Seq(S) /\ Len(front) = n
      /\ \A i \in 1..n : front[i] = s[i]
      /\ ToSet(front) \subseteq ToSet(s)
      /\ Distinct(s) => Distinct(front)
  <2>1. 1 \in 1..Len(s) + 1 /\ n \in 1-1..Len(s) /\ n - 1 + 1 = n
        /\ \A i \in 1..n : 1 + i - 1 = i
    BY <1>0
  <2> QED BY <2>1, PartFacts
<1>2. /\ back \in Seq(S) /\ Len(back) = Len(s) - n
      /\ \A i \in 1..Len(s) - n : back[i] = s[n + i]
      /\ ToSet(back) \subseteq ToSet(s)
      /\ Distinct(s) => Distinct(back)
  <2> DEFINE m == n + 1
             e == Len(s)
  <2>1. /\ m \in 1..Len(s) + 1 /\ e \in m-1..Len(s)
        /\ e - m + 1 = Len(s) - n
        /\ \A i \in 1..Len(s) - n : m + i - 1 = n + i
    BY <1>0
  <2>2. back = SubSeq(s, m, e)
    OBVIOUS
  <2> HIDE DEF m, e, back
  <2>3. /\ back \in Seq(S) /\ Len(back) = e - m + 1
        /\ \A i \in 1..e - m + 1 : back[i] = s[m + i - 1]
        /\ ToSet(back) \subseteq ToSet(s)
        /\ Distinct(s) => Distinct(back)
    BY <2>1, <2>2, PartFacts
  <2> QED BY <2>1, <2>3
<1> HIDE DEF front, back
<1>3. ASSUME NEW x \in ToSet(s) PROVE x \in ToSet(front) \cup ToSet(back)
  <2>1. PICK i \in 1..Len(s) : s[i] = x
    BY ToSetFacts
  <2>2. CASE i <= n
    <3>1. i \in 1..Len(front) /\ front[i] = x
      BY <1>0, <1>1, <2>1, <2>2
    <3> QED BY <1>1, <3>1, ToSetFacts
  <2>3. CASE i > n
    <3>1. i - n \in 1..Len(back) /\ back[i - n] = s[n + (i - n)] /\ n + (i - n) = i
      BY <1>0, <1>2, <2>3
    <3> QED BY <1>2, <2>1, <3>1, ToSetFacts
  <2> QED BY <1>0, <2>2, <2>3
<1>4. ASSUME Distinct(s), NEW x \in ToSet(front), x \in ToSet(back) PROVE FALSE
  <2>1. PICK i \in 1..Len(front) : front[i] = x
    BY <1>1, ToSetFacts
  <2>2. PICK j \in 1..Len(back) : back[j] = x
    BY <1>2, <1>4, ToSetFacts
  <2>3. /\ i \in 1..Len(s) /\ s[i] = x /\ n + j \in 1..Len(s) /\ s[n + j] = x /\ i # n + j
    BY <1>0, <1>1, <1>2, <2>1, <2>2
  <2> QED BY <1>4, <2>3 DEF Distinct
<1> QED BY <1>1, <1>2, <1>3, <1>4 DEF front, back

-----------------------------------------------------------------------------
(* The buffer file *)

(* What reading and writing the file may do; if the disk has never failed,  *)
(* the read and the write did what they should.                             *)
LEMMA FileFacts ==
  ASSUME TypeOK, NEW read \in Reads, NEW entries, WriteAll(read, entries)
  PROVE  /\ read \in Seq(Payloads) /\ Len(read) <= Len(buffer)
         /\ ToSet(read) \subseteq ToSet(buffer)
         /\ buffer' = entries \/ buffer' = buffer
         /\ diskFailures' \in 0..MaxDiskFailures
         /\ diskFailures' = 0 => diskFailures = 0 /\ read = buffer /\ buffer' = entries
<1>1. read = buffer \/ (read = << >> /\ diskFailures < MaxDiskFailures)
  BY DEF Reads
<1>2. diskFailures \in Nat /\ diskFailures <= MaxDiskFailures /\ Len(buffer) \in Nat
      /\ buffer \in Seq(Payloads)
  BY DeliveryAssumption DEF TypeOK
<1>3. read \in Seq(Payloads) /\ Len(read) <= Len(buffer) /\ ToSet(read) \subseteq ToSet(buffer)
  <2>1. CASE read = buffer
    BY <1>2, <2>1
  <2>2. CASE read = << >>
    <3>1. << >> \in Seq(Payloads)
      OBVIOUS
    <3> QED BY <1>2, <2>2, <3>1, EmptyFacts
  <2> QED BY <1>1, <2>1, <2>2
<1>4. /\ \/ buffer' = entries
         \/ diskFailures < MaxDiskFailures /\ buffer' = buffer
      /\ \/ read = buffer /\ buffer' = entries /\ diskFailures' = diskFailures
         \/ (read # buffer \/ buffer' # entries) /\ diskFailures' = diskFailures + 1
  BY DEF WriteAll
<1>5. /\ diskFailures' \in 0..MaxDiskFailures
      /\ diskFailures' = 0 => diskFailures = 0 /\ read = buffer /\ buffer' = entries
  BY <1>1, <1>2, <1>4, DeliveryAssumption
<1> QED BY <1>3, <1>4, <1>5

(* The bound of the buffer drops oldest entries only. *)
LEMMA BoundedFacts ==
  ASSUME NEW s \in Seq(Payloads)
  PROVE  /\ Bounded(s) \in Seq(Payloads) /\ Len(Bounded(s)) <= MaxEntries
         /\ ToSet(Bounded(s)) \subseteq ToSet(s)
         /\ Distinct(s) => Distinct(Bounded(s))
         /\ Bounded(s) = s \/ Len(Bounded(s)) = MaxEntries
<1>0. Len(s) \in Nat /\ MaxEntries \in Nat
  BY DeliveryAssumption
<1>1. CASE Len(s) <= MaxEntries
  <2>1. Bounded(s) = s
    BY <1>0, <1>1 DEF Bounded
  <2> QED BY <1>1, <2>1
<1>2. CASE Len(s) > MaxEntries
  <2> DEFINE m == Len(s) - MaxEntries + 1
             e == Len(s)
  <2>1. /\ m \in 1..Len(s) + 1 /\ e \in m-1..Len(s) /\ e - m + 1 = MaxEntries
    BY <1>0, <1>2, DeliveryAssumption
  <2>2. Bounded(s) = SubSeq(s, m, e)
    BY <1>0, <1>2 DEF Bounded, Newest
  <2> HIDE DEF m, e
  <2>3. /\ Bounded(s) \in Seq(Payloads) /\ Len(Bounded(s)) = e - m + 1
        /\ ToSet(Bounded(s)) \subseteq ToSet(s)
        /\ Distinct(s) => Distinct(Bounded(s))
    BY <2>1, <2>2, PartFacts
  <2> QED BY <1>0, <2>1, <2>3
<1> QED BY <1>0, <1>1, <1>2

(* enqueue keeps the file bounded; while the disk works, everything that    *)
(* was in the file and the new payload is in the file or has been evicted,  *)
(* and eviction happens only to a full buffer.                              *)
LEMMA EnqueueFacts ==
  ASSUME TypeOK, NEW p \in Payloads, Enqueue(p)
  PROVE  /\ buffer' \in Seq(Payloads) /\ Len(buffer') <= MaxEntries
         /\ diskFailures' \in 0..MaxDiskFailures
         /\ dropped \subseteq dropped' /\ dropped' \subseteq Payloads
         /\ ToSet(buffer') \subseteq ToSet(buffer) \cup {p}
         /\ diskFailures' = 0 =>
              /\ diskFailures = 0
              /\ ToSet(buffer) \cup {p} \subseteq ToSet(buffer') \cup dropped'
              /\ Distinct(buffer) /\ p \notin ToSet(buffer) => Distinct(buffer')
              /\ ToSet(buffer) \subseteq ToSet(buffer') \/ Len(buffer') = MaxEntries
<1>1. PICK read \in Reads :
        /\ WriteAll(read, Bounded(Append(read, p)))
        /\ dropped' = IF buffer' = Bounded(Append(read, p))
                        THEN dropped \cup (ToSet(Append(read, p)) \ ToSet(buffer'))
                        ELSE dropped
  BY DEF Enqueue
<1> DEFINE all == Append(read, p)
           kept == Bounded(all)
<1>2. /\ read \in Seq(Payloads) /\ ToSet(read) \subseteq ToSet(buffer)
      /\ buffer' = kept \/ buffer' = buffer
      /\ diskFailures' \in 0..MaxDiskFailures
      /\ diskFailures' = 0 => diskFailures = 0 /\ read = buffer /\ buffer' = kept
  BY <1>1, FileFacts
<1>3. /\ all \in Seq(Payloads) /\ ToSet(all) = ToSet(read) \cup {p}
      /\ Distinct(read) /\ p \notin ToSet(read) => Distinct(all)
  BY <1>2, AppendFacts
<1>4. /\ kept \in Seq(Payloads) /\ Len(kept) <= MaxEntries
      /\ ToSet(kept) \subseteq ToSet(all)
      /\ Distinct(all) => Distinct(kept)
      /\ kept = all \/ Len(kept) = MaxEntries
  <2> HIDE DEF all
  <2> QED BY <1>3, BoundedFacts
<1>5. dropped' = IF buffer' = kept THEN dropped \cup (ToSet(all) \ ToSet(buffer')) ELSE dropped
  BY <1>1
<1>6. ToSet(all) \subseteq Payloads /\ dropped \subseteq Payloads
  <2> HIDE DEF all
  <2> QED BY <1>3, ToSetFacts DEF TypeOK
<1>7. buffer \in Seq(Payloads) /\ Len(buffer) <= MaxEntries
  BY DEF TypeOK
<1> HIDE DEF all, kept
<1>8. buffer' \in Seq(Payloads) /\ Len(buffer') <= MaxEntries
  BY <1>2, <1>4, <1>7
<1>9. /\ dropped \subseteq dropped' /\ dropped' \subseteq Payloads
      /\ ToSet(buffer') \subseteq ToSet(buffer) \cup {p}
  BY <1>2, <1>3, <1>4, <1>5, <1>6
<1>10. ASSUME diskFailures' = 0
       PROVE  /\ diskFailures = 0
              /\ ToSet(buffer) \cup {p} \subseteq ToSet(buffer') \cup dropped'
              /\ Distinct(buffer) /\ p \notin ToSet(buffer) => Distinct(buffer')
              /\ ToSet(buffer) \subseteq ToSet(buffer') \/ Len(buffer') = MaxEntries
  <2>1. diskFailures = 0 /\ read = buffer /\ buffer' = kept
    BY <1>2, <1>10
  <2>2. dropped' = dropped \cup (ToSet(all) \ ToSet(kept))
    BY <1>5, <2>1
  <2> QED BY <1>3, <1>4, <2>1, <2>2
<1> QED BY <1>2, <1>8, <1>9, <1>10

(* drain moves the oldest payloads into the batch, and none else. *)
LEMMA DrainFacts ==
  ASSUME TypeOK, Drain
  PROVE  /\ buffer' \in Seq(Payloads) /\ Len(buffer') <= MaxEntries
         /\ batch' \in Seq(Payloads) /\ Len(batch') <= DrainBatch
         /\ diskFailures' \in 0..MaxDiskFailures
         /\ ToSet(buffer') \cup ToSet(batch') \subseteq ToSet(buffer)
         /\ diskFailures' = 0 =>
              /\ diskFailures = 0
              /\ ToSet(buffer) \subseteq ToSet(buffer') \cup ToSet(batch')
              /\ Distinct(buffer) => /\ Distinct(buffer') /\ Distinct(batch')
                                     /\ ToSet(buffer') \cap ToSet(batch') = {}
<1>1. PICK read \in Reads :
        LET n == Smaller(DrainBatch, Len(read)) IN
          /\ batch' = SubSeq(read, 1, n)
          /\ WriteAll(read, SubSeq(read, n + 1, Len(read)))
  BY DEF Drain
<1> DEFINE n == Smaller(DrainBatch, Len(read))
           rest == SubSeq(read, n + 1, Len(read))
<1>2. /\ read \in Seq(Payloads) /\ ToSet(read) \subseteq ToSet(buffer) /\ Len(read) <= Len(buffer)
      /\ buffer' = rest \/ buffer' = buffer
      /\ diskFailures' \in 0..MaxDiskFailures
      /\ diskFailures' = 0 => diskFailures = 0 /\ read = buffer /\ buffer' = rest
  BY <1>1, FileFacts
<1>3. n \in 0..Len(read) /\ n <= DrainBatch /\ Len(read) \in Nat
  BY <1>2, DeliveryAssumption DEF Smaller
<1>4. batch' = SubSeq(read, 1, n)
  BY <1>1
<1> HIDE DEF n
<1>5. /\ batch' \in Seq(Payloads) /\ Len(batch') = n
      /\ rest \in Seq(Payloads) /\ Len(rest) = Len(read) - n
      /\ ToSet(read) = ToSet(batch') \cup ToSet(rest)
      /\ Distinct(read) => /\ Distinct(batch') /\ Distinct(rest)
                           /\ ToSet(batch') \cap ToSet(rest) = {}
  BY <1>2, <1>3, <1>4, CutFacts
<1> HIDE DEF rest
<1>6. buffer \in Seq(Payloads) /\ Len(buffer) <= MaxEntries /\ Len(buffer) \in Nat
  BY DEF TypeOK
<1>7. Len(rest) <= MaxEntries
  BY <1>2, <1>3, <1>5, <1>6, DeliveryAssumption
<1> QED BY <1>2, <1>3, <1>5, <1>6, <1>7

-----------------------------------------------------------------------------
(* The inductive invariant *)

(* The first payload of a batch that is being dealt with. *)
LEMMA FirstOfBatch ==
  ASSUME IInv, pc \in {"redeliver", "requeue"}
  PROVE  /\ batch # << >> /\ cur = 0
         /\ Head(batch) \in Payloads /\ Head(batch) \in ToSet(batch)
         /\ Tail(batch) \in Seq(Payloads) /\ Len(Tail(batch)) <= DrainBatch
         /\ ToSet(batch) = ToSet(Tail(batch)) \cup {Head(batch)}
         /\ Distinct(batch) => /\ Distinct(Tail(batch))
                               /\ Head(batch) \notin ToSet(Tail(batch))
<1>1. batch # << >> /\ cur = 0 /\ batch \in Seq(Payloads) /\ Len(batch) <= DrainBatch
      /\ Len(batch) \in Nat
  BY DEF IInv, TypeOK
<1>2. Len(Tail(batch)) <= DrainBatch
  BY <1>1, TailFacts, DeliveryAssumption
<1> QED BY <1>1, <1>2, TailFacts

(* The initial state satisfies the inductive invariant. *)
LEMMA InitIInv == Init => IInv
<1> SUFFICES ASSUME Init PROVE IInv
  OBVIOUS
<1> USE DeliveryAssumption
<1>1. << >> \in Seq(Payloads)
  OBVIOUS
<1>2. TypeOK
  BY <1>1, EmptyFacts DEF Init, TypeOK
<1> QED BY <1>2, EmptyFacts DEF Init, IInv, HeldWasCollected, Apart, NoSilentLoss, Held

(* A payload of the batch leaves the Agent, accepted or rejected. *)
LEMMA RedeliverIInv ==
  ASSUME IInv, RedeliverOk \/ RedeliverFatal
  PROVE  IInv'
<1>0. /\ pc = "redeliver" /\ batch' = Tail(batch) /\ pc' = AfterBatch(batch')
      /\ UNCHANGED <<buffer, cur, collected, lost, diskFailures>>
      /\ received \subseteq received' /\ received' \subseteq received \cup {Head(batch)}
      /\ dropped \subseteq dropped' /\ dropped' \subseteq dropped \cup {Head(batch)}
      /\ Head(batch) \in received' \cup dropped'
  BY DEF RedeliverOk, RedeliverFatal, PerhapsReceived
<1>1. TypeOK'
  BY <1>0, FirstOfBatch DEF IInv, TypeOK, AfterBatch
<1>2. HeldWasCollected' /\ Apart'
  BY <1>0, FirstOfBatch DEF IInv, HeldWasCollected, Apart, Held
<1>3. NoSilentLoss'
  BY <1>0, FirstOfBatch DEF IInv, NoSilentLoss, Held
<1> QED BY <1>1, <1>2, <1>3 DEF IInv

(* A payload of the batch is put back into the file. *)
LEMMA RequeueIInv ==
  ASSUME IInv, Requeue
  PROVE  IInv'
<1> DEFINE p == Head(batch)
<1>0. /\ pc = "requeue" /\ Enqueue(p) /\ batch' = Tail(batch)
      /\ pc' = IF batch' = << >> THEN "collect" ELSE "requeue"
      /\ UNCHANGED <<cur, collected, received, lost>>
  BY DEF Requeue
<1>1. /\ batch # << >> /\ cur = 0 /\ p \in Payloads /\ p \in ToSet(batch)
      /\ batch' \in Seq(Payloads) /\ Len(batch') <= DrainBatch
      /\ ToSet(batch) = ToSet(batch') \cup {p}
      /\ Distinct(batch) => Distinct(batch') /\ p \notin ToSet(batch')
  BY <1>0, FirstOfBatch
<1> HIDE DEF p
<1>2. /\ buffer' \in Seq(Payloads) /\ Len(buffer') <= MaxEntries
      /\ diskFailures' \in 0..MaxDiskFailures
      /\ dropped \subseteq dropped' /\ dropped' \subseteq Payloads
      /\ ToSet(buffer') \subseteq ToSet(buffer) \cup {p}
      /\ diskFailures' = 0 =>
           /\ diskFailures = 0
           /\ ToSet(buffer) \cup {p} \subseteq ToSet(buffer') \cup dropped'
           /\ Distinct(buffer) /\ p \notin ToSet(buffer) => Distinct(buffer')
  BY <1>0, <1>1, EnqueueFacts DEF IInv
<1>3. TypeOK'
  BY <1>0, <1>1, <1>2 DEF IInv, TypeOK
<1>4. HeldWasCollected'
  BY <1>0, <1>1, <1>2 DEF IInv, HeldWasCollected, Held
<1>5. Apart'
  <2>0. 0 \notin ToSet(buffer) \cup ToSet(batch)
    BY <1>1, ToSetFacts, DeliveryAssumption DEF IInv, TypeOK, Payloads
  <2> QED BY <1>0, <1>1, <1>2, <2>0 DEF IInv, Apart
<1>6. NoSilentLoss'
  BY <1>0, <1>1, <1>2 DEF IInv, NoSilentLoss, Held
<1> QED BY <1>3, <1>4, <1>5, <1>6 DEF IInv

(* A new payload is collected. *)
LEMMA CollectIInv ==
  ASSUME IInv, Collect
  PROVE  IInv'
<1>0. /\ pc = "collect" /\ batch = << >> /\ cur = 0 /\ collected \in Nat /\ collected <= MaxPayloads
      /\ UNCHANGED <<buffer, batch, received, dropped, lost, diskFailures>>
  BY DeliveryAssumption DEF Collect, IInv, TypeOK
<1>1. CASE collected < MaxPayloads
  <2>1. cur' = collected + 1 /\ collected' = collected + 1 /\ pc' = "deliver"
    BY <1>1 DEF Collect
  <2>2. TypeOK'
    BY <1>0, <1>1, <2>1, DeliveryAssumption DEF IInv, TypeOK
  <2>3. HeldWasCollected'
    BY <1>0, <2>1 DEF IInv, HeldWasCollected, Held
  <2>4. Apart'
    <3>1. collected + 1 \notin ToSet(buffer)
      BY <1>0 DEF IInv, HeldWasCollected, Held
    <3> QED BY <1>0, <2>1, <3>1, EmptyFacts DEF IInv, Apart
  <2>5. NoSilentLoss'
    <3>1. \A q \in 1..collected' : q \in 1..collected \/ q = cur'
      BY <1>0, <2>1
    <3> QED BY <1>0, <2>1, <3>1 DEF IInv, NoSilentLoss, Held
  <2> QED BY <2>2, <2>3, <2>4, <2>5 DEF IInv
<1>2. CASE ~(collected < MaxPayloads)
  <2>1. pc' = "sleep" /\ UNCHANGED <<cur, collected>>
    BY <1>2 DEF Collect
  <2>2. TypeOK'
    BY <1>0, <2>1 DEF IInv, TypeOK
  <2> QED BY <1>0, <2>1, <2>2 DEF IInv, HeldWasCollected, Apart, NoSilentLoss, Held
<1> QED BY <1>1, <1>2

(* The current payload leaves the Agent, accepted or rejected. *)
LEMMA DeliverIInv ==
  ASSUME IInv, DeliverOk \/ DeliverFatal
  PROVE  IInv'
<1>0. /\ pc = "deliver" /\ cur' = 0 /\ pc' = "sleep"
      /\ UNCHANGED <<buffer, batch, collected, lost, diskFailures>>
      /\ received \subseteq received' /\ received' \subseteq received \cup {cur}
      /\ dropped \subseteq dropped' /\ dropped' \subseteq dropped \cup {cur}
      /\ cur \in received' \cup dropped'
  BY DEF DeliverOk, DeliverFatal, PerhapsReceived
<1>1. cur \in Payloads /\ batch = << >> /\ ToSet(buffer) \subseteq Payloads /\ 0 \notin Payloads
  BY <1>0, ToSetFacts, DeliveryAssumption DEF IInv, TypeOK, Payloads
<1>2. TypeOK'
  <2>1. (received \cup dropped \cup lost)' \subseteq Payloads
    BY <1>0, <1>1 DEF IInv, TypeOK
  <2>2. 0 \in 0..MaxPayloads
    BY DeliveryAssumption
  <2> QED BY <1>0, <1>1, <2>1, <2>2 DEF IInv, TypeOK
<1>3. HeldWasCollected' /\ Apart'
  BY <1>0, <1>1, EmptyFacts, DeliveryAssumption
     DEF IInv, HeldWasCollected, Apart, Held, TypeOK
<1>4. NoSilentLoss'
  BY <1>0 DEF IInv, NoSilentLoss, Held
<1> QED BY <1>2, <1>3, <1>4 DEF IInv

(* The current payload is buffered. *)
LEMMA DeliverFailedIInv ==
  ASSUME IInv, DeliverFailed
  PROVE  IInv'
<1>0. /\ pc = "deliver" /\ cur' = 0 /\ pc' = "sleep" /\ Enqueue(cur)
      /\ UNCHANGED <<batch, collected, lost>>
      /\ received \subseteq received' /\ received' \subseteq received \cup {cur}
  BY DEF DeliverFailed, PerhapsReceived
<1>1. cur \in Payloads /\ batch = << >> /\ ToSet(buffer) \subseteq Payloads /\ 0 \notin Payloads
  BY <1>0, ToSetFacts, DeliveryAssumption DEF IInv, TypeOK, Payloads
<1>2. /\ buffer' \in Seq(Payloads) /\ Len(buffer') <= MaxEntries
      /\ diskFailures' \in 0..MaxDiskFailures
      /\ dropped \subseteq dropped' /\ dropped' \subseteq Payloads
      /\ ToSet(buffer') \subseteq ToSet(buffer) \cup {cur}
      /\ diskFailures' = 0 =>
           /\ diskFailures = 0
           /\ ToSet(buffer) \cup {cur} \subseteq ToSet(buffer') \cup dropped'
           /\ Distinct(buffer) /\ cur \notin ToSet(buffer) => Distinct(buffer')
  BY <1>0, <1>1, EnqueueFacts DEF IInv
<1>3. TypeOK'
  <2>1. (received \cup dropped \cup lost)' \subseteq Payloads
    BY <1>0, <1>1, <1>2 DEF IInv, TypeOK
  <2>2. 0 \in 0..MaxPayloads
    BY DeliveryAssumption
  <2> QED BY <1>0, <1>1, <1>2, <2>1, <2>2 DEF IInv, TypeOK
<1>4. HeldWasCollected'
  <2>1. 0 \in 0..collected
    BY DEF IInv, TypeOK
  <2> QED BY <1>0, <1>2, <2>1 DEF IInv, HeldWasCollected, Held
<1>5. Apart'
  BY <1>0, <1>1, <1>2, EmptyFacts DEF IInv, Apart
<1>6. NoSilentLoss'
  BY <1>0, <1>2 DEF IInv, NoSilentLoss, Held
<1> QED BY <1>3, <1>4, <1>5, <1>6 DEF IInv

(* The process ends; what it held in memory is accounted for as lost. *)
LEMMA RestartIInv ==
  ASSUME IInv, Unclassified \/ Crash
  PROVE  IInv'
<1>0. /\ pc' = "sleep" /\ batch' = << >> /\ cur' = 0
      /\ lost' = lost \cup ToSet(batch) \cup ({cur} \ {0})
      /\ UNCHANGED <<buffer, collected, dropped, diskFailures>>
      /\ received \subseteq received'
  BY DEF Unclassified, Crash, Restarted, PerhapsReceived
<1>1. /\ ToSet(batch) \subseteq Payloads /\ ToSet(buffer) \subseteq Payloads
      /\ cur \in Payloads \cup {0} /\ 0 \notin Payloads
  BY ToSetFacts, DeliveryAssumption DEF IInv, TypeOK, Payloads
<1>2. received' \subseteq Payloads
  <2>1. CASE Crash
    BY <2>1 DEF Crash, IInv, TypeOK
  <2>2. CASE pc = "redeliver" /\ PerhapsReceived(Head(batch))
    BY <2>2, FirstOfBatch DEF PerhapsReceived, IInv, TypeOK
  <2>3. CASE pc = "deliver" /\ PerhapsReceived(cur)
    <3>1. cur \in Payloads
      BY <1>1, <2>3 DEF IInv, TypeOK
    <3> QED BY <2>3, <3>1 DEF PerhapsReceived, IInv, TypeOK
  <2> QED BY <2>1, <2>2, <2>3 DEF Unclassified
<1>3. << >> \in Seq(Payloads)
  OBVIOUS
<1>4. TypeOK'
  <2>1. (received \cup dropped \cup lost)' \subseteq Payloads
    BY <1>0, <1>1, <1>2, <1>3, EmptyFacts DEF IInv, TypeOK
  <2>2. 0 \in 0..MaxPayloads
    BY DeliveryAssumption
  <2>3. Len(<< >>) <= DrainBatch
    BY EmptyFacts, DeliveryAssumption
  <2> QED BY <1>0, <1>3, <2>1, <2>2, <2>3 DEF IInv, TypeOK
<1>5. HeldWasCollected' /\ Apart'
  BY <1>0, <1>1, EmptyFacts, DeliveryAssumption
     DEF IInv, HeldWasCollected, Apart, Held, TypeOK
<1>6. NoSilentLoss'
  <2>1. \A q \in 1..collected : q # 0
    BY DEF IInv, TypeOK
  <2> QED BY <1>0, <2>1 DEF IInv, NoSilentLoss, Held
<1> QED BY <1>4, <1>5, <1>6 DEF IInv

(* Every step keeps the inductive invariant. *)
LEMMA NextIInv == IInv /\ [Next]_vars => IInv'
<1> SUFFICES ASSUME IInv, [Next]_vars PROVE IInv'
  OBVIOUS
<1>1. CASE Drain
  <2>0. /\ pc = "sleep" /\ pc' = AfterBatch(batch') /\ cur = 0 /\ batch = << >>
        /\ UNCHANGED <<cur, collected, received, dropped, lost>>
        /\ 0 \notin ToSet(buffer)
    BY <1>1, ToSetFacts, DeliveryAssumption DEF Drain, IInv, TypeOK, Payloads
  <2>1. TypeOK'
    BY <1>1, <2>0, DrainFacts DEF IInv, TypeOK, AfterBatch
  <2>2. HeldWasCollected'
    BY <1>1, <2>0, DrainFacts DEF IInv, HeldWasCollected, Held
  <2>3. Apart'
    BY <1>1, <2>0, DrainFacts DEF IInv, Apart
  <2>4. NoSilentLoss'
    BY <1>1, <2>0, DrainFacts, EmptyFacts DEF IInv, NoSilentLoss, Held
  <2> QED BY <2>1, <2>2, <2>3, <2>4 DEF IInv
<1>2. CASE RedeliverFailed
  <2>0. /\ pc = "redeliver" /\ pc' = "requeue"
        /\ UNCHANGED <<buffer, batch, cur, collected, dropped, lost, diskFailures>>
        /\ received \subseteq received' /\ received' \subseteq received \cup {Head(batch)}
    BY <1>2 DEF RedeliverFailed, PerhapsReceived
  <2>1. TypeOK'
    BY <2>0, FirstOfBatch DEF IInv, TypeOK
  <2> QED BY <2>0, <2>1 DEF IInv, HeldWasCollected, Apart, NoSilentLoss, Held
<1>3. CASE UNCHANGED vars
  BY <1>3 DEF vars, IInv, TypeOK, HeldWasCollected, Apart, NoSilentLoss, Held
<1> QED
  BY <1>1, <1>2, <1>3, RedeliverIInv, RequeueIInv, CollectIInv, DeliverIInv,
     DeliverFailedIInv, RestartIInv DEF Next

-----------------------------------------------------------------------------
(* The inductive invariant holds in every reachable state. *)
THEOREM Inductive == Spec => []IInv
<1> QED BY InitIInv, NextIInv, PTL DEF Spec

(* The cycle's state keeps its type and the buffer file never holds more    *)
(* than buffer_max_entries, whatever fails (FileBuffer.enqueue).            *)
THEOREM BufferIsBounded == Spec => []TypeOK
<1>1. IInv => TypeOK
  BY DEF IInv
<1> QED BY <1>1, Inductive, PTL

(* While the disk works, every collected payload has reached the Collector, *)
(* is held, or is gone for a reason that is logged or known.                *)
THEOREM NothingIsLostSilently == Spec => []NoSilentLoss
<1>1. IInv => NoSilentLoss
  BY DEF IInv
<1> QED BY <1>1, Inductive, PTL

(* Joining sequences without common elements adds no repetition. *)
LEMMA ConcatDistinct ==
  ASSUME NEW S, NEW s \in Seq(S), NEW t \in Seq(S), Distinct(s), Distinct(t),
         ToSet(s) \cap ToSet(t) = {}
  PROVE  s \o t \in Seq(S) /\ Distinct(s \o t) /\ ToSet(s \o t) = ToSet(s) \cup ToSet(t)
<1> DEFINE c == s \o t
<1>1. /\ c \in Seq(S) /\ Len(s) \in Nat /\ Len(t) \in Nat /\ Len(c) = Len(s) + Len(t)
      /\ \A i \in 1..Len(c) : c[i] = IF i <= Len(s) THEN s[i] ELSE t[i - Len(s)]
  OBVIOUS
<1> HIDE DEF c
<1>2. ASSUME NEW i \in 1..Len(c)
      PROVE  \/ i \in 1..Len(s) /\ c[i] = s[i] /\ c[i] \in ToSet(s)
             \/ i - Len(s) \in 1..Len(t) /\ c[i] = t[i - Len(s)] /\ c[i] \in ToSet(t)
  <2>1. CASE i <= Len(s)
    <3>1. i \in 1..Len(s) /\ c[i] = s[i]
      BY <1>1, <2>1
    <3> QED BY <3>1, ToSetFacts
  <2>2. CASE i > Len(s)
    <3>1. i - Len(s) \in 1..Len(t) /\ c[i] = t[i - Len(s)]
      BY <1>1, <2>2
    <3> QED BY <3>1, ToSetFacts
  <2> QED BY <1>1, <2>1, <2>2
<1>3. ASSUME NEW i \in 1..Len(c), NEW j \in 1..Len(c), c[i] = c[j] PROVE i = j
  <2>1. \/ i \in 1..Len(s) /\ j \in 1..Len(s) /\ s[i] = s[j]
        \/ /\ i - Len(s) \in 1..Len(t) /\ j - Len(s) \in 1..Len(t)
           /\ t[i - Len(s)] = t[j - Len(s)]
    BY <1>2, <1>3
  <2>2. i = j \/ i - Len(s) = j - Len(s)
    BY <2>1 DEF Distinct
  <2> QED BY <1>1, <2>2
<1>4. ToSet(c) \subseteq ToSet(s) \cup ToSet(t)
  BY <1>1, <1>2, ToSetFacts
<1>5. ASSUME NEW x \in ToSet(s) PROVE x \in ToSet(c)
  <2>1. PICK i \in 1..Len(s) : s[i] = x
    BY ToSetFacts
  <2>2. i \in 1..Len(c) /\ c[i] = x
    BY <1>1, <2>1
  <2> QED BY <1>1, <2>2, ToSetFacts
<1>6. ASSUME NEW x \in ToSet(t) PROVE x \in ToSet(c)
  <2>1. PICK i \in 1..Len(t) : t[i] = x
    BY ToSetFacts
  <2>2. Len(s) + i \in 1..Len(c) /\ ~(Len(s) + i <= Len(s)) /\ (Len(s) + i) - Len(s) = i
    BY <1>1
  <2>3. c[Len(s) + i] = x
    BY <1>1, <2>1, <2>2
  <2> QED BY <1>1, <2>2, <2>3, ToSetFacts
<1> QED BY <1>1, <1>3, <1>4, <1>5, <1>6 DEF c, Distinct

(* While the disk works, a payload is in one place, once: a batch that is   *)
(* put back does not multiply (_drain_buffer).                              *)
THEOREM HeldInOnePlace == Spec => []HeldOnce
<1>1. IInv => HeldOnce
  <2> SUFFICES ASSUME IInv, diskFailures = 0
               PROVE  Distinct(buffer \o batch \o (IF cur = 0 THEN << >> ELSE <<cur>>))
    BY DEF HeldOnce, Distinct
  <2> DEFINE last == IF cur = 0 THEN << >> ELSE <<cur>>
             both == buffer \o batch
  <2>1. /\ buffer \in Seq(Payloads) /\ batch \in Seq(Payloads)
        /\ Distinct(buffer) /\ Distinct(batch) /\ ToSet(buffer) \cap ToSet(batch) = {}
        /\ cur \notin ToSet(buffer) \cup ToSet(batch)
    BY DEF IInv, TypeOK, Apart
  <2>2. both \in Seq(Payloads) /\ Distinct(both) /\ ToSet(both) = ToSet(buffer) \cup ToSet(batch)
    BY <2>1, ConcatDistinct
  <2>3. last \in Seq(Payloads) /\ Distinct(last) /\ ToSet(last) \subseteq {cur}
    <3>1. CASE cur = 0
      BY <3>1, EmptyFacts
    <3>2. CASE cur # 0
      <4>1. cur \in Payloads
        BY <3>2, DeliveryAssumption DEF IInv, TypeOK, Payloads
      <4>2. <<cur>> \in Seq(Payloads) /\ Len(<<cur>>) = 1 /\ <<cur>>[1] = cur
        BY <4>1
      <4>3. Distinct(<<cur>>) /\ ToSet(<<cur>>) \subseteq {cur}
        <5> DEFINE one == <<cur>>
        <5>1. one \in Seq(Payloads) /\ Len(one) = 1 /\ one[1] = cur
          BY <4>2
        <5> HIDE DEF one
        <5>2. \A i \in 1..Len(one) : i = 1
          BY <5>1
        <5>3. Distinct(one) /\ ToSet(one) \subseteq {cur}
          BY <5>1, <5>2, ToSetFacts DEF Distinct
        <5> QED BY <5>3 DEF one
      <4> QED BY <3>2, <4>2, <4>3
    <3> QED BY <3>1, <3>2
  <2> HIDE DEF last, both
  <2>4. Distinct(both \o last)
    BY <2>1, <2>2, <2>3, ConcatDistinct
  <2> QED BY <2>4 DEF both, last
<1> QED BY <1>1, Inductive, PTL

(* While the disk works, a payload leaves the buffer file only into the     *)
(* drained batch or by an eviction from a full buffer, whether or not the   *)
(* process is killed.                                                       *)
THEOREM FileOutlivesProcess == Spec => FileSurvives
<1> DEFINE Kept == \A p \in ToSet(buffer) :
                     \/ p \in ToSet(buffer') \cup ToSet(batch')
                     \/ p \in dropped' /\ Len(buffer') = MaxEntries
<1>1. IInv /\ [Next]_vars => [diskFailures' = 0 => Kept]_vars
  <2> SUFFICES ASSUME IInv, Next, diskFailures' = 0 PROVE Kept
    OBVIOUS
  <2>1. CASE Drain
    BY <2>1, DrainFacts DEF IInv
  <2>2. CASE Requeue
    <3>1. Enqueue(Head(batch)) /\ Head(batch) \in Payloads
      BY <2>2, FirstOfBatch DEF Requeue
    <3> QED BY <3>1, EnqueueFacts DEF IInv
  <2>3. CASE DeliverFailed
    <3>1. Enqueue(cur) /\ cur \in Payloads
      BY <2>3, DeliveryAssumption DEF DeliverFailed, IInv, TypeOK, Payloads
    <3> QED BY <3>1, EnqueueFacts DEF IInv
  <2>4. CASE buffer' = buffer
    BY <2>4
  <2> QED BY <2>1, <2>2, <2>3, <2>4 DEF Next, RedeliverOk, RedeliverFatal, RedeliverFailed,
          Collect, DeliverOk, DeliverFatal, Unclassified, Crash
<1> QED BY <1>1, Inductive, PTL DEF Spec, FileSurvives

=============================================================================
