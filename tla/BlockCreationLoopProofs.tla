----------------------- MODULE BlockCreationLoopProofs -----------------------
(***************************************************************************)
(* Proofs about BlockCreationLoop, for any number of workers and           *)
(* transactions, any capacity of the channel, windows of any length above  *)
(* one and any leader schedule that starts with the window after           *)
(* OtherSlot: no assert is reached, the loop rests clean, a completed      *)
(* block is the bank it was made from, and a handover gives back what the  *)
(* abandoned bank had accepted.                                            *)
(***************************************************************************)
EXTENDS BlockCreationLoop, FiniteSetTheorems, SequenceTheorems, WellFoundedInduction, TLAPS

-----------------------------------------------------------------------------
(* The inductive invariant. *)

References == [slot : Slots, id : Nat]
Items ==
  [kind : {"Tx"}, tx : Nat] \cup [kind : {"UpdateParent"}, parent : [slot : Int, id : Int]]
  \cup {Footer}
LoopRecords ==
  [pc : {"Wait", "Start", "Insert", "Restart", "Record", "Drain", "CheckActive", "Recheck",
         "Quiesce", "Freeze"},
   slot : Slots, end : Slots, parent : [slot : Int, id : Int], optimistic : BOOLEAN,
   acc : Seq(Nat), shut : BOOLEAN,
   then : {"None", "AwaitParent", "Complete", "Handover", "MovedOn", "Failed"}]
CommittedItems == [tx : Nat, index : Nat]
BankRecords ==
  [slot : Slots, parent : [slot : Int, id : Int], ticked : BOOLEAN, frozen : BOOLEAN,
   committed : SUBSET CommittedItems]
QueueRecords == [bank : Nat, tx : Nat]
WorkerRecords ==
  [pc : {"Idle", "Ready", "Retry", "Loaded", "Added", "Reserved", "Commit"},
   bank : Nat, tx : Nat, seen : Int, index : Nat]
Offers == [start : {WindowSize}, parent : [slot : {OtherSlot}, id : Nat]]

ChannelTypes ==
  /\ word \in Int /\ queue \in Seq(QueueRecords) /\ track \in BOOLEAN /\ indexes \in Nat
  /\ worker \in [Workers -> WorkerRecords] /\ buffer \subseteq Nat
  /\ banks \in Seq(BankRecords) /\ Len(banks) <= MaxBanks /\ working \in Nat
LoopTypes == loop \in LoopRecords /\ stream \in [Slots -> Seq(Items)] /\ forks \in [Slots -> Int]

\* The schedule, and the windows that have been announced.
ScheduleOk ==
  /\ own \subseteq WindowStarts /\ WindowSize \in own
  /\ \A s \in own : s + WindowSize - 1 <= MaxSlot
  /\ others \subseteq [slot : 0 .. OtherSlot, id : Nat]
AnnouncedOk ==
  /\ ready \in [WindowStarts -> References \cup {NoBlock}]
  /\ parent_ready \in Seq(own) /\ stash \in own \cup {None}
  /\ \A i \in DOMAIN parent_ready : ready[parent_ready[i]] # NoBlock
  /\ stash # None => ready[stash] # NoBlock
  /\ optimistic \in Seq(Offers)

\* Where the loop may be with which intention, and whether a bank is worked on.
Draining == {"Drain", "CheckActive", "Recheck"}
Starting == {"Start", "Insert", "Restart"}
PcsOk ==
  /\ loop.pc = "Wait" => loop = IdleLoop
  /\ loop.pc = "Record" => loop.then = "None"
  /\ loop.pc = "Freeze" => loop.then = "Complete"
  /\ loop.pc \in Starting => loop.then \in {"None", "Handover"}
  /\ loop.pc \in Draining \cup {"Quiesce"} => loop.then # "None"
  /\ loop.pc = "Quiesce" => loop.then # "AwaitParent"
  /\ loop.then \in {"Complete", "Handover"} => ~loop.optimistic
  /\ loop.then = "AwaitParent" => loop.optimistic
WorkingOk ==
  /\ working \in {None, Len(banks)}
  /\ loop.pc \in {"Wait", "Start", "Insert"} => working = None
  /\ loop.pc \in {"Restart", "Record", "Quiesce", "Freeze"} => working # None
  /\ loop.pc \in Draining /\ loop.then # "Failed" => working # None
  /\ loop.pc = "Insert" => Len(banks) < MaxBanks

\* The window that is worked on, and the parent of its blocks.
WindowOk ==
  loop.pc # "Wait" =>
    /\ \E s \in own : s <= loop.slot /\ loop.slot <= loop.end /\ loop.end = s + WindowSize - 1
    /\ loop.parent.slot \in Slots
    /\ loop.slot \in own => loop.parent.id # AnyId
    /\ loop.optimistic \/ loop.then = "Handover" => loop.slot \in own
    /\ loop.slot \in own /\ ~loop.optimistic =>
         ready[loop.slot] # NoBlock /\ loop.parent = ready[loop.slot]

\* The channel: open only while recording, and never promised beyond its capacity.
Open == loop.pc = "Record" /\ ~loop.shut
ReservedIn(wk) == {w \in Workers : wk[w].pc = "Reserved"}
WordOk ==
  \E a \in 0 .. Capacity :
    /\ word = Encoded(IF Open THEN working ELSE Disabled, a)
    /\ a + Len(queue) + Cardinality(ReservedIn(worker)) <= Capacity
Emptied == loop.pc \in Starting \cup {"Wait", "Quiesce", "Freeze"} \/ (loop.pc = "Record" /\ loop.shut)
EmptyOk ==
  /\ Emptied => queue = <<>>
  /\ Emptied \/ loop.pc = "Recheck" => \A w \in Workers : worker[w].pc # "Reserved"
  /\ \A i \in DOMAIN queue : queue[i].bank = working /\ working # None

\* A worker and its bank.
WorkersOk ==
  \A w \in Workers :
    /\ worker[w].pc # "Idle" => worker[w].bank \in 1 .. Len(banks)
    /\ HoldsFreezeLock(w) => working # None /\ worker[w].bank = working
    /\ HoldsFreezeLock(w) => loop.pc \notin {"Freeze", "Restart"}
    /\ worker[w].pc \in {"Loaded", "Added"} =>
         \E a \in 1 .. Capacity : worker[w].seen = Encoded(worker[w].bank, a)

\* BankForks holds no unfinished leader bank but the working one.
ForksOk ==
  \A s \in Slots : s > OtherSlot /\ forks[s] # NoBank =>
    /\ forks[s] \in DOMAIN banks
    /\ banks[forks[s]].frozen \/ (s = loop.slot /\ forks[s] = working)

\* A transaction is in one place.
PlacesOk ==
  \A w \in Workers : worker[w].pc # "Idle" =>
    /\ worker[w].tx \notin buffer
    /\ \A v \in Workers : v # w /\ worker[v].pc # "Idle" => worker[v].tx # worker[w].tx
UnsentIn(wk, bf) ==
  bf \cup {wk[w].tx : w \in {v \in Workers : wk[v].pc \notin {"Idle", "Commit"}}}

\* Where the part of the last bank begins in what was broadcast, as in LastUpdate.
UpdateOf(q) ==
  LET u == {i \in DOMAIN q : q[i].kind = "UpdateParent"}
  IN  IF u = {} THEN 0 ELSE CHOOSE i \in u : \A j \in u : j <= i
BodyFrom(q, u) ==
  /\ u \in 0 .. Len(q) /\ (u > 0 => q[u].kind = "UpdateParent")
  /\ \A i \in u + 1 .. Len(q) : q[i].kind = "Tx"

\* What was sent for the working bank: broadcast, then still in the channel.
SentFrom(q, u, ch) ==
  [i \in 1 .. (Len(q) - u) + Len(ch) |->
     IF i <= Len(q) - u THEN q[u + i].tx ELSE ch[i - (Len(q) - u)].tx]
\* What was sent for bank k, as its workers know it: committed or about to be.
AcceptedIn(B, k, wk) ==
  B[k].committed
  \cup {[tx |-> wk[w].tx, index |-> wk[w].index] : w \in {v \in Workers : wk[v].pc = "Commit"}}
Agree(sent, accepted, tr) ==
  /\ \A c \in accepted : \E i \in DOMAIN sent : sent[i] = c.tx /\ (tr => c.index = i - 1)
  /\ \A i \in DOMAIN sent : \E c \in accepted : c.tx = sent[i]
  /\ \A i, j \in DOMAIN sent : sent[i] = sent[j] => i = j
  /\ \A c, d \in accepted : c.tx = d.tx => c = d

Marked == loop.pc = "Quiesce" /\ loop.then = "Handover"
Recording ==
  /\ loop.pc \in Draining \cup {"Record", "Quiesce", "Freeze"}
  /\ loop.then \notin {"MovedOn", "Failed"} /\ ~Marked
Stream == stream[loop.slot]
Sent == SentFrom(Stream, UpdateOf(Stream), queue)
Accepted == AcceptedIn(banks, working, worker)

\* The working bank and what is broadcast of it.
BankOk ==
  loop.pc \in {"Restart", "Record", "Quiesce", "Freeze"} \cup Draining /\ working # None =>
    /\ banks[working].slot = loop.slot
    /\ ~loop.then \in {"Handover", "MovedOn", "Failed"} => banks[working].parent = loop.parent
    /\ loop.pc = "Restart" => banks[working].committed = {} /\ banks[working].parent = loop.parent
StreamOk ==
  loop.pc # "Wait" =>
    /\ \A i \in DOMAIN Stream : Stream[i].kind # "Footer"
    /\ \A s \in loop.slot + 1 .. loop.end : stream[s] = <<>>
BodyOk ==
  loop.pc \in Starting \/ Marked \/ Recording =>
    /\ BodyFrom(Stream, UpdateOf(Stream))
    /\ loop.pc \in Starting \/ Marked => UpdateOf(Stream) = Len(Stream)
    /\ UpdateOf(Stream) > 0 /\ (Recording => loop.then # "Handover") =>
         Stream[UpdateOf(Stream)].parent = loop.parent
    /\ loop.pc \in Starting /\ loop.then = "None" => Stream = <<>> /\ loop.acc = <<>>
RecordingOk ==
  Recording =>
    /\ Agree(Sent, Accepted, track)
    /\ track => indexes = (Len(Stream) - UpdateOf(Stream)) + Len(queue)
    /\ \A i \in DOMAIN Sent : Sent[i] \notin UnsentIn(worker, buffer)
    /\ loop.optimistic \/ loop.then = "Handover" =>
         ToSet(loop.acc) = {Stream[i].tx : i \in UpdateOf(Stream) + 1 .. Len(Stream)}

\* During a handover, what goes back to the banking stage.
TxsOf(accepted) == {c.tx : c \in accepted}
HandoverOk ==
  loop.then = "Handover" /\ (Marked \/ loop.pc \in Starting) =>
    /\ ToSet(loop.acc) \cap UnsentIn(worker, buffer) = {}
    /\ Marked => ToSet(loop.acc) = TxsOf(Accepted)
    /\ loop.pc \in {"Start", "Insert"} =>
         Len(banks) >= 1 /\ ToSet(loop.acc) = TxsOf(banks[Len(banks)].committed)
    /\ loop.pc = "Restart" =>
         Len(banks) >= 2 /\ ToSet(loop.acc) = TxsOf(banks[Len(banks) - 1].committed)

\* The blocks that are complete.
IsLast(B, s, i) ==
  i \in DOMAIN B /\ B[i].slot = s /\ \A j \in DOMAIN B : B[j].slot = s => j <= i
Matches(q, bank, tr) ==
  LET u == UpdateOf(q)
      body == SubSeq(q, u + 1, Len(q) - 1)
  IN  /\ q[Len(q)] = Footer
      /\ \A i \in DOMAIN body : body[i].kind = "Tx"
      /\ Len(body) = Cardinality(bank.committed)
      /\ \A c \in bank.committed : \E i \in DOMAIN body :
            body[i].tx = c.tx /\ (tr => c.index = i - 1)
      /\ u > 0 => q[u].parent = bank.parent
DoneOk ==
  \A s \in Slots : Footer \in ToSet(stream[s]) =>
    \E i \in DOMAIN banks :
      /\ IsLast(banks, s, i) /\ Matches(stream[s], banks[i], track)
      /\ s \in own => ready[s] # NoBlock /\ banks[i].parent = ready[s]

TypesOk == ChannelTypes /\ LoopTypes /\ ScheduleOk /\ AnnouncedOk
ControlOk == PcsOk /\ WorkingOk /\ WindowOk
ChannelOk == WordOk /\ EmptyOk /\ WorkersOk
BlockOk == BankOk /\ StreamOk /\ BodyOk /\ RecordingOk /\ HandoverOk /\ DoneOk

(* The inductive invariant of the loop, the channel and the workers. *)
CreationInv ==
  ~panicked /\ TypesOk /\ ControlOk /\ ChannelOk /\ ForksOk /\ PlacesOk /\ BlockOk

-----------------------------------------------------------------------------
(* Numbers, the packed word and sequences. *)

\* Division with remainder.
LEMMA DivModFacts ==
  ASSUME NEW a \in Nat, NEW W \in Nat \ {0}
  PROVE  /\ a \div W \in Nat /\ (a % W) \in 0 .. W - 1
         /\ a = W * (a \div W) + (a % W)
  OBVIOUS

\* Quotient and remainder are the only numbers that fit.
LEMMA DivModUnique ==
  ASSUME NEW W \in Nat \ {0}, NEW k \in Nat, NEW r \in 0 .. W - 1
  PROVE  (k * W + r) \div W = k /\ (k * W + r) % W = r
<1> DEFINE a == k * W + r
<1>1. a \in Nat
  OBVIOUS
<1>2. a = W * (a \div W) + (a % W) /\ a \div W \in Nat /\ (a % W) \in 0 .. W - 1
  BY <1>1, DivModFacts
<1> DEFINE d == a \div W  m == a % W
<1> HIDE DEF d, m
<1>3. d \in Nat /\ m \in 0 .. W - 1 /\ k * W + r = W * d + m
  BY <1>2 DEF d, m
<1>4. (k - d) * W = m - r
  BY <1>3
<1>5. CASE k - d >= 1
  <2>1. (k - d) * W >= W
    BY <1>3, <1>5
  <2> QED
    BY <2>1, <1>4, <1>3
<1>6. CASE d - k >= 1
  <2>1. (d - k) * W >= W
    BY <1>3, <1>6
  <2>2. (d - k) * W = r - m
    BY <1>3
  <2> QED
    BY <2>1, <2>2, <1>3
<1>7. CASE d = k
  BY <1>7, <1>3, <1>4 DEF d, m
<1> QED
  BY <1>5, <1>6, <1>7, <1>3

\* The window of a first slot: where it ends, and that no other window starts in it.
LEMMA WindowFacts ==
  ASSUME NEW s \in WindowStarts
  PROVE  /\ s \in Nat /\ LastOfWindow(s) = s + WindowSize - 1
         /\ \A t \in WindowStarts : s <= t /\ t <= s + WindowSize - 1 => t = s
<1> USE BoundsAssumption
<1>0. ASSUME NEW t \in WindowStarts
      PROVE  t \in Nat /\ t = WindowSize * (t \div WindowSize) /\ t \div WindowSize \in Nat
  <2>1. t \in Nat /\ t % WindowSize = 0 /\ WindowSize \in Nat \ {0}
    BY DEF WindowStarts
  <2>2. t \div WindowSize \in Nat /\ t = WindowSize * (t \div WindowSize) + (t % WindowSize)
    BY <2>1, DivModFacts
  <2>3. WindowSize * (t \div WindowSize) \in Nat
    BY <2>1, <2>2
  <2> QED
    BY <2>1, <2>2, <2>3
<1>1. s \in Nat /\ s = WindowSize * (s \div WindowSize) /\ s \div WindowSize \in Nat
  BY <1>0
<1>2. LastOfWindow(s) = s + WindowSize - 1
  BY <1>1 DEF LastOfWindow
<1>3. ASSUME NEW t \in WindowStarts, s <= t, t <= s + WindowSize - 1 PROVE t = s
  <2>1. t \in Nat /\ t = WindowSize * (t \div WindowSize) /\ t \div WindowSize \in Nat
    BY <1>0
  <2> DEFINE k == s \div WindowSize  n == t \div WindowSize
  <2> HIDE DEF k, n
  <2>2. k \in Nat /\ n \in Nat /\ s = WindowSize * k /\ t = WindowSize * n
    BY <1>1, <2>1 DEF k, n
  <2>3. t - s = WindowSize * (n - k)
    BY <2>2
  <2>4. n - k >= 1 => WindowSize * (n - k) >= WindowSize
    BY <2>2
  <2>5. ~(n - k >= 1)
    BY <2>3, <2>4, <1>3, <2>2
  <2>6. k - n >= 1 => WindowSize * (k - n) >= WindowSize
    BY <2>2
  <2>7. s - t = WindowSize * (k - n)
    BY <2>2
  <2>8. ~(k - n >= 1)
    BY <2>7, <2>6, <1>3, <2>2
  <2> QED
    BY <2>5, <2>8, <2>2
<1> QED
  BY <1>1, <1>2, <1>3

\* The packed word: what was packed comes back, and a returned insertion does not carry over.
LEMMA WordFacts ==
  ASSUME NEW b \in Nat, NEW a \in 0 .. Capacity
  PROVE  /\ Encoded(b, a) \in Nat /\ BankIdOf(Encoded(b, a)) = b /\ AllowedOf(Encoded(b, a)) = a
         /\ b <= Disabled /\ a < Capacity => FetchAdd(Encoded(b, a), 1) = Encoded(b, a + 1)
<1> USE ChannelAssumption
<1>1. Radix \in Nat \ {0} /\ a \in 0 .. Radix - 1
  BY DEF Radix
<1> DEFINE R == Radix
<1> HIDE DEF R
<1>r. R \in Nat \ {0} /\ a \in 0 .. R - 1
  BY <1>1 DEF R
<1>2. (b * R + a) \div R = b /\ (b * R + a) % R = a /\ b * R + a \in Nat
  BY <1>r, DivModUnique
<1>3. ASSUME b <= Disabled, a < Capacity PROVE FetchAdd(Encoded(b, a), 1) = Encoded(b, a + 1)
  <2>1. b * R + a + 1 \in Nat /\ b * R + (a + 1) = b * R + a + 1 /\ (Disabled + 1) * R \in Nat \ {0}
    BY <1>r
  <2>2. b * R <= Disabled * R /\ (Disabled + 1) * R = Disabled * R + R /\ b * R \in Nat /\ Disabled * R \in Nat
    BY <1>r, <1>3
  <2>3. a + 1 < R
    BY <1>3 DEF R, Radix
  <2>4. b * R + a + 1 < (Disabled + 1) * R
    BY <2>1, <2>2, <2>3, <1>r
  <2>n. ASSUME NEW x \in Nat, NEW M \in Nat \ {0}, x < M PROVE x % M = x
    <3>1. (0 * M + x) % M = x
      BY <2>n, DivModUnique
    <3> QED
      BY <3>1
  <2>5. (b * R + a + 1) % ((Disabled + 1) * R) = b * R + a + 1
    BY <2>1, <2>4, <2>n
  <2> QED
    BY <2>5, <2>1 DEF FetchAdd, Encoded, R
<1> QED
  BY <1>2, <1>3 DEF Encoded, BankIdOf, AllowedOf, R

\* The elements of a sequence that grows.
LEMMA ToSetAppend ==
  ASSUME NEW S, NEW q \in Seq(S), NEW t \in S
  PROVE  ToSet(Append(q, t)) = ToSet(q) \cup {t}
<1> DEFINE p == Append(q, t)
<1>1. p \in Seq(S) /\ DOMAIN p = 1 .. Len(q) + 1 /\ DOMAIN q = 1 .. Len(q) /\ Len(q) \in Nat
  OBVIOUS
<1>2. \A i \in 1 .. Len(q) : p[i] = q[i]
  OBVIOUS
<1>3. p[Len(q) + 1] = t
  OBVIOUS
<1> HIDE DEF p
<1>4. ASSUME NEW x \in ToSet(p) PROVE x \in ToSet(q) \cup {t}
  <2>1. PICK i \in 1 .. Len(q) + 1 : x = p[i]
    BY <1>1 DEF ToSet
  <2>2. i \in 1 .. Len(q) \/ i = Len(q) + 1
    BY <1>1
  <2> QED
    BY <2>1, <2>2, <1>1, <1>2, <1>3 DEF ToSet
<1>5. ASSUME NEW x \in ToSet(q) \cup {t} PROVE x \in ToSet(p)
  <2>1. Len(q) + 1 \in DOMAIN p /\ \A i \in 1 .. Len(q) : i \in DOMAIN p
    BY <1>1
  <2> QED
    BY <2>1, <1>1, <1>2, <1>3 DEF ToSet
<1> QED
  BY <1>4, <1>5 DEF p

-----------------------------------------------------------------------------
(* What is broadcast and what was sent. *)

\* What is broadcast: three kinds of items, told apart by their kind.
LEMMA ItemFacts ==
  /\ \A t \in Nat : Tx(t) \in Items /\ Tx(t).kind = "Tx" /\ Tx(t).tx = t
  /\ \A b \in [slot : Int, id : Int] :
       UpdateParent(b) \in Items /\ UpdateParent(b).kind = "UpdateParent" /\ UpdateParent(b).parent = b
  /\ Footer \in Items /\ Footer.kind = "Footer"
  /\ \A e \in Items : e.kind = "Footer" => e = Footer
  BY DEF Items, Tx, UpdateParent, Footer

\* The last UpdateParent marker is where the items after it say it is.
LEMMA UpdateIs ==
  ASSUME NEW S, NEW q \in Seq(S), NEW u \in 0 .. Len(q), u > 0 => q[u].kind = "UpdateParent",
         \A i \in u + 1 .. Len(q) : q[i].kind # "UpdateParent"
  PROVE  UpdateOf(q) = u
<1> DEFINE U == {i \in DOMAIN q : q[i].kind = "UpdateParent"}
<1>1. DOMAIN q = 1 .. Len(q) /\ Len(q) \in Nat
  OBVIOUS
<1>2. CASE u = 0
  <2>1. U = {}
    BY <1>1, <1>2
  <2> QED
    BY <1>2, <2>1 DEF UpdateOf
<1>3. CASE u > 0
  <2>1. u \in U /\ \A j \in U : j <= u /\ j \in Nat
    BY <1>1, <1>3
  <2>2. \A i \in U : (\A j \in U : j <= i) => i = u
    BY <2>1
  <2>3. (CHOOSE i \in U : \A j \in U : j <= i) = u
    BY <2>1, <2>2
  <2> QED
    BY <2>1, <2>3 DEF UpdateOf
<1> QED
  BY <1>2, <1>3

\* BodyFrom names the last marker.
LEMMA BodyIs ==
  ASSUME NEW q \in Seq(Items), NEW u, BodyFrom(q, u)
  PROVE  UpdateOf(q) = u
<1>1. u \in 0 .. Len(q) /\ (u > 0 => q[u].kind = "UpdateParent")
  BY DEF BodyFrom
<1>2. \A i \in u + 1 .. Len(q) : q[i].kind # "UpdateParent"
  BY DEF BodyFrom
<1> QED
  BY <1>1, <1>2, UpdateIs

\* A block that has not been started.
LEMMA BodyEmpty == BodyFrom(<<>>, 0) /\ UpdateOf(<<>>) = 0
<1>1. BodyFrom(<<>>, 0)
  BY DEF BodyFrom
<1>2. <<>> \in Seq(Items)
  OBVIOUS
<1> QED
  BY <1>1, <1>2, BodyIs

\* A transaction that is broadcast belongs to the same bank.
LEMMA BodyTx ==
  ASSUME NEW q \in Seq(Items), NEW u, BodyFrom(q, u), NEW t \in Nat
  PROVE  /\ BodyFrom(Append(q, Tx(t)), u) /\ UpdateOf(Append(q, Tx(t))) = u
         /\ Append(q, Tx(t)) \in Seq(Items)
<1> DEFINE e == Tx(t)
<1>1. e \in Items /\ e.kind = "Tx"
  BY ItemFacts
<1> HIDE DEF e
<1>2. Append(q, e) \in Seq(Items)
  BY <1>1
<1>3. BodyFrom(Append(q, e), u)
  BY <1>1, <1>2 DEF BodyFrom
<1> QED
  BY <1>2, <1>3, BodyIs DEF e

\* An UpdateParent marker starts a new bank.
LEMMA BodyMark ==
  ASSUME NEW q \in Seq(Items), NEW b \in [slot : Int, id : Int]
  PROVE  LET p == Append(q, UpdateParent(b)) IN
           /\ BodyFrom(p, Len(q) + 1) /\ UpdateOf(p) = Len(q) + 1 /\ Len(p) = Len(q) + 1
           /\ p[Len(q) + 1].parent = b /\ p \in Seq(Items)
<1> DEFINE e == UpdateParent(b)
<1>1. e \in Items /\ e.kind = "UpdateParent" /\ e.parent = b
  BY ItemFacts
<1> HIDE DEF e
<1>2. Append(q, e) \in Seq(Items) /\ Len(Append(q, e)) = Len(q) + 1 /\ Append(q, e)[Len(q) + 1] = e
  BY <1>1
<1>3. BodyFrom(Append(q, e), Len(q) + 1)
  BY <1>1, <1>2 DEF BodyFrom
<1> QED
  BY <1>1, <1>2, <1>3, BodyIs DEF e

\* What was sent is the same when a record moves from the channel to the broadcast.
LEMMA SentMove ==
  ASSUME NEW q \in Seq(Items), NEW u \in 0 .. Len(q), NEW ch \in Seq(QueueRecords), ch # <<>>
  PROVE  SentFrom(Append(q, Tx(Head(ch).tx)), u, Tail(ch)) = SentFrom(q, u, ch)
<1> DEFINE e == Tx(Head(ch).tx)
           p == Append(q, e)
<1>1. Head(ch) \in QueueRecords /\ Tail(ch) \in Seq(QueueRecords) /\ Len(Tail(ch)) = Len(ch) - 1
      /\ Len(ch) \in Nat \ {0} /\ Head(ch) = ch[1] /\ \A i \in 1 .. Len(ch) - 1 : Tail(ch)[i] = ch[i + 1]
  OBVIOUS
<1>2. e \in Items /\ e.tx = ch[1].tx
  BY <1>1, ItemFacts DEF QueueRecords
<1> HIDE DEF e
<1>3. Len(p) = Len(q) + 1 /\ p[Len(q) + 1] = e /\ \A i \in 1 .. Len(q) : p[i] = q[i]
  BY <1>2
<1> HIDE DEF p
<1> DEFINE n == (Len(q) - u) + Len(ch)
<1>4. (Len(p) - u) + Len(Tail(ch)) = n /\ Len(p) - u = (Len(q) - u) + 1 /\ n \in Nat /\ Len(q) - u \in Nat
  BY <1>1, <1>3
<1>5. ASSUME NEW i \in 1 .. n
      PROVE  (IF i <= Len(p) - u THEN p[u + i].tx ELSE Tail(ch)[i - (Len(p) - u)].tx)
             = IF i <= Len(q) - u THEN q[u + i].tx ELSE ch[i - (Len(q) - u)].tx
  <2>1. CASE i <= Len(q) - u
    <3>1. u + i \in 1 .. Len(q) /\ i <= Len(p) - u
      BY <2>1, <1>4
    <3> QED
      BY <3>1, <2>1, <1>3
  <2>2. CASE i = Len(q) - u + 1
    BY <2>2, <1>2, <1>3, <1>4
  <2>3. CASE i > Len(q) - u + 1
    <3> DEFINE k == Len(q)
               l == Len(p)
               m == Len(ch)
    <3>a. k \in Nat /\ l = k + 1 /\ m \in Nat /\ u \in Nat /\ i \in 1 .. (k - u) + m /\ i > k - u + 1
      BY <2>3, <1>1, <1>3
    <3> HIDE DEF k, l, m
    <3>b. i - (l - u) \in 1 .. m - 1 /\ i - (l - u) + 1 = i - (k - u) /\ ~(i <= l - u) /\ ~(i <= k - u)
      BY ONLY <3>a
    <3>1. i - (Len(p) - u) \in 1 .. Len(ch) - 1 /\ i - (Len(p) - u) + 1 = i - (Len(q) - u)
      BY ONLY <3>b DEF k, l, m
    <3>2. ~(i <= Len(p) - u) /\ ~(i <= Len(q) - u)
      BY ONLY <3>b DEF k, l, m
    <3> QED
      BY <3>1, <3>2, <1>1
  <2> QED
    BY <2>1, <2>2, <2>3, <1>4
<1>6. SentFrom(p, u, Tail(ch)) = SentFrom(q, u, ch)
  BY <1>4, <1>5 DEF SentFrom
<1> QED
  BY <1>6 DEF p, e

\* A record that enters the channel is sent last.
LEMMA SentAppend ==
  ASSUME NEW q \in Seq(Items), NEW u \in 0 .. Len(q), NEW ch \in Seq(QueueRecords),
         NEW r \in QueueRecords
  PROVE  LET n == (Len(q) - u) + Len(ch)
             old == SentFrom(q, u, ch)
             new == SentFrom(q, u, Append(ch, r))
         IN  /\ n \in Nat /\ DOMAIN old = 1 .. n /\ DOMAIN new = 1 .. n + 1
             /\ \A i \in 1 .. n : new[i] = old[i]
             /\ new[n + 1] = r.tx
<1> DEFINE n == (Len(q) - u) + Len(ch)
           m == Len(q) - u
           c2 == Append(ch, r)
<1>1. n \in Nat /\ m \in Nat /\ n = m + Len(ch) /\ Len(c2) = Len(ch) + 1 /\ Len(ch) \in Nat
      /\ c2[Len(ch) + 1] = r /\ \A i \in 1 .. Len(ch) : c2[i] = ch[i]
  OBVIOUS
<1> HIDE DEF c2
<1>2. DOMAIN SentFrom(q, u, ch) = 1 .. n /\ DOMAIN SentFrom(q, u, c2) = 1 .. n + 1
  BY <1>1 DEF SentFrom
<1>3. ASSUME NEW i \in 1 .. n PROVE SentFrom(q, u, c2)[i] = SentFrom(q, u, ch)[i]
  <2>1. i \in 1 .. (Len(q) - u) + Len(c2) /\ (~(i <= m) => i - m \in 1 .. Len(ch))
    BY <1>1
  <2> QED
    BY <2>1, <1>1 DEF SentFrom
<1>4. SentFrom(q, u, c2)[n + 1] = r.tx
  <2>1. n + 1 \in 1 .. (Len(q) - u) + Len(c2) /\ ~(n + 1 <= m) /\ (n + 1) - m = Len(ch) + 1
    BY <1>1
  <2> QED
    BY <2>1, <1>1 DEF SentFrom
<1> QED
  BY <1>1, <1>2, <1>3, <1>4 DEF c2

\* With an empty channel what was sent is what was broadcast.
LEMMA SentFacts ==
  ASSUME NEW q \in Seq(Items), NEW u \in 0 .. Len(q)
  PROVE  /\ DOMAIN SentFrom(q, u, <<>>) = 1 .. Len(q) - u
         /\ \A i \in 1 .. Len(q) - u : SentFrom(q, u, <<>>)[i] = q[u + i].tx
  BY DEF SentFrom

-----------------------------------------------------------------------------
(* Least numbers, offers and the agreement of bank and block. *)

\* Every set of numbers that is not empty has a least one.
LEMMA LeastNumber ==
  ASSUME NEW X \in SUBSET Nat, X # {}
  PROVE  \E m \in X : \A n \in X : m <= n
<1>1. PICK m \in X : \A n \in X : ~(<<n, m>> \in OpToRel(<, Nat))
  BY WFMin, NatLessThanWellFounded
<1>2. ASSUME NEW n \in X, n < m PROVE FALSE
  <2>1. n \in Nat /\ m \in Nat
    OBVIOUS
  <2>2. <<n, m>> \in OpToRel(<, Nat)
    BY <1>2, <2>1, Zenon DEF OpToRel
  <2> QED
    BY <1>1, <2>2
<1> QED
  BY <1>2

\* The greatest number of a bounded set.
LEMMA MaxFacts ==
  ASSUME NEW bound \in Nat, NEW X \in SUBSET (0 .. bound), X # {}
  PROVE  Max(X) \in X /\ \A n \in X : n <= Max(X)
<1> DEFINE D == {n \in Nat : bound - n \in X}
<1>1. D \in SUBSET Nat /\ D # {}
  <2>1. PICK n \in X : n \in 0 .. bound
    OBVIOUS
  <2>2. bound - n \in D
    BY <2>1
  <2> QED
    BY <2>2
<1> HIDE DEF D
<1>2. PICK d \in D : \A e \in D : d <= e
  BY <1>1, LeastNumber
<1>3. ASSUME NEW n \in X PROVE bound - d >= n
  <2>1. bound - n \in D
    BY DEF D
  <2> QED
    BY <1>2, <2>1 DEF D
<1>4. bound - d \in X
  BY <1>2 DEF D
<1>5. \E x \in X : \A y \in X : x >= y
  BY <1>3, <1>4
<1> DEFINE M == CHOOSE x \in X : \A y \in X : x >= y
<1>6. M \in X /\ \A y \in X : M >= y
  BY <1>5
<1> QED
  BY <1>6 DEF Max

\* The freshest of some offers is one of them.
LEMMA OffersFreshest ==
  ASSUME NEW infos \in Seq(Offers), infos # <<>>
  PROVE  Freshest(infos) \in Offers
<1>1. /\ Len(infos) \in DOMAIN infos /\ DOMAIN infos = 1 .. Len(infos)
      /\ \A j \in DOMAIN infos : infos[j] \in Offers
  OBVIOUS
<1>2. \A j \in DOMAIN infos : infos[j].start = WindowSize /\ WindowSize \in Nat
  BY <1>1, BoundsAssumption DEF Offers
<1> DEFINE P(i) == \A j \in DOMAIN infos :
                     infos[j].start <= infos[i].start /\ (infos[j].start = infos[i].start => j <= i)
<1>3. P(Len(infos))
  BY <1>1, <1>2
<1>4. (CHOOSE i \in DOMAIN infos : P(i)) \in DOMAIN infos
  BY <1>1, <1>3
<1> QED
  BY <1>1, <1>4 DEF Freshest

\* Nothing sent agrees with nothing accepted.
LEMMA AgreeNothing ==
  ASSUME NEW q \in Seq(Items), NEW tr
  PROVE  Agree(SentFrom(q, Len(q), <<>>), {}, tr)
<1>1. DOMAIN SentFrom(q, Len(q), <<>>) = {}
  BY DEF SentFrom
<1> QED
  BY <1>1 DEF Agree

\* Sending one more transaction keeps the agreement.
LEMMA AgreeSend ==
  ASSUME NEW old, NEW new, NEW n \in Nat, NEW accepted, NEW c, NEW tr,
         Agree(old, accepted, tr), DOMAIN old = 1 .. n, DOMAIN new = 1 .. n + 1,
         \A i \in 1 .. n : new[i] = old[i], new[n + 1] = c.tx, tr => c.index = n,
         \A i \in 1 .. n : old[i] # c.tx
  PROVE  Agree(new, accepted \cup {c}, tr)
<1>1. \A d \in accepted : d.tx # c.tx
  BY DEF Agree
<1>2. ASSUME NEW d \in accepted \cup {c}
      PROVE  \E i \in DOMAIN new : new[i] = d.tx /\ (tr => d.index = i - 1)
  <2>1. CASE d \in accepted
    <3>1. PICK i \in 1 .. n : old[i] = d.tx /\ (tr => d.index = i - 1)
      BY <2>1 DEF Agree
    <3>2. i \in DOMAIN new
      OBVIOUS
    <3> QED
      BY <3>1, <3>2
  <2>2. CASE d = c
    <3>1. n + 1 \in DOMAIN new /\ (n + 1) - 1 = n
      OBVIOUS
    <3> QED
      BY <3>1, <2>2
  <2> QED
    BY <2>1, <2>2
<1>3. ASSUME NEW i \in DOMAIN new PROVE \E d \in accepted \cup {c} : d.tx = new[i]
  <2>1. i \in 1 .. n \/ i = n + 1
    OBVIOUS
  <2> QED
    BY <2>1 DEF Agree
<1>4. ASSUME NEW i \in DOMAIN new, NEW j \in DOMAIN new, new[i] = new[j] PROVE i = j
  <2>1. (i \in 1 .. n \/ i = n + 1) /\ (j \in 1 .. n \/ j = n + 1)
    OBVIOUS
  <2> QED
    BY <2>1, <1>4 DEF Agree
<1>5. ASSUME NEW d \in accepted \cup {c}, NEW e \in accepted \cup {c}, d.tx = e.tx PROVE d = e
  BY <1>1, <1>5 DEF Agree
<1> QED
  BY <1>2, <1>3, <1>4, <1>5 DEF Agree

\* As many transactions are accepted as were sent.
LEMMA AgreeCount ==
  ASSUME NEW sent, NEW n \in Nat, NEW accepted, NEW tr,
         Agree(sent, accepted, tr), DOMAIN sent = 1 .. n
  PROVE  Cardinality(accepted) = n
<1> DEFINE f == [i \in 1 .. n |-> CHOOSE c \in accepted : c.tx = sent[i]]
<1>1. \A i \in 1 .. n : f[i] \in accepted /\ f[i].tx = sent[i]
  BY DEF Agree
<1>2. f \in [1 .. n -> accepted]
  BY <1>1
<1> HIDE DEF f
<1>3. ASSUME NEW i \in 1 .. n, NEW j \in 1 .. n, f[i] = f[j] PROVE i = j
  <2>1. sent[i] = sent[j]
    BY <1>1, <1>3
  <2> QED
    BY <2>1 DEF Agree
<1>4. ASSUME NEW c \in accepted PROVE \E i \in 1 .. n : f[i] = c
  <2>1. PICK i \in 1 .. n : sent[i] = c.tx
    BY DEF Agree
  <2>2. f[i] = c
    BY <2>1, <1>1 DEF Agree
  <2> QED
    BY <2>2
<1>5. f \in Bijection(1 .. n, accepted)
  BY <1>2, <1>3, <1>4 DEF Bijection, Injection, Surjection, IsInjective
<1> QED
  BY <1>5, FS_CountingElements DEF ExistsBijection

\* The same transactions are accepted as were sent.
LEMMA AgreeTxs ==
  ASSUME NEW sent, NEW accepted, NEW tr, Agree(sent, accepted, tr)
  PROVE  {sent[i] : i \in DOMAIN sent} = TxsOf(accepted)
  BY DEF Agree, TxsOf

\* A block whose bank agrees with what was sent matches it once the footer is there.
LEMMA FooterMatches ==
  ASSUME NEW q \in Seq(Items), NEW u, BodyFrom(q, u), NEW bank, NEW tr,
         Agree(SentFrom(q, u, <<>>), bank.committed, tr), u > 0 => q[u].parent = bank.parent
  PROVE  Matches(Append(q, Footer), bank, tr)
<1> DEFINE p == Append(q, Footer)
           n == Len(q) - u
           body == SubSeq(p, u + 1, Len(p) - 1)
<1>1. u \in 0 .. Len(q) /\ (u > 0 => q[u].kind = "UpdateParent")
      /\ \A i \in u + 1 .. Len(q) : q[i].kind = "Tx"
  BY DEF BodyFrom
<1>2. Footer \in Items /\ Footer.kind = "Footer"
  BY ItemFacts
<1>3. p \in Seq(Items) /\ Len(p) = Len(q) + 1 /\ p[Len(q) + 1] = Footer /\ \A i \in 1 .. Len(q) : p[i] = q[i]
  BY <1>2
<1> HIDE DEF p
<1>4. UpdateOf(p) = u
  <2>1. u \in 0 .. Len(p) /\ (u > 0 => p[u].kind = "UpdateParent")
    BY <1>1, <1>3
  <2>2. ASSUME NEW i \in u + 1 .. Len(p) PROVE p[i].kind # "UpdateParent"
    <3>1. i \in u + 1 .. Len(q) \/ i = Len(q) + 1
      BY <1>3
    <3> QED
      BY <3>1, <1>1, <1>2, <1>3
  <2> QED
    BY <2>1, <2>2, <1>3, UpdateIs
<1>5. n \in Nat /\ DOMAIN body = 1 .. n /\ Len(body) = n /\ \A i \in 1 .. n : body[i] = q[u + i]
  <2>1. n \in Nat /\ Len(p) - 1 = Len(q) /\ Len(q) \in Nat /\ u \in Nat
    BY <1>1, <1>3
  <2>2. \A i \in u + 1 .. Len(q) : p[i] \in Items
    BY <2>1, <1>3
  <2>3. /\ body \in Seq(Items) /\ Len(body) = IF u + 1 <= Len(q) THEN Len(q) - (u + 1) + 1 ELSE 0
        /\ \A i \in 1 .. Len(q) - (u + 1) + 1 : body[i] = p[(u + 1) + i - 1]
    <3>1. body = SubSeq(p, u + 1, Len(q)) /\ u + 1 \in Int /\ Len(q) \in Int
      BY <2>1
    <3> HIDE DEF body
    <3> QED
      BY <3>1, <2>2, SubSeqProperties
  <2> HIDE DEF body
  <2>4. Len(body) = n /\ DOMAIN body = 1 .. n
    BY <2>1, <2>3, <1>1
  <2>5. ASSUME NEW i \in 1 .. n PROVE body[i] = q[u + i]
    <3>1. i \in 1 .. Len(q) - (u + 1) + 1 /\ (u + 1) + i - 1 = u + i /\ u + i \in 1 .. Len(q)
      BY <2>1, <1>1
    <3> QED
      BY <3>1, <2>3, <1>3
  <2> QED
    BY <2>1, <2>4, <2>5
<1> HIDE DEF body
<1>6. DOMAIN SentFrom(q, u, <<>>) = 1 .. n /\ \A i \in 1 .. n : SentFrom(q, u, <<>>)[i] = q[u + i].tx
  BY <1>1, SentFacts
<1>7. Cardinality(bank.committed) = n
  BY <1>5, <1>6, AgreeCount
<1>8. \A i \in DOMAIN body : body[i].kind = "Tx"
  BY <1>1, <1>5
<1>9. ASSUME NEW c \in bank.committed
      PROVE  \E i \in DOMAIN body : body[i].tx = c.tx /\ (tr => c.index = i - 1)
  <2>1. PICK i \in 1 .. n : SentFrom(q, u, <<>>)[i] = c.tx /\ (tr => c.index = i - 1)
    <3> DEFINE sent == SentFrom(q, u, <<>>)
    <3>1. Agree(sent, bank.committed, tr)
      OBVIOUS
    <3>2. DOMAIN sent = 1 .. n
      BY <1>6
    <3> HIDE DEF sent
    <3>3. \E i \in DOMAIN sent : sent[i] = c.tx /\ (tr => c.index = i - 1)
      BY ONLY <3>1, c \in bank.committed DEF Agree
    <3> QED
      BY ONLY <3>2, <3>3 DEF sent
  <2> QED
    BY <2>1, <1>5, <1>6
<1>10. u > 0 => p[u].parent = bank.parent
  BY <1>1, <1>3
<1> QED
  BY <1>3, <1>4, <1>5, <1>7, <1>8, <1>9, <1>10 DEF Matches, body, p

-----------------------------------------------------------------------------
(* Votor and replay. *)

\* What no step changes.
Fixed == UNCHANGED <<track, own, others>>

\* A step that leaves the loop, the channel, the workers, the banks and what was broadcast alone.
LEMMA LoopFrame ==
  ASSUME CreationInv, Fixed,
         UNCHANGED <<channelVars, workerVars, banks, panicked, loop, working, stream>>
  PROVE  /\ ~panicked' /\ ChannelTypes' /\ ScheduleOk' /\ PcsOk' /\ WorkingOk' /\ WordOk' /\ EmptyOk'
         /\ WorkersOk' /\ PlacesOk'
         /\ BankOk' /\ StreamOk' /\ BodyOk' /\ RecordingOk' /\ HandoverOk'
<1>1. UNCHANGED <<track, own, others, word, queue, indexes, worker, buffer, banks, panicked, loop, working, stream>>
  BY DEF Fixed, channelVars, workerVars
<1>2. ~panicked' /\ ChannelTypes' /\ ScheduleOk' /\ PcsOk' /\ WorkingOk'
  BY <1>1 DEF CreationInv, TypesOk, ChannelTypes, ScheduleOk, ControlOk, PcsOk, WorkingOk
<1>3. WordOk' /\ EmptyOk' /\ PlacesOk'
  BY <1>1 DEF CreationInv, ChannelOk, WordOk, EmptyOk, Open, Emptied, PlacesOk
<1>4. WorkersOk'
  BY <1>1 DEF CreationInv, ChannelOk, WorkersOk, HoldsFreezeLock
<1>5. BankOk' /\ StreamOk' /\ BodyOk'
  BY <1>1 DEF CreationInv, BlockOk, BankOk, StreamOk, BodyOk, Stream, Recording, Marked
<1>6. RecordingOk' /\ HandoverOk'
  BY <1>1 DEF CreationInv, BlockOk, RecordingOk, HandoverOk, Recording, Marked, Sent, Accepted, Stream
<1> QED
  BY <1>2, <1>3, <1>4, <1>5, <1>6

\* Completed blocks stay as they are when only flags of their banks change, or ready
\* where it was not set.
LEMMA DoneFrame ==
  ASSUME CreationInv, Fixed, stream' = stream,
         \A s \in own : ready[s] # NoBlock => ready'[s] = ready[s],
         DOMAIN banks' = DOMAIN banks,
         \A i \in DOMAIN banks :
           /\ banks'[i].slot = banks[i].slot /\ banks'[i].parent = banks[i].parent
           /\ banks'[i].committed = banks[i].committed
  PROVE  DoneOk'
<1> SUFFICES ASSUME NEW s \in Slots, Footer \in ToSet(stream[s])
             PROVE  \E i \in DOMAIN banks' :
                      /\ IsLast(banks', s, i) /\ Matches(stream[s], banks'[i], track)
                      /\ s \in own => ready'[s] # NoBlock /\ banks'[i].parent = ready'[s]
  BY DEF DoneOk, Fixed
<1>1. PICK i \in DOMAIN banks :
        /\ IsLast(banks, s, i) /\ Matches(stream[s], banks[i], track)
        /\ s \in own => ready[s] # NoBlock /\ banks[i].parent = ready[s]
  BY DEF CreationInv, BlockOk, DoneOk
<1>2. IsLast(banks', s, i)
  BY <1>1 DEF IsLast
<1>3. Matches(stream[s], banks'[i], track)
  BY <1>1 DEF Matches
<1> QED
  BY <1>1, <1>2, <1>3

\* Votor announces a window.
LEMMA VotorStep ==
  ASSUME CreationInv, Fixed, NEW s \in WindowStarts, Votor(s)
  PROVE  CreationInv'
<1>1. UNCHANGED <<channelVars, workerVars, banks, panicked, loop, stash, optimistic, forks, working, stream>>
  BY DEF Votor, ParentReady, ProduceWindow, loopVars, replayVars, recorderVars
<1>2. LoopTypes' /\ ForksOk'
  BY <1>1 DEF CreationInv, TypesOk, LoopTypes, ForksOk
<1>3. CASE ParentReady(s)
  <2>1. UNCHANGED <<parent_ready, ready>> /\ own' = own
    BY <1>3 DEF ParentReady, Fixed
  <2>2. AnnouncedOk'
    BY <1>1, <2>1 DEF CreationInv, TypesOk, AnnouncedOk
  <2>3. WindowOk'
    BY <1>1, <2>1 DEF CreationInv, ControlOk, WindowOk
  <2>4. DoneOk'
    BY <1>1, <2>1, DoneFrame
  <2> QED
    BY <1>1, <1>2, <2>2, <2>3, <2>4, LoopFrame DEF CreationInv, TypesOk, ControlOk, ChannelOk, BlockOk
<1>4. ASSUME NEW b \in ParentCandidates(s), ProduceWindow(s, b) PROVE CreationInv'
  <2>1. /\ s \in own /\ ready[s] = NoBlock /\ ready' = [ready EXCEPT ![s] = b]
        /\ parent_ready' = Append(parent_ready, s) /\ own' = own
    BY <1>4 DEF ProduceWindow, Fixed
  <2>2. b \in References /\ b # NoBlock
    <3>0. OtherSlot <= MaxSlot /\ OtherSlot \in Nat /\ MaxSlot \in Nat
      BY BoundsAssumption DEF CreationInv, TypesOk, ScheduleOk, OtherSlot
    <3>1. CASE b \in others
      BY <3>0, <3>1 DEF CreationInv, TypesOk, ScheduleOk, References, Slots, NoBlock, NoBank
    <3>2. CASE \E i \in DOMAIN banks : b = Block(banks[i].slot, i)
      <4>1. PICK i \in DOMAIN banks : b = Block(banks[i].slot, i)
        BY <3>2
      <4>2. banks \in Seq(BankRecords)
        BY DEF CreationInv, TypesOk, ChannelTypes
      <4>3. banks[i] \in BankRecords /\ i \in Nat
        BY <4>2
      <4>4. banks[i].slot \in Slots
        BY <4>3 DEF BankRecords
      <4> QED
        BY <4>1, <4>3, <4>4 DEF References, Block, NoBlock, NoBank
    <3> QED
      BY <3>1, <3>2, <1>4 DEF ParentCandidates
  <2>3. ready \in [WindowStarts -> References \cup {NoBlock}] /\ parent_ready \in Seq(own) /\ own \subseteq WindowStarts
        /\ stash \in own \cup {None} /\ optimistic \in Seq(Offers)
    BY DEF CreationInv, TypesOk, AnnouncedOk, ScheduleOk
  <2>4. /\ ready' \in [WindowStarts -> References \cup {NoBlock}] /\ ready'[s] = b
        /\ \A t \in WindowStarts : ready[t] # NoBlock => ready'[t] = ready[t]
        /\ \A t \in WindowStarts : ready[t] # NoBlock => ready'[t] # NoBlock
    BY <2>1, <2>2, <2>3
  <2>5. AnnouncedOk'
    <3>1. parent_ready' \in Seq(own)
      BY <2>1, <2>3
    <3>2. ASSUME NEW i \in DOMAIN parent_ready' PROVE ready'[parent_ready'[i]] # NoBlock
      <4>1. i \in DOMAIN parent_ready \/ i = Len(parent_ready) + 1
        BY <2>1, <2>3
      <4>2. CASE i \in DOMAIN parent_ready
        <5>1. parent_ready'[i] = parent_ready[i] /\ parent_ready[i] \in WindowStarts
          BY <2>1, <2>3, <4>2
        <5>2. ready[parent_ready[i]] # NoBlock
          BY <4>2 DEF CreationInv, TypesOk, AnnouncedOk
        <5> QED
          BY <5>1, <5>2, <2>4
      <4>3. CASE i = Len(parent_ready) + 1
        <5>1. parent_ready'[i] = s
          BY <2>1, <2>3, <4>3
        <5> QED
          BY <5>1, <2>2, <2>4
      <4> QED
        BY <4>1, <4>2, <4>3
    <3>3. stash # None => ready'[stash] # NoBlock
      BY <2>3, <2>4 DEF CreationInv, TypesOk, AnnouncedOk
    <3> QED
      BY <1>1, <2>1, <2>3, <2>4, <3>1, <3>2, <3>3 DEF AnnouncedOk
  <2>6. WindowOk'
    BY <1>1, <2>1, <2>3, <2>4 DEF CreationInv, ControlOk, WindowOk
  <2>7. DoneOk'
    <3>1. \A t \in own : ready[t] # NoBlock => ready'[t] = ready[t]
      BY <2>3, <2>4
    <3> QED
      BY <1>1, <3>1, DoneFrame
  <2> QED
    BY <1>1, <1>2, <2>5, <2>6, <2>7, LoopFrame DEF CreationInv, TypesOk, ControlOk, ChannelOk, BlockOk
<1> QED
  BY <1>3, <1>4 DEF Votor

\* Replay freezes or switches OtherSlot.
LEMMA ReplayStep ==
  ASSUME CreationInv, Fixed, ReplayOther \/ SwitchBank
  PROVE  CreationInv'
<1>1. UNCHANGED <<channelVars, workerVars, banks, panicked, loop, stash, parent_ready, ready, working, stream>>
      /\ own' = own
  BY DEF ReplayOther, SwitchBank, loopVars, votorVars, recorderVars, Fixed
<1>2. WindowOk'
  BY <1>1 DEF CreationInv, ControlOk, WindowOk
<1>3. DoneOk'
  BY <1>1, DoneFrame
<1>4. forks \in [Slots -> Int] /\ optimistic \in Seq(Offers) /\ OtherSlot \in Int
  BY BoundsAssumption DEF CreationInv, TypesOk, LoopTypes, AnnouncedOk, OtherSlot
<1>5. forks' \in [Slots -> Int] /\ \A s \in Slots : s > OtherSlot => forks'[s] \in {forks[s], NoBank}
  <2>1. CASE ReplayOther
    <3>1. PICK v \in {1, 2} : forks' = [forks EXCEPT ![OtherSlot] = v]
      BY <2>1 DEF ReplayOther
    <3>2. v \in Int
      OBVIOUS
    <3>4. forks' \in [Slots -> Int]
      BY <3>1, <3>2, <1>4
    <3>3. ASSUME NEW s \in Slots, s > OtherSlot PROVE forks'[s] = forks[s]
      <4>1. s # OtherSlot
        BY <3>3, <1>4, BoundsAssumption DEF Slots
      <4> QED
        BY <4>1, <3>1, <1>4
    <3> QED
      BY <3>4, <3>3
  <2>2. CASE SwitchBank
    <3> DEFINE F == FromOther
    <3> HIDE DEF F
    <3>1. forks' = [s \in Slots |-> IF s \in F THEN NoBank ELSE forks[s]]
      BY <2>2 DEF SwitchBank, F
    <3> QED
      BY <3>1, <1>4 DEF NoBank
  <2> QED
    BY <2>1, <2>2
<1>6. optimistic' \in Seq(Offers)
  <2>1. CASE ReplayOther
    <3>1. PICK v \in {1, 2} : Offer([start |-> WindowSize, parent |-> Block(OtherSlot, v)])
      BY <2>1 DEF ReplayOther
    <3> DEFINE o == [start |-> WindowSize, parent |-> Block(OtherSlot, v)]
    <3>2. o \in Offers
      BY DEF Offers, Block
    <3> HIDE DEF o
    <3>3. Append(optimistic, o) \in Seq(Offers) /\ Append(optimistic, o) # <<>>
      BY <1>4, <3>2
    <3>4. Freshest(Append(optimistic, o)) \in Offers
      BY <3>3, OffersFreshest
    <3> QED
      BY <3>1, <3>3, <3>4 DEF Offer, o
  <2>2. CASE SwitchBank
    BY <2>2, <1>4 DEF SwitchBank
  <2> QED
    BY <2>1, <2>2
<1>7. ForksOk'
  BY <1>1, <1>4, <1>5 DEF CreationInv, ForksOk
<1>8. LoopTypes' /\ AnnouncedOk'
  BY <1>1, <1>5, <1>6 DEF CreationInv, TypesOk, LoopTypes, AnnouncedOk
<1> QED
  BY <1>1, <1>2, <1>3, <1>7, <1>8, LoopFrame DEF CreationInv, TypesOk, ControlOk, ChannelOk, BlockOk

-----------------------------------------------------------------------------
(* Frames for the workers; freezing a bank. *)

\* A bank that is ticked or frozen keeps its slot, its parent and its transactions.
LEMMA FlagFacts ==
  ASSUME banks \in Seq(BankRecords), NEW i \in DOMAIN banks,
         \/ banks' = [banks EXCEPT ![i].frozen = TRUE]
         \/ banks' = [banks EXCEPT ![i].ticked = TRUE]
  PROVE  /\ banks' \in Seq(BankRecords) /\ Len(banks') = Len(banks) /\ DOMAIN banks' = DOMAIN banks
         /\ \A j \in DOMAIN banks :
              /\ banks'[j].slot = banks[j].slot /\ banks'[j].parent = banks[j].parent
              /\ banks'[j].committed = banks[j].committed
              /\ banks[j].frozen => banks'[j].frozen
<1>1. /\ DOMAIN banks = 1 .. Len(banks) /\ DOMAIN banks' = DOMAIN banks /\ Len(banks) \in Nat
      /\ \A j \in DOMAIN banks : banks[j] \in BankRecords
  OBVIOUS
<1>2. ASSUME NEW j \in DOMAIN banks
      PROVE  /\ banks'[j] \in BankRecords
             /\ banks'[j].slot = banks[j].slot /\ banks'[j].parent = banks[j].parent
             /\ banks'[j].committed = banks[j].committed
             /\ banks[j].frozen => banks'[j].frozen
  <2>1. \/ banks'[j] = banks[j]
        \/ banks'[j] = [banks[j] EXCEPT !.frozen = TRUE]
        \/ banks'[j] = [banks[j] EXCEPT !.ticked = TRUE]
    BY <1>1
  <2>2. banks[j] \in BankRecords
    BY <1>1
  <2> QED
    BY <2>1, <2>2 DEF BankRecords
<1>3. banks' \in Seq(BankRecords) /\ Len(banks') = Len(banks)
  <2>1. banks' = [j \in 1 .. Len(banks) |-> banks'[j]]
    BY <1>1
  <2>2. banks' \in [1 .. Len(banks) -> BankRecords]
    BY <1>1, <1>2, <2>1
  <2> QED
    BY <1>1, <2>2, SeqDef
<1> QED
  BY <1>1, <1>2, <1>3

\* Replay freezes a leader bank.
LEMMA FreezeStep ==
  ASSUME CreationInv, Fixed, NEW s \in Slots, FreezeOwn(s)
  PROVE  CreationInv'
<1>1. UNCHANGED <<track, own, others, word, queue, indexes, worker, buffer, panicked, loop, stash, parent_ready, ready,
                  optimistic, forks, working, stream>>
  BY DEF FreezeOwn, Fixed, channelVars, workerVars, loopVars, votorVars, replayVars, recorderVars
<1>2. forks[s] \in DOMAIN banks /\ banks' = [banks EXCEPT ![forks[s]].frozen = TRUE]
  BY DEF FreezeOwn, CreationInv, ForksOk
<1>3. banks \in Seq(BankRecords) /\ working \in {None, Len(banks)} /\ Len(banks) \in Nat
  BY DEF CreationInv, TypesOk, ChannelTypes, ControlOk, WorkingOk
<1>4. /\ banks' \in Seq(BankRecords) /\ Len(banks') = Len(banks) /\ DOMAIN banks' = DOMAIN banks
      /\ \A j \in DOMAIN banks :
           /\ banks'[j].slot = banks[j].slot /\ banks'[j].parent = banks[j].parent
           /\ banks'[j].committed = banks[j].committed
           /\ banks[j].frozen => banks'[j].frozen
  BY <1>2, <1>3, FlagFacts
<1>5. TypesOk'
  BY <1>1, <1>4 DEF CreationInv, TypesOk, ChannelTypes, LoopTypes, ScheduleOk, AnnouncedOk
<1>6. ControlOk'
  BY <1>1, <1>4 DEF CreationInv, ControlOk, PcsOk, WorkingOk, WindowOk
<1>7. WordOk' /\ EmptyOk' /\ PlacesOk'
  BY <1>1 DEF CreationInv, ChannelOk, WordOk, EmptyOk, Open, Emptied, PlacesOk
<1>8. WorkersOk'
  BY <1>1, <1>4 DEF CreationInv, ChannelOk, WorkersOk, HoldsFreezeLock
<1>9. ForksOk'
  BY <1>1, <1>4 DEF CreationInv, ForksOk
<1>10. working # None => working \in DOMAIN banks
  BY <1>3 DEF None
<1>11. BankOk'
  BY <1>1, <1>4, <1>10 DEF CreationInv, BlockOk, BankOk
<1>12. StreamOk' /\ BodyOk'
  BY <1>1 DEF CreationInv, BlockOk, StreamOk, BodyOk, Stream, Recording, Marked
<1>13. working # None => Accepted' = Accepted
  BY <1>1, <1>4, <1>10 DEF Accepted, AcceptedIn
<1>14. Recording \/ Marked => working # None
  BY DEF CreationInv, ControlOk, WorkingOk, Recording, Marked
<1>15. RecordingOk'
  BY <1>1, <1>13, <1>14 DEF CreationInv, BlockOk, RecordingOk, Recording, Marked, Sent, Stream
<1>16. HandoverOk'
  <2>1. Len(banks) >= 1 => Len(banks) \in DOMAIN banks
    BY <1>3
  <2>2. Len(banks) >= 2 => Len(banks) - 1 \in DOMAIN banks
    BY <1>3
  <2> QED
    BY <1>1, <1>4, <1>13, <1>14, <2>1, <2>2 DEF CreationInv, BlockOk, HandoverOk, Marked
<1>17. DoneOk'
  BY <1>1, <1>4, DoneFrame
<1> QED
  BY <1>1, <1>5, <1>6, <1>7, <1>8, <1>9, <1>11, <1>12, <1>15, <1>16, <1>17 DEF CreationInv, ChannelOk, BlockOk

\* A step of a worker leaves the loop, votor, replay and what was broadcast alone.
LEMMA WorkerFrame ==
  ASSUME CreationInv, Fixed, UNCHANGED <<loopVars, votorVars, replayVars, recorderVars>>
  PROVE  /\ LoopTypes' /\ ScheduleOk' /\ AnnouncedOk' /\ PcsOk' /\ WindowOk' /\ StreamOk' /\ BodyOk'
         /\ UNCHANGED <<track, own, others, loop, stash, parent_ready, ready, optimistic, forks, working, stream>>
<1>1. UNCHANGED <<track, own, others, loop, stash, parent_ready, ready, optimistic, forks, working, stream>>
  BY DEF Fixed, loopVars, votorVars, replayVars, recorderVars
<1>2. LoopTypes' /\ ScheduleOk' /\ AnnouncedOk' /\ PcsOk' /\ WindowOk'
  BY <1>1 DEF CreationInv, TypesOk, LoopTypes, ScheduleOk, AnnouncedOk, ControlOk, PcsOk, WindowOk
<1>3. StreamOk' /\ BodyOk'
  BY <1>1 DEF CreationInv, BlockOk, StreamOk, BodyOk, Stream, Recording, Marked
<1> QED
  BY <1>1, <1>2, <1>3

\* What was sent and accepted stays, and nothing new is unsent.
LEMMA SameSent ==
  ASSUME CreationInv, Fixed, UNCHANGED <<loop, stream, working, queue, indexes>>,
         Accepted' = Accepted, UnsentIn(worker, buffer)' \subseteq UnsentIn(worker, buffer),
         loop.pc \in Starting => banks' = banks
  PROVE  RecordingOk' /\ HandoverOk'
<1>1. RecordingOk'
  BY DEF CreationInv, BlockOk, RecordingOk, Recording, Marked, Sent, Stream, Fixed
<1>2. HandoverOk'
  BY DEF CreationInv, BlockOk, HandoverOk, Marked, Starting
<1> QED
  BY <1>1, <1>2

\* A worker that does not send: the channel's queue and the banks stay.
LEMMA SendlessFrame ==
  ASSUME CreationInv, Fixed, UNCHANGED <<loopVars, votorVars, replayVars, recorderVars>>,
         UNCHANGED <<queue, indexes, banks, panicked>>,
         worker' \in [Workers -> WorkerRecords], buffer' \subseteq Nat,
         \A w \in Workers : worker'[w] = worker[w] \/ (worker'[w].pc # "Commit" /\ worker[w].pc # "Commit"),
         UnsentIn(worker, buffer)' \subseteq UnsentIn(worker, buffer),
         word' \in Int, WordOk', EmptyOk', WorkersOk', PlacesOk'
  PROVE  CreationInv'
<1>1. UNCHANGED <<track, own, others, loop, stash, parent_ready, ready, optimistic, forks, working, stream>>
  BY WorkerFrame
<1>2. ChannelTypes' /\ WorkingOk'
  BY <1>1 DEF CreationInv, TypesOk, ChannelTypes, ControlOk, WorkingOk
<1>3. ForksOk' /\ BankOk'
  BY <1>1 DEF CreationInv, ForksOk, BlockOk, BankOk
<1>4. DoneOk'
  BY <1>1, DoneFrame
<1>5. Accepted' = Accepted
  BY <1>1 DEF Accepted, AcceptedIn
<1>6. RecordingOk' /\ HandoverOk'
  BY <1>1, <1>5, SameSent
<1> QED
  BY <1>2, <1>3, <1>4, <1>6, WorkerFrame DEF CreationInv, TypesOk, ControlOk, ChannelOk, BlockOk

-----------------------------------------------------------------------------
(* The steps of a worker. *)

\* The types of the channel, the workers and the banks.
LEMMA WorkerTypes ==
  ASSUME CreationInv
  PROVE  /\ worker \in [Workers -> WorkerRecords] /\ buffer \subseteq Nat /\ word \in Int
         /\ \A w \in Workers : worker[w] \in WorkerRecords /\ worker[w].bank \in Nat /\ worker[w].tx \in Nat
         /\ working \in Nat /\ Len(banks) \in Nat /\ (working # None => working \in 1 .. Len(banks))
         /\ Len(banks) < Disabled /\ Disabled \in Nat /\ Capacity \in Nat
         /\ banks \in Seq(BankRecords) /\ queue \in Seq(QueueRecords) /\ indexes \in Nat
<1>1. /\ worker \in [Workers -> WorkerRecords] /\ buffer \subseteq Nat /\ word \in Int /\ working \in Nat
      /\ banks \in Seq(BankRecords) /\ Len(banks) <= MaxBanks /\ working \in {None, Len(banks)}
      /\ queue \in Seq(QueueRecords) /\ indexes \in Nat
  BY DEF CreationInv, TypesOk, ChannelTypes, ControlOk, WorkingOk
<1>2. \A w \in Workers : worker[w] \in WorkerRecords /\ worker[w].bank \in Nat /\ worker[w].tx \in Nat
  BY <1>1 DEF WorkerRecords
<1>3. Len(banks) \in Nat
  BY <1>1
<1> QED
  BY <1>1, <1>2, <1>3, BoundsAssumption, ChannelAssumption DEF None

\* A worker takes a transaction for the working bank.
LEMMA TakeStep ==
  ASSUME CreationInv, Fixed, NEW w \in Workers, NEW t \in Txs, WorkerTakes(w, t)
  PROVE  CreationInv'
<1> DEFINE r == [IdleWorker EXCEPT !.pc = "Ready", !.bank = working, !.tx = t]
<1>1. /\ worker[w].pc = "Idle" /\ t \in buffer /\ working # None
      /\ worker' = [worker EXCEPT ![w] = r] /\ buffer' = buffer \ {t}
      /\ UNCHANGED <<word, queue, indexes, banks, panicked, loopVars, votorVars, replayVars, recorderVars>>
  BY DEF WorkerTakes, TakeWork, channelVars
<1>0. t \in Nat /\ working \in Nat
  BY <1>1, WorkerTypes
<1>2. r \in WorkerRecords /\ r.pc = "Ready" /\ r.bank = working /\ r.tx = t
  <2>1. IdleWorker \in WorkerRecords
    BY DEF WorkerRecords, IdleWorker, None
  <2> QED
    BY <2>1, <1>0 DEF WorkerRecords
<1> HIDE DEF r
<1>3. /\ worker' \in [Workers -> WorkerRecords] /\ worker'[w] = r /\ buffer' \subseteq Nat
      /\ \A v \in Workers : v # w => worker'[v] = worker[v]
  BY <1>1, <1>2, WorkerTypes
<1>f. UNCHANGED <<track, own, others, loop, working, stream>>
  BY <1>1, WorkerFrame
<1>4. UnsentIn(worker, buffer)' \subseteq UnsentIn(worker, buffer)
  BY <1>1, <1>2, <1>3 DEF UnsentIn
<1>5. ReservedIn(worker') = ReservedIn(worker)
  BY <1>1, <1>2, <1>3 DEF ReservedIn
<1>6. WordOk'
  BY <1>1, <1>5, <1>f DEF CreationInv, ChannelOk, WordOk, Open
<1>7. EmptyOk'
  BY <1>1, <1>2, <1>3, <1>f DEF CreationInv, ChannelOk, EmptyOk, Emptied
<1>8. WorkersOk'
  BY <1>1, <1>2, <1>3, <1>f, WorkerTypes DEF CreationInv, ChannelOk, WorkersOk, HoldsFreezeLock, Announced
<1>9. PlacesOk'
  BY <1>1, <1>2, <1>3 DEF CreationInv, PlacesOk
<1> QED
  BY <1>1, <1>2, <1>3, <1>4, <1>6, <1>7, <1>8, <1>9, WorkerTypes, SendlessFrame

\* A worker takes the freeze lock and loads the word, or is refused.
LEMMA LoadStep ==
  ASSUME CreationInv, Fixed, NEW w \in Workers, Load(w),
         UNCHANGED <<loopVars, votorVars, replayVars, recorderVars>>
  PROVE  CreationInv'
<1>1. /\ worker[w].pc \in {"Ready", "Retry"}
      /\ UNCHANGED <<word, queue, indexes, banks, panicked>>
  BY DEF Load, channelVars
<1>f. UNCHANGED <<track, own, others, loop, working, stream>>
  BY WorkerFrame
<1>2. CASE Refused(w, word)
  <2>1. worker' = [worker EXCEPT ![w] = IdleWorker] /\ buffer' = buffer \cup {worker[w].tx}
    BY <1>2 DEF Load
  <2>2. IdleWorker \in WorkerRecords /\ IdleWorker.pc = "Idle"
    BY DEF WorkerRecords, IdleWorker, None
  <2>3. /\ worker' \in [Workers -> WorkerRecords] /\ worker'[w] = IdleWorker /\ buffer' \subseteq Nat
        /\ \A v \in Workers : v # w => worker'[v] = worker[v]
    BY <2>1, <2>2, WorkerTypes
  <2>4. UnsentIn(worker, buffer)' \subseteq UnsentIn(worker, buffer)
    BY <1>1, <2>1, <2>2, <2>3 DEF UnsentIn
  <2>5. ReservedIn(worker') = ReservedIn(worker)
    BY <1>1, <2>2, <2>3 DEF ReservedIn
  <2>6. WordOk'
    BY <1>1, <2>5, <1>f DEF CreationInv, ChannelOk, WordOk, Open
  <2>7. EmptyOk'
    BY <1>1, <2>2, <2>3, <1>f DEF CreationInv, ChannelOk, EmptyOk, Emptied
  <2>8. WorkersOk'
    BY <1>1, <2>2, <2>3, <1>f DEF CreationInv, ChannelOk, WorkersOk, HoldsFreezeLock, Announced
  <2>9. PlacesOk'
    BY <1>1, <2>1, <2>2, <2>3 DEF CreationInv, PlacesOk
  <2> QED
    BY <1>1, <2>2, <2>3, <2>4, <2>6, <2>7, <2>8, <2>9, WorkerTypes, SendlessFrame
<1>3. CASE ~Refused(w, word)
  <2>1. worker' = [worker EXCEPT ![w].pc = "Loaded", ![w].seen = word] /\ buffer' = buffer
    BY <1>3 DEF Load
  <2>2. /\ worker' \in [Workers -> WorkerRecords] /\ buffer' \subseteq Nat
        /\ worker'[w].pc = "Loaded" /\ worker'[w].seen = word
        /\ worker'[w].bank = worker[w].bank /\ worker'[w].tx = worker[w].tx
        /\ \A v \in Workers : v # w => worker'[v] = worker[v]
    BY <2>1, WorkerTypes DEF WorkerRecords
  <2>3. PICK a \in 0 .. Capacity : word = Encoded(IF Open THEN working ELSE Disabled, a)
    BY DEF CreationInv, ChannelOk, WordOk
  <2>4. worker[w].bank \in 1 .. Len(banks)
    BY <1>1 DEF CreationInv, ChannelOk, WorkersOk
  <2>5. Open /\ worker[w].bank = working /\ word = Encoded(working, a) /\ a >= 1
    <3>1. BankIdOf(word) = worker[w].bank /\ ~(AllowedOf(word) < 1)
      BY <1>3 DEF Refused
    <3>2. CASE Open
      <4>0. word = Encoded(working, a) /\ working \in Nat
        BY <3>2, <2>3, WorkerTypes
      <4>1. BankIdOf(word) = working /\ AllowedOf(word) = a
        BY <4>0, WordFacts
      <4> QED
        BY <4>0, <4>1, <3>1, <3>2
    <3>3. CASE ~Open
      <4>1. BankIdOf(word) = Disabled
        BY <3>3, <2>3, WordFacts, WorkerTypes
      <4> QED
        BY <4>1, <3>1, <2>4, WorkerTypes
    <3> QED
      BY <3>2, <3>3
  <2>6. loop.pc = "Record" /\ working # None
    BY <2>5 DEF Open, CreationInv, ControlOk, WorkingOk
  <2>7. UnsentIn(worker, buffer)' \subseteq UnsentIn(worker, buffer)
    BY <1>1, <2>1, <2>2 DEF UnsentIn
  <2>8. ReservedIn(worker') = ReservedIn(worker)
    BY <1>1, <2>2 DEF ReservedIn
  <2>9. WordOk'
    BY <1>1, <2>8, <1>f DEF CreationInv, ChannelOk, WordOk, Open
  <2>10. EmptyOk'
    BY <1>1, <2>2, <1>f DEF CreationInv, ChannelOk, EmptyOk, Emptied
  <2>11. WorkersOk'
    <3>1. \E b \in 1 .. Capacity : worker'[w].seen = Encoded(worker'[w].bank, b)
      BY <2>2, <2>5
    <3>2. ASSUME NEW v \in Workers, v # w
          PROVE  /\ worker'[v].pc # "Idle" => worker'[v].bank \in 1 .. Len(banks')
                 /\ HoldsFreezeLock(v)' => working' # None /\ worker'[v].bank = working'
                 /\ HoldsFreezeLock(v)' => loop'.pc \notin {"Freeze", "Restart"}
                 /\ worker'[v].pc \in {"Loaded", "Added"} =>
                      \E b \in 1 .. Capacity : worker'[v].seen = Encoded(worker'[v].bank, b)
      BY <1>1, <2>2, <3>2, <1>f DEF CreationInv, ChannelOk, WorkersOk, HoldsFreezeLock
    <3> QED
      BY <1>1, <2>2, <2>4, <2>5, <2>6, <3>1, <3>2, <1>f DEF WorkersOk
  <2>12. PlacesOk'
    BY <1>1, <2>1, <2>2 DEF CreationInv, PlacesOk
  <2> QED
    BY <1>1, <2>2, <2>7, <2>9, <2>10, <2>11, <2>12, WorkerTypes, SendlessFrame
<1> QED
  BY <1>2, <1>3

\* A worker announces itself.
LEMMA AnnounceStep ==
  ASSUME CreationInv, Fixed, NEW w \in Workers, Announce(w),
         UNCHANGED <<loopVars, votorVars, replayVars, recorderVars>>
  PROVE  CreationInv'
<1>1. /\ worker[w].pc = "Loaded" /\ worker' = [worker EXCEPT ![w].pc = "Added"]
      /\ UNCHANGED <<word, queue, indexes, banks, panicked, buffer>>
  BY DEF Announce, channelVars, Goto
<1>f. UNCHANGED <<track, own, others, loop, working, stream>>
  BY WorkerFrame
<1>2. /\ worker' \in [Workers -> WorkerRecords] /\ buffer' \subseteq Nat
      /\ worker'[w].pc = "Added" /\ worker'[w].seen = worker[w].seen
      /\ worker'[w].bank = worker[w].bank /\ worker'[w].tx = worker[w].tx
      /\ \A v \in Workers : v # w => worker'[v] = worker[v]
  BY <1>1, WorkerTypes DEF WorkerRecords
<1>3. UnsentIn(worker, buffer)' \subseteq UnsentIn(worker, buffer)
  BY <1>1, <1>2 DEF UnsentIn
<1>4. ReservedIn(worker') = ReservedIn(worker)
  BY <1>1, <1>2 DEF ReservedIn
<1>5. WordOk'
  BY <1>1, <1>4, <1>f DEF CreationInv, ChannelOk, WordOk, Open
<1>6. EmptyOk'
  BY <1>1, <1>2, <1>f DEF CreationInv, ChannelOk, EmptyOk, Emptied
<1>7. WorkersOk'
  BY <1>1, <1>2, <1>f DEF CreationInv, ChannelOk, WorkersOk, HoldsFreezeLock, Announced
<1>8. PlacesOk'
  BY <1>1, <1>2 DEF CreationInv, PlacesOk
<1> QED
  BY <1>1, <1>2, <1>3, <1>5, <1>6, <1>7, <1>8, WorkerTypes, SendlessFrame

\* A worker reserves an insertion or has to try again.
LEMMA ReserveStep ==
  ASSUME CreationInv, Fixed, NEW w \in Workers, Reserve(w),
         UNCHANGED <<loopVars, votorVars, replayVars, recorderVars>>
  PROVE  CreationInv'
<1>1. worker[w].pc = "Added" /\ UNCHANGED <<queue, indexes, banks, panicked, buffer>>
  BY DEF Reserve
<1>f. UNCHANGED <<track, own, others, loop, working, stream>>
  BY WorkerFrame
<1>2. CASE word = worker[w].seen
  <2>1. word' = Encoded(BankIdOf(word), AllowedOf(word) - 1) /\ worker' = [worker EXCEPT ![w].pc = "Reserved"]
    BY <1>2 DEF Reserve, Goto
  <2>2. /\ worker' \in [Workers -> WorkerRecords] /\ buffer' \subseteq Nat
        /\ worker'[w].pc = "Reserved" /\ worker'[w].seen = worker[w].seen
        /\ worker'[w].bank = worker[w].bank /\ worker'[w].tx = worker[w].tx
        /\ \A v \in Workers : v # w => worker'[v] = worker[v]
    BY <1>1, <2>1, WorkerTypes DEF WorkerRecords
  <2>3. PICK a \in 0 .. Capacity :
          /\ word = Encoded(IF Open THEN working ELSE Disabled, a)
          /\ a + Len(queue) + Cardinality(ReservedIn(worker)) <= Capacity
    BY DEF CreationInv, ChannelOk, WordOk
  <2>4. PICK b \in 1 .. Capacity : worker[w].seen = Encoded(worker[w].bank, b)
    BY <1>1 DEF CreationInv, ChannelOk, WorkersOk
  <2>5. worker[w].bank \in 1 .. Len(banks)
    BY <1>1 DEF CreationInv, ChannelOk, WorkersOk
  <2>6. BankIdOf(word) = worker[w].bank /\ AllowedOf(word) = b
    <3>1. worker[w].bank \in Nat /\ b \in 0 .. Capacity
      BY WorkerTypes
    <3> QED
      BY <1>2, <2>4, <3>1, WordFacts
  <2>7. Open /\ AllowedOf(word) = a /\ BankIdOf(word) = working
    <3>1. CASE Open
      BY <3>1, <2>3, WordFacts, WorkerTypes
    <3>2. CASE ~Open
      <4>1. BankIdOf(word) = Disabled
        BY <3>2, <2>3, WordFacts, WorkerTypes
      <4> QED
        BY <4>1, <2>5, <2>6, WorkerTypes
    <3> QED
      BY <3>1, <3>2
  <2>8. a >= 1 /\ a - 1 \in 0 .. Capacity /\ word' = Encoded(working, a - 1)
    BY <2>1, <2>6, <2>7, WorkerTypes
  <2>9. word' \in Int
    BY <2>8, WordFacts, WorkerTypes
  <2>10. /\ IsFiniteSet(ReservedIn(worker)) /\ ReservedIn(worker') = ReservedIn(worker) \cup {w}
         /\ w \notin ReservedIn(worker)
    BY <1>1, <2>2, ChannelAssumption, FS_Subset DEF ReservedIn
  <2>11. Cardinality(ReservedIn(worker')) = Cardinality(ReservedIn(worker)) + 1
         /\ Cardinality(ReservedIn(worker)) \in Nat
    BY <2>10, FS_AddElement, FS_CardinalityType
  <2>12. WordOk'
    <3>1. (a - 1) + Len(queue') + Cardinality(ReservedIn(worker')) <= Capacity
      BY <1>1, <2>3, <2>11, WorkerTypes
    <3>2. Open'
      BY <2>7, <1>f DEF Open
    <3> QED
      BY <3>1, <3>2, <2>8, <1>f DEF WordOk
  <2>13. EmptyOk'
    <3>1. ~Emptied /\ loop.pc # "Recheck"
      BY <2>7 DEF Open, Emptied, Starting
    <3> QED
      BY <3>1, <1>1, <1>f DEF CreationInv, ChannelOk, EmptyOk, Emptied
  <2>14. WorkersOk'
    BY <1>1, <2>2, <1>f DEF CreationInv, ChannelOk, WorkersOk, HoldsFreezeLock, Announced
  <2>15. PlacesOk'
    BY <1>1, <2>2 DEF CreationInv, PlacesOk
  <2>16. UnsentIn(worker, buffer)' \subseteq UnsentIn(worker, buffer)
    BY <1>1, <2>2 DEF UnsentIn
  <2> QED
    BY <1>1, <2>2, <2>9, <2>12, <2>13, <2>14, <2>15, <2>16, SendlessFrame
<1>3. CASE word # worker[w].seen
  <2>1. worker' = [worker EXCEPT ![w].pc = "Retry", ![w].seen = 0] /\ word' = word
    BY <1>3 DEF Reserve
  <2>0. worker'[w] = [worker[w] EXCEPT !.pc = "Retry", !.seen = 0] /\ worker[w] \in WorkerRecords
    BY <2>1, WorkerTypes
  <2>z. PICK z \in Int : z = 0
    OBVIOUS
  <2>a. worker'[w] \in WorkerRecords
    BY <2>0, <2>z DEF WorkerRecords
  <2>b. /\ worker'[w].pc = "Retry" /\ worker'[w].bank = worker[w].bank /\ worker'[w].tx = worker[w].tx
    BY <2>0 DEF WorkerRecords
  <2>2. /\ worker' \in [Workers -> WorkerRecords] /\ buffer' \subseteq Nat
        /\ worker'[w].pc = "Retry"
        /\ worker'[w].bank = worker[w].bank /\ worker'[w].tx = worker[w].tx
        /\ \A v \in Workers : v # w => worker'[v] = worker[v]
    BY <1>1, <2>1, <2>a, <2>b, WorkerTypes
  <2>3. UnsentIn(worker, buffer)' \subseteq UnsentIn(worker, buffer)
    BY <1>1, <2>2 DEF UnsentIn
  <2>4. ReservedIn(worker') = ReservedIn(worker)
    BY <1>1, <2>2 DEF ReservedIn
  <2>5. WordOk'
    BY <1>1, <2>1, <2>4, <1>f DEF CreationInv, ChannelOk, WordOk, Open
  <2>6. EmptyOk'
    BY <1>1, <2>2, <1>f DEF CreationInv, ChannelOk, EmptyOk, Emptied
  <2>7. WorkersOk'
    BY <1>1, <2>2, <1>f DEF CreationInv, ChannelOk, WorkersOk, HoldsFreezeLock, Announced
  <2>8. PlacesOk'
    BY <1>1, <2>2 DEF CreationInv, PlacesOk
  <2> QED
    BY <1>1, <2>1, <2>2, <2>3, <2>5, <2>6, <2>7, <2>8, WorkerTypes, SendlessFrame
<1> QED
  BY <1>2, <1>3

\* The types of the loop.
LEMMA LoopTypesHold ==
  ASSUME CreationInv
  PROVE  /\ loop \in LoopRecords /\ loop.slot \in Slots /\ loop.end \in Slots /\ loop.acc \in Seq(Nat)
         /\ loop.pc \in {"Wait", "Start", "Insert", "Restart", "Record", "Drain", "CheckActive",
                         "Recheck", "Quiesce", "Freeze"}
         /\ loop.parent \in [slot : Int, id : Int] /\ loop.optimistic \in BOOLEAN /\ loop.shut \in BOOLEAN
         /\ stream \in [Slots -> Seq(Items)] /\ Stream \in Seq(Items) /\ forks \in [Slots -> Int]
         /\ MaxSlot \in Nat /\ WindowSize \in Nat /\ OtherSlot \in Nat
<1>1. loop \in LoopRecords /\ stream \in [Slots -> Seq(Items)] /\ forks \in [Slots -> Int]
  BY DEF CreationInv, TypesOk, LoopTypes
<1>2. /\ loop.slot \in Slots /\ loop.end \in Slots /\ loop.acc \in Seq(Nat)
      /\ loop.parent \in [slot : Int, id : Int] /\ loop.optimistic \in BOOLEAN /\ loop.shut \in BOOLEAN
  BY <1>1 DEF LoopRecords
<1>3. loop.pc \in {"Wait", "Start", "Insert", "Restart", "Record", "Drain", "CheckActive",
                   "Recheck", "Quiesce", "Freeze"}
  BY <1>1 DEF LoopRecords
<1>4. Stream \in Seq(Items)
  BY <1>1, <1>2 DEF Stream
<1>5. MaxSlot \in Nat /\ WindowSize \in Nat /\ OtherSlot \in Nat
  BY BoundsAssumption DEF OtherSlot
<1> QED
  BY <1>1, <1>2, <1>3, <1>4, <1>5

\* A worker inserts its record: the channel has room, and the transaction is accepted.
LEMMA SendStep ==
  ASSUME CreationInv, Fixed, NEW w \in Workers, Send(w),
         UNCHANGED <<loopVars, votorVars, replayVars, recorderVars>>
  PROVE  CreationInv'
<1> DEFINE rec == [bank |-> worker[w].bank, tx |-> worker[w].tx]
           c == [tx |-> worker[w].tx, index |-> indexes]
<1>1. /\ worker[w].pc = "Reserved" /\ queue' = Append(queue, rec) /\ panicked' = (Len(queue) >= Capacity)
      /\ worker' = [worker EXCEPT ![w].pc = "Commit", ![w].seen = 0, ![w].index = indexes]
      /\ indexes' = (IF track THEN indexes + 1 ELSE indexes)
      /\ UNCHANGED <<word, buffer, banks>>
  BY DEF Send
<1>f. UNCHANGED <<track, own, others, loop, stash, parent_ready, ready, optimistic, forks, working, stream>>
  BY WorkerFrame
<1>2. /\ worker'[w] = [worker[w] EXCEPT !.pc = "Commit", !.seen = 0, !.index = indexes]
      /\ worker[w] \in WorkerRecords /\ indexes \in Nat /\ worker[w].bank \in Nat /\ worker[w].tx \in Nat
  BY <1>1, WorkerTypes
<1>z. PICK z \in Int : z = 0
  OBVIOUS
<1>3. worker'[w] \in WorkerRecords
  BY <1>2, <1>z DEF WorkerRecords
<1>4. /\ worker'[w].pc = "Commit" /\ worker'[w].bank = worker[w].bank /\ worker'[w].tx = worker[w].tx
      /\ worker'[w].index = indexes
  BY <1>2 DEF WorkerRecords
<1>5. /\ worker' \in [Workers -> WorkerRecords]
      /\ \A v \in Workers : v # w => worker'[v] = worker[v]
  BY <1>1, <1>3, WorkerTypes
<1>6. rec \in QueueRecords /\ rec.bank = worker[w].bank /\ rec.tx = worker[w].tx
  BY <1>2 DEF QueueRecords
<1>7. working # None /\ worker[w].bank = working
  BY <1>1 DEF CreationInv, ChannelOk, WorkersOk, HoldsFreezeLock, Announced
<1> HIDE DEF rec
<1>8. /\ queue \in Seq(QueueRecords) /\ queue' \in Seq(QueueRecords) /\ Len(queue') = Len(queue) + 1
      /\ queue'[Len(queue) + 1] = rec /\ \A i \in 1 .. Len(queue) : queue'[i] = queue[i]
      /\ DOMAIN queue = 1 .. Len(queue) /\ DOMAIN queue' = 1 .. Len(queue) + 1 /\ Len(queue) \in Nat
  BY <1>1, <1>6, WorkerTypes
<1>9. PICK a \in 0 .. Capacity :
        /\ word = Encoded(IF Open THEN working ELSE Disabled, a)
        /\ a + Len(queue) + Cardinality(ReservedIn(worker)) <= Capacity
  BY DEF CreationInv, ChannelOk, WordOk
<1>10. /\ IsFiniteSet(ReservedIn(worker)) /\ ReservedIn(worker') = ReservedIn(worker) \ {w}
       /\ w \in ReservedIn(worker)
  BY <1>1, <1>4, <1>5, ChannelAssumption, FS_Subset DEF ReservedIn
<1>11. Cardinality(ReservedIn(worker')) = Cardinality(ReservedIn(worker)) - 1
       /\ Cardinality(ReservedIn(worker)) \in Nat /\ Cardinality(ReservedIn(worker')) \in Nat
  BY <1>10, FS_RemoveElement, FS_CardinalityType, FS_Subset
<1>c. Cardinality(ReservedIn(worker)) >= 1 /\ Capacity \in Nat
  BY ONLY <1>11, ChannelAssumption
<1>12. ~panicked'
  <2>1. ~(Len(queue) >= Capacity)
    <3> DEFINE card == Cardinality(ReservedIn(worker))
               n == Len(queue)
    <3>1. card \in Nat /\ card >= 1 /\ n \in Nat /\ a + n + card <= Capacity /\ Capacity \in Nat /\ a \in 0 .. Capacity
      BY <1>8, <1>9, <1>11, <1>c
    <3> HIDE DEF card, n
    <3>2. ~(n >= Capacity)
      BY ONLY <3>1
    <3> QED
      BY ONLY <3>2 DEF n
  <2> QED
    BY <2>1, <1>1
<1>13. WordOk'
  <2>1. a + Len(queue') + Cardinality(ReservedIn(worker')) <= Capacity
    BY <1>8, <1>9, <1>11, WorkerTypes
  <2> QED
    BY <2>1, <1>1, <1>9, <1>f DEF WordOk, Open
<1>14. ~Emptied /\ loop.pc # "Recheck"
  BY <1>1 DEF CreationInv, ChannelOk, EmptyOk
<1>15. EmptyOk'
  <2>1. ASSUME NEW i \in DOMAIN queue' PROVE queue'[i].bank = working' /\ working' # None
    <3>1. i \in 1 .. Len(queue) \/ i = Len(queue) + 1
      BY <1>8
    <3> QED
      BY <3>1, <1>6, <1>7, <1>8, <1>f DEF CreationInv, ChannelOk, EmptyOk
  <2> QED
    BY <2>1, <1>14, <1>f DEF EmptyOk, Emptied
<1>16. WorkersOk'
  BY <1>1, <1>4, <1>5, <1>f DEF CreationInv, ChannelOk, WorkersOk, HoldsFreezeLock, Announced
<1>17. PlacesOk'
  BY <1>1, <1>4, <1>5 DEF CreationInv, PlacesOk
<1>18. ChannelTypes' /\ WorkingOk'
  BY <1>1, <1>5, <1>8, <1>f DEF CreationInv, TypesOk, ChannelTypes, ControlOk, WorkingOk
<1>19. ForksOk' /\ BankOk'
  BY <1>1, <1>f DEF CreationInv, ForksOk, BlockOk, BankOk
<1>20. DoneOk'
  BY <1>1, <1>f, DoneFrame
<1>21. HandoverOk'
  BY <1>14, <1>f DEF HandoverOk, Marked, Emptied
<1>22. ASSUME Recording PROVE RecordingOk'
  <2> DEFINE U == UpdateOf(Stream)
             n == (Len(Stream) - U) + Len(queue)
  <2>1. BodyFrom(Stream, U) /\ Stream \in Seq(Items)
    BY <1>22, LoopTypesHold DEF CreationInv, BlockOk, BodyOk
  <2>2. U \in 0 .. Len(Stream)
    BY <2>1 DEF BodyFrom
  <2>s. Stream' = Stream
    BY <1>f DEF Stream
  <2> HIDE DEF U
  <2>3. Sent = SentFrom(Stream, U, queue) /\ Sent' = SentFrom(Stream, U, Append(queue, rec))
    BY <1>1, <2>s DEF Sent, U
  <2>4. /\ n \in Nat /\ DOMAIN Sent = 1 .. n /\ DOMAIN Sent' = 1 .. n + 1
        /\ \A i \in 1 .. n : Sent'[i] = Sent[i]
        /\ Sent'[n + 1] = c.tx
    BY <2>1, <2>2, <2>3, <1>6, <1>8, SentAppend
  <2>5. Accepted' = Accepted \cup {c}
    BY <1>1, <1>4, <1>5, <1>f DEF Accepted, AcceptedIn
  <2>6. /\ Agree(Sent, Accepted, track) /\ (track => indexes = n)
        /\ \A i \in DOMAIN Sent : Sent[i] \notin UnsentIn(worker, buffer)
        /\ loop.optimistic \/ loop.then = "Handover" =>
             ToSet(loop.acc) = {Stream[i].tx : i \in U + 1 .. Len(Stream)}
    BY <1>22 DEF CreationInv, BlockOk, RecordingOk, U
  <2>7. worker[w].tx \in UnsentIn(worker, buffer)
    BY <1>1 DEF UnsentIn
  <2>8. UnsentIn(worker', buffer') \subseteq UnsentIn(worker, buffer)
    BY <1>1, <1>4, <1>5 DEF UnsentIn
  <2>9. worker[w].tx \notin UnsentIn(worker', buffer')
    BY <1>1, <1>4, <1>5 DEF UnsentIn, CreationInv, PlacesOk
  <2>10. Agree(Sent', Accepted', track)
    <3>1. c.tx = worker[w].tx /\ c.index = indexes
      OBVIOUS
    <3> HIDE DEF c
    <3>2. \A i \in 1 .. n : Sent[i] # c.tx
      BY <2>4, <2>6, <2>7, <3>1
    <3> QED
      BY <2>4, <2>5, <2>6, <3>1, <3>2, AgreeSend
  <2>11. track => indexes' = (Len(Stream) - U) + Len(queue')
    BY <1>1, <1>8, <2>2, <2>6
  <2>12. ASSUME NEW i \in DOMAIN Sent' PROVE Sent'[i] \notin UnsentIn(worker', buffer')
    <3>1. i \in 1 .. n \/ i = n + 1
      BY <2>4
    <3> QED
      BY <3>1, <2>4, <2>6, <2>8, <2>9
  <2> QED
    BY <2>6, <2>10, <2>11, <2>12, <2>s, <1>f DEF RecordingOk, U
<1>23. RecordingOk'
  <2>1. Recording' = Recording
    BY <1>f DEF Recording, Marked
  <2> QED
    BY <2>1, <1>22 DEF RecordingOk
<1> QED
  BY <1>12, <1>13, <1>15, <1>16, <1>17, <1>18, <1>19, <1>20, <1>21, <1>23, WorkerFrame
  DEF CreationInv, TypesOk, ControlOk, ChannelOk, BlockOk

\* A worker commits to its bank what it has sent.
LEMMA CommitStep ==
  ASSUME CreationInv, Fixed, NEW w \in Workers, Commit(w),
         UNCHANGED <<loopVars, votorVars, replayVars, recorderVars>>
  PROVE  CreationInv'
<1> DEFINE k == worker[w].bank
           c == [tx |-> worker[w].tx, index |-> worker[w].index]
<1>1. /\ worker[w].pc = "Commit"
      /\ banks' = [banks EXCEPT ![k].committed = @ \cup {c}]
      /\ worker' = [worker EXCEPT ![w] = IdleWorker]
      /\ UNCHANGED <<word, queue, indexes, buffer, panicked>>
  BY DEF Commit, channelVars
<1>f. UNCHANGED <<track, own, others, loop, stash, parent_ready, ready, optimistic, forks, working, stream>>
  BY WorkerFrame
<1>2. /\ k = working /\ working # None /\ loop.pc \notin {"Freeze", "Restart"}
      /\ working \in 1 .. Len(banks) /\ banks \in Seq(BankRecords)
  BY <1>1, WorkerTypes DEF CreationInv, ChannelOk, WorkersOk, HoldsFreezeLock
<1>3. c \in CommittedItems
  BY WorkerTypes DEF CommittedItems, WorkerRecords
<1> HIDE DEF k, c
<1>4. /\ DOMAIN banks = 1 .. Len(banks) /\ DOMAIN banks' = DOMAIN banks
      /\ banks'[working] = [banks[working] EXCEPT !.committed = @ \cup {c}]
      /\ \A j \in DOMAIN banks : j # working => banks'[j] = banks[j]
      /\ \A j \in DOMAIN banks : banks[j] \in BankRecords
  <2>1. banks' = [banks EXCEPT ![working].committed = @ \cup {c}]
    BY <1>1, <1>2
  <2>2. DOMAIN banks = 1 .. Len(banks) /\ \A j \in DOMAIN banks : banks[j] \in BankRecords
    BY <1>2
  <2>3. DOMAIN banks' = DOMAIN banks /\ \A j \in DOMAIN banks : j # working => banks'[j] = banks[j]
    BY <2>1
  <2>4. banks'[working] = [banks[working] EXCEPT !.committed = @ \cup {c}]
    BY <2>1, <2>2, <1>2
  <2> QED
    BY <2>2, <2>3, <2>4
<1>5. /\ banks'[working] \in BankRecords
      /\ banks'[working].slot = banks[working].slot /\ banks'[working].parent = banks[working].parent
      /\ banks'[working].committed = banks[working].committed \cup {c}
      /\ banks'[working].frozen = banks[working].frozen
  <2>1. banks[working] \in BankRecords
    BY <1>2, <1>4
  <2> QED
    BY <2>1, <1>3, <1>4 DEF BankRecords
<1>6. banks' \in Seq(BankRecords) /\ Len(banks') = Len(banks)
  <2>1. \A j \in 1 .. Len(banks) : banks'[j] \in BankRecords
    BY <1>4, <1>5
  <2>2. banks' = [j \in 1 .. Len(banks) |-> banks'[j]]
    BY <1>1, <1>4
  <2>3. banks' \in [1 .. Len(banks) -> BankRecords]
    BY <2>1, <2>2
  <2> QED
    BY <1>2, <2>3, WorkerTypes, SeqDef
<1>7. IdleWorker \in WorkerRecords /\ IdleWorker.pc = "Idle"
  BY DEF WorkerRecords, IdleWorker, None
<1>8. /\ worker' \in [Workers -> WorkerRecords] /\ worker'[w] = IdleWorker
      /\ \A v \in Workers : v # w => worker'[v] = worker[v]
  BY <1>1, <1>7, WorkerTypes
<1>9. ReservedIn(worker') = ReservedIn(worker)
  BY <1>1, <1>7, <1>8 DEF ReservedIn
<1>10. WordOk'
  BY <1>1, <1>9, <1>f DEF CreationInv, ChannelOk, WordOk, Open
<1>11. EmptyOk'
  BY <1>1, <1>7, <1>8, <1>f DEF CreationInv, ChannelOk, EmptyOk, Emptied
<1>12. WorkersOk'
  BY <1>1, <1>6, <1>7, <1>8, <1>f DEF CreationInv, ChannelOk, WorkersOk, HoldsFreezeLock, Announced
<1>13. PlacesOk'
  BY <1>1, <1>7, <1>8 DEF CreationInv, PlacesOk
<1>14. ChannelTypes' /\ WorkingOk'
  BY <1>1, <1>6, <1>8, <1>f DEF CreationInv, TypesOk, ChannelTypes, ControlOk, WorkingOk
<1>15. ForksOk'
  BY <1>4, <1>5, <1>f DEF CreationInv, ForksOk
<1>16. BankOk'
  BY <1>2, <1>5, <1>f DEF CreationInv, BlockOk, BankOk
<1>17. UnsentIn(worker', buffer') \subseteq UnsentIn(worker, buffer)
  BY <1>1, <1>7, <1>8 DEF UnsentIn
<1>18. Accepted' = Accepted
  BY <1>1, <1>5, <1>7, <1>8, <1>f DEF Accepted, AcceptedIn, c
<1>19. loop.pc \notin Starting \cup {"Wait"}
  BY <1>2 DEF CreationInv, ControlOk, WorkingOk, Starting
<1>20. RecordingOk' /\ HandoverOk'
  BY <1>1, <1>17, <1>18, <1>19, <1>f, SameSent
<1>21. DoneOk'
  <2> SUFFICES ASSUME NEW s \in Slots, Footer \in ToSet(stream[s])
               PROVE  \E i \in DOMAIN banks' :
                        /\ IsLast(banks', s, i) /\ Matches(stream[s], banks'[i], track)
                        /\ s \in own => ready[s] # NoBlock /\ banks'[i].parent = ready[s]
    BY <1>f DEF DoneOk
  <2>1. PICK i \in DOMAIN banks :
          /\ IsLast(banks, s, i) /\ Matches(stream[s], banks[i], track)
          /\ s \in own => ready[s] # NoBlock /\ banks[i].parent = ready[s]
    BY DEF CreationInv, BlockOk, DoneOk
  <2>2. s # loop.slot
    BY <1>19, ItemFacts DEF CreationInv, BlockOk, StreamOk, Stream, ToSet
  <2>3. banks[working].slot = loop.slot
    <3>1. loop.pc \in {"Restart", "Record", "Quiesce", "Freeze"} \cup Draining
      BY <1>19, LoopTypesHold DEF Starting, Draining
    <3> QED
      BY <3>1, <1>2 DEF CreationInv, BlockOk, BankOk
  <2>4. i # working
    BY <2>1, <2>2, <2>3 DEF IsLast
  <2>5. banks'[i] = banks[i] /\ \A j \in DOMAIN banks : banks'[j].slot = banks[j].slot
    BY <2>1, <2>4, <1>4, <1>5
  <2>6. IsLast(banks', s, i)
    BY <2>1, <2>5, <1>4 DEF IsLast
  <2> QED
    BY <2>1, <2>5, <2>6, <1>4
<1> QED
  BY <1>1, <1>10, <1>11, <1>12, <1>13, <1>14, <1>15, <1>16, <1>20, <1>21, WorkerFrame
  DEF CreationInv, TypesOk, ControlOk, ChannelOk, BlockOk

\* Any step of a worker that has a transaction.
LEMMA WorkerStep ==
  ASSUME CreationInv, Fixed, NEW w \in Workers, WorkerGoesOn(w)
  PROVE  CreationInv'
  BY LoadStep, AnnounceStep, ReserveStep, SendStep, CommitStep DEF WorkerGoesOn, InFlight

-----------------------------------------------------------------------------
(* The loop turns elsewhere. *)

\* The variables that a step of the loop which only turns elsewhere leaves alone.
Kept ==
  /\ ~panicked => ~panicked'
  /\ UNCHANGED <<queue, indexes, worker, buffer, banks, forks, working, stream, ready>>

\* The loop turns elsewhere in the same slot.
LEMMA TurnFrame ==
  ASSUME CreationInv, Fixed, Kept, loop' \in LoopRecords, loop.pc # "Wait",
         loop'.slot = loop.slot, loop'.end = loop.end, loop'.pc \notin {"Freeze", "Restart"},
         (word' = word /\ (Open' <=> Open)) \/ (word' = Shutdown /\ ~Open')
  PROVE  /\ ~panicked' /\ ChannelTypes' /\ LoopTypes' /\ ScheduleOk' /\ WordOk' /\ WorkersOk'
         /\ ForksOk' /\ PlacesOk' /\ StreamOk' /\ DoneOk'
<1>1. UNCHANGED <<track, own, others, queue, indexes, worker, buffer, banks, forks, working, stream, ready>>
  BY DEF Fixed, Kept
<1>2. WordOk' /\ word' \in Int
  <2>1. CASE word' = word /\ (Open' <=> Open)
    BY <1>1, <2>1, WorkerTypes DEF CreationInv, ChannelOk, WordOk
  <2>2. CASE word' = Shutdown /\ ~Open'
    <3>1. PICK a \in 0 .. Capacity : a + Len(queue) + Cardinality(ReservedIn(worker)) <= Capacity
      BY DEF CreationInv, ChannelOk, WordOk
    <3>2. IsFiniteSet(ReservedIn(worker))
      BY ChannelAssumption, FS_Subset DEF ReservedIn
    <3>3. Cardinality(ReservedIn(worker)) \in Nat /\ Len(queue) \in Nat /\ 0 \in 0 .. Capacity
      BY <3>2, FS_CardinalityType, WorkerTypes
    <3>4. 0 + Len(queue) + Cardinality(ReservedIn(worker)) <= Capacity
      BY <3>1, <3>3, WorkerTypes
    <3>5. word' = Encoded(Disabled, 0)
      BY <2>2 DEF Shutdown
    <3>6. word' \in Int
      <4>1. Disabled \in Nat /\ 0 \in 0 .. Capacity
        BY <3>3, WorkerTypes
      <4>2. Encoded(Disabled, 0) \in Nat
        BY <4>1, WordFacts
      <4> QED
        BY <3>5, <4>2
    <3> QED
      BY <1>1, <2>2, <3>3, <3>4, <3>5, <3>6 DEF WordOk
  <2> QED
    BY <2>1, <2>2
<1>3. ~panicked' /\ ChannelTypes' /\ LoopTypes' /\ ScheduleOk' /\ PlacesOk'
  BY <1>1, <1>2 DEF CreationInv, TypesOk, ChannelTypes, LoopTypes, ScheduleOk, PlacesOk, Kept
<1>4. WorkersOk'
  BY <1>1 DEF CreationInv, ChannelOk, WorkersOk, HoldsFreezeLock
<1>5. ForksOk' /\ StreamOk'
  BY <1>1 DEF CreationInv, BlockOk, ForksOk, StreamOk, Stream
<1>6. DoneOk'
  BY <1>1, DoneFrame
<1> QED
  BY <1>2, <1>3, <1>4, <1>5, <1>6

\* A block is being recorded and goes on to be.
LEMMA KeepRecording ==
  ASSUME CreationInv, Fixed, Kept, Recording, loop'.slot = loop.slot,
         loop'.pc \notin Starting, ~Marked',
         loop'.optimistic \/ loop'.then = "Handover" =>
           loop'.acc = loop.acc /\ (loop.optimistic \/ loop.then = "Handover"),
         loop'.then # "Handover" => loop'.parent = loop.parent /\ loop.then # "Handover"
  PROVE  RecordingOk' /\ BodyOk' /\ HandoverOk' /\ BankOk'
<1>1. UNCHANGED <<track, own, others, queue, indexes, worker, buffer, banks, forks, working, stream, ready>>
      /\ Stream' = Stream
  BY DEF Fixed, Kept, Stream
<1>2. RecordingOk'
  BY <1>1 DEF CreationInv, BlockOk, RecordingOk, Sent, Accepted
<1>3. BodyOk'
  BY <1>1 DEF CreationInv, BlockOk, BodyOk
<1>4. HandoverOk'
  BY DEF HandoverOk
<1>5. working # None
  BY DEF CreationInv, ControlOk, WorkingOk, Recording
<1>6. loop.pc \in {"Restart", "Record", "Quiesce", "Freeze"} \cup Draining /\ loop.then \notin {"MovedOn", "Failed"}
  BY DEF Recording
<1>7. BankOk'
  BY <1>1, <1>5, <1>6 DEF CreationInv, BlockOk, BankOk, Starting
<1> QED
  BY <1>2, <1>3, <1>4, <1>7

\* The block is given up: nothing is claimed of it any more.
LEMMA DropStep ==
  ASSUME CreationInv, Fixed, Kept, AnnouncedOk', loop.pc # "Wait",
         NEW th \in {"MovedOn", "Failed"}, NEW p \in {"Drain", "Quiesce"},
         loop' = [loop EXCEPT !.pc = p, !.then = th],
         p = "Drain" => word' = Shutdown,
         p = "Quiesce" => word' = word /\ loop.pc = "Record" /\ loop.shut,
         th = "MovedOn" => loop.pc = "Record"
  PROVE  CreationInv'
<1>1. UNCHANGED <<track, own, others, queue, indexes, worker, buffer, banks, forks, working, stream, ready>>
  BY DEF Fixed, Kept
<1>2. /\ loop' \in LoopRecords /\ loop'.pc = p /\ loop'.then = th /\ loop'.slot = loop.slot
      /\ loop'.end = loop.end /\ loop'.parent = loop.parent /\ loop'.optimistic = loop.optimistic
      /\ loop'.shut = loop.shut /\ loop'.acc = loop.acc
  BY LoopTypesHold DEF LoopRecords
<1>3. ~Open' /\ (p = "Quiesce" => ~Open)
  BY <1>2 DEF Open
<1>4. /\ ~panicked' /\ ChannelTypes' /\ LoopTypes' /\ ScheduleOk' /\ WordOk' /\ WorkersOk'
      /\ ForksOk' /\ PlacesOk' /\ StreamOk' /\ DoneOk'
  BY <1>2, <1>3, TurnFrame
<1>5. PcsOk'
  BY <1>2 DEF PcsOk, Starting
<1>6. WorkingOk'
  BY <1>1, <1>2 DEF CreationInv, ControlOk, WorkingOk, Draining
<1>7. WindowOk'
  BY <1>1, <1>2 DEF CreationInv, ControlOk, WindowOk
<1>8. EmptyOk'
  BY <1>1, <1>2 DEF CreationInv, ChannelOk, EmptyOk, Emptied, Starting
<1>9. BankOk'
  <2>1. working # None => loop.pc \in {"Restart", "Record", "Quiesce", "Freeze"} \cup Draining
    BY LoopTypesHold DEF CreationInv, ControlOk, WorkingOk, Draining
  <2> QED
    BY <2>1, <1>1, <1>2 DEF CreationInv, BlockOk, BankOk
<1>10. ~Recording' /\ ~Marked' /\ loop'.pc \notin Starting
  BY <1>2 DEF Recording, Marked, Starting
<1>11. BodyOk' /\ RecordingOk' /\ HandoverOk'
  BY <1>10 DEF BodyOk, RecordingOk, HandoverOk
<1> QED
  BY <1>4, <1>5, <1>6, <1>7, <1>8, <1>9, <1>11 DEF CreationInv, TypesOk, ControlOk, ChannelOk, BlockOk

\* Nothing was started: the loop looks for another window.
LEMMA IdleStep ==
  ASSUME CreationInv, Fixed, Kept, AnnouncedOk', loop' = IdleLoop, word' = word, working = None,
         Emptied \/ (loop.pc = "Recheck" /\ queue = <<>>)
  PROVE  CreationInv'
<1>1. UNCHANGED <<track, own, others, queue, indexes, worker, buffer, banks, forks, working, stream, ready>>
  BY DEF Fixed, Kept
<1>2. /\ loop' \in LoopRecords /\ loop'.pc = "Wait" /\ loop'.then = "None" /\ loop'.optimistic = FALSE
  <2>1. 0 \in Slots /\ NoBlock \in [slot : Int, id : Int] /\ <<>> \in Seq(Nat)
    BY BoundsAssumption DEF Slots, NoBlock, NoBank
  <2> QED
    BY <2>1 DEF IdleLoop, LoopRecords
<1>3. ~Open' /\ ~Open
  BY <1>2 DEF Open, CreationInv, ControlOk, WorkingOk
<1>4. ~panicked' /\ ChannelTypes' /\ LoopTypes' /\ ScheduleOk' /\ PlacesOk'
  BY <1>1, <1>2 DEF CreationInv, TypesOk, ChannelTypes, LoopTypes, ScheduleOk, PlacesOk, Kept
<1>5. WordOk'
  BY <1>1, <1>3 DEF CreationInv, ChannelOk, WordOk
<1>6. EmptyOk'
  BY <1>1 DEF CreationInv, ChannelOk, EmptyOk
<1>7. WorkersOk'
  BY <1>1, <1>2 DEF CreationInv, ChannelOk, WorkersOk, HoldsFreezeLock
<1>8. ForksOk'
  BY <1>1, WorkerTypes DEF CreationInv, ForksOk, None
<1>9. PcsOk' /\ WorkingOk' /\ WindowOk'
  BY <1>1, <1>2 DEF PcsOk, WorkingOk, WindowOk, Starting, Draining
<1>10. ~Recording' /\ ~Marked' /\ loop'.pc \notin Starting
  BY <1>2 DEF Recording, Marked, Starting, Draining
<1>11. BankOk' /\ StreamOk' /\ BodyOk' /\ RecordingOk' /\ HandoverOk'
  BY <1>1, <1>2, <1>10 DEF BankOk, StreamOk, BodyOk, RecordingOk, HandoverOk, Draining
<1>12. DoneOk'
  BY <1>1, DoneFrame
<1> QED
  BY <1>4, <1>5, <1>6, <1>7, <1>8, <1>9, <1>11, <1>12 DEF CreationInv, TypesOk, ControlOk, ChannelOk, BlockOk

\* No window is announced or taken.
LEMMA AnnouncedStay ==
  ASSUME CreationInv, Fixed, UNCHANGED <<stash, parent_ready, ready, optimistic>>
  PROVE  AnnouncedOk'
  BY DEF CreationInv, TypesOk, AnnouncedOk, Fixed

\* A block could not be started.
LEMMA StartFailsStep ==
  ASSUME CreationInv, Fixed, StartFails \/ InsertFails
  PROVE  CreationInv'
<1>1. /\ loop.pc \in {"Start", "Insert"} /\ GiveUp
      /\ UNCHANGED <<worker, buffer, banks, panicked, stash, parent_ready, ready, optimistic, forks, working, stream>>
  BY DEF StartFails, InsertFails, workerVars, votorVars, replayVars, recorderVars
<1>2. AnnouncedOk'
  BY <1>1, AnnouncedStay
<1>3. CASE loop.then = "Handover"
  <2>1. word' = Shutdown /\ loop' = [loop EXCEPT !.pc = "Drain", !.then = "Failed"] /\ UNCHANGED <<queue, indexes>>
    BY <1>1, <1>3 DEF GiveUp, DrainFor, ShutdownChannel
  <2>2. Kept
    BY <1>1, <2>1 DEF Kept
  <2> QED
    BY <1>1, <1>2, <2>1, <2>2, DropStep
<1>4. CASE loop.then # "Handover"
  <2>1. loop' = IdleLoop /\ UNCHANGED <<word, queue, indexes>>
    BY <1>1, <1>4 DEF GiveUp, channelVars
  <2>2. Kept
    BY <1>1, <2>1 DEF Kept
  <2>3. working = None /\ Emptied
    BY <1>1 DEF CreationInv, ControlOk, WorkingOk, Emptied, Starting
  <2> QED
    BY <1>2, <2>1, <2>2, <2>3, IdleStep
<1> QED
  BY <1>3, <1>4

\* The block is stopped because the cluster has moved on.
LEMMA StopForMovedOn ==
  ASSUME CreationInv, Fixed, AnnouncedOk', loop.pc = "Record", StopFor("MovedOn"),
         UNCHANGED <<worker, buffer, banks, panicked, ready, forks, working, stream>>
  PROVE  CreationInv'
<1>1. CASE loop.shut
  <2>1. loop' = [loop EXCEPT !.pc = "Quiesce", !.then = "MovedOn"] /\ UNCHANGED <<word, queue, indexes>>
    BY <1>1 DEF StopFor, channelVars
  <2>2. Kept
    BY <2>1 DEF Kept
  <2> QED
    BY <1>1, <2>1, <2>2, DropStep
<1>2. CASE ~loop.shut
  <2>1. word' = Shutdown /\ loop' = [loop EXCEPT !.pc = "Drain", !.then = "MovedOn"] /\ UNCHANGED <<queue, indexes>>
    BY <1>2 DEF StopFor, DrainFor, ShutdownChannel
  <2>2. Kept
    BY <2>1 DEF Kept
  <2> QED
    BY <2>1, <2>2, DropStep
<1> QED
  BY <1>1, <1>2

\* A later window is ready.
LEMMA MovedOnStep ==
  ASSUME CreationInv, Fixed, MovedOn
  PROVE  CreationInv'
<1>1. /\ loop.pc = "Record" /\ StopFor("MovedOn")
      /\ UNCHANGED <<worker, buffer, banks, panicked, stash, parent_ready, ready, optimistic, forks, working, stream>>
  BY DEF MovedOn, workerVars, votorVars, replayVars, recorderVars
<1> QED
  BY <1>1, AnnouncedStay, StopForMovedOn

\* A block could not be completed.
LEMMA CompletionFailsStep ==
  ASSUME CreationInv, Fixed, CompletionFails
  PROVE  CreationInv'
<1>1. /\ loop.pc \in {"Quiesce", "Freeze"}
      /\ word' = Shutdown /\ loop' = [loop EXCEPT !.pc = "Drain", !.then = "Failed"] /\ UNCHANGED <<queue, indexes>>
      /\ UNCHANGED <<worker, buffer, banks, panicked, stash, parent_ready, ready, optimistic, forks, working, stream>>
  BY DEF CompletionFails, DrainFor, ShutdownChannel, workerVars, votorVars, replayVars, recorderVars
<1>2. Kept
  BY <1>1 DEF Kept
<1> QED
  BY <1>1, <1>2, AnnouncedStay, DropStep

\* The time of the block is up.
LEMMA TimesUpStep ==
  ASSUME CreationInv, Fixed, TimesUp
  PROVE  CreationInv'
<1>1. /\ loop.pc = "Record"
      /\ UNCHANGED <<worker, buffer, banks, panicked, stash, parent_ready, ready, optimistic, forks, working, stream>>
  BY DEF TimesUp, workerVars, votorVars, replayVars, recorderVars
<1>2. PICK p \in {"Drain", "Quiesce"}, th \in {"AwaitParent", "Complete"} :
        /\ loop' = [loop EXCEPT !.pc = p, !.then = th] /\ UNCHANGED <<queue, indexes>>
        /\ p = "Drain" => word' = Shutdown
        /\ p = "Quiesce" => word' = word /\ loop.shut
        /\ th = "AwaitParent" => loop.optimistic /\ p = "Drain"
        /\ th = "Complete" => ~loop.optimistic
  <2>1. CASE loop.optimistic
    BY <2>1 DEF TimesUp, DrainFor, ShutdownChannel
  <2>2. CASE ~loop.optimistic
    BY <2>2 DEF TimesUp, StopFor, DrainFor, ShutdownChannel, channelVars
  <2> QED
    BY <2>1, <2>2
<1>3. /\ loop' \in LoopRecords /\ loop'.pc = p /\ loop'.then = th /\ loop'.slot = loop.slot
      /\ loop'.end = loop.end /\ loop'.parent = loop.parent /\ loop'.optimistic = loop.optimistic
      /\ loop'.shut = loop.shut /\ loop'.acc = loop.acc
  BY <1>2, LoopTypesHold DEF LoopRecords
<1>4. Kept /\ AnnouncedOk'
  BY <1>1, <1>2, AnnouncedStay DEF Kept
<1>5. ~Open' /\ (p = "Quiesce" => ~Open)
  BY <1>2, <1>3 DEF Open
<1>6. /\ ~panicked' /\ ChannelTypes' /\ LoopTypes' /\ ScheduleOk' /\ WordOk' /\ WorkersOk'
      /\ ForksOk' /\ PlacesOk' /\ StreamOk' /\ DoneOk'
  BY <1>1, <1>2, <1>3, <1>4, <1>5, TurnFrame
<1>7. loop.then = "None" /\ working # None
  BY <1>1 DEF CreationInv, ControlOk, PcsOk, WorkingOk
<1>8. PcsOk'
  BY <1>2, <1>3 DEF PcsOk, Starting, Draining
<1>9. WorkingOk'
  BY <1>1, <1>3, <1>7 DEF CreationInv, ControlOk, WorkingOk
<1>10. WindowOk'
  BY <1>1, <1>3, <1>7 DEF CreationInv, ControlOk, WindowOk, Fixed
<1>11. EmptyOk'
  BY <1>1, <1>2, <1>3 DEF CreationInv, ChannelOk, EmptyOk, Emptied, Starting
<1>12. Recording /\ ~Marked' /\ loop'.pc \notin Starting
  BY <1>1, <1>3, <1>7 DEF Recording, Marked, Starting
<1>13. RecordingOk' /\ BodyOk' /\ HandoverOk' /\ BankOk'
  BY <1>3, <1>4, <1>7, <1>12, KeepRecording
<1> QED
  BY <1>4, <1>6, <1>8, <1>9, <1>10, <1>11, <1>13 DEF CreationInv, TypesOk, ControlOk, ChannelOk, BlockOk

-----------------------------------------------------------------------------
(* ParentReady, and the drain. *)

\* ParentReady arrives while a block is recorded: a later window, a sad or a happy handover.
LEMMA ParentReadyStep ==
  ASSUME CreationInv, Fixed, HandleParentReady
  PROVE  CreationInv'
<1> DEFINE s == Head(parent_ready)
<1>1. /\ loop.pc = "Record" /\ parent_ready # <<>> /\ parent_ready' = Tail(parent_ready)
      /\ UNCHANGED <<worker, buffer, banks, panicked, ready, optimistic, forks, working, stream>>
  BY DEF HandleParentReady, workerVars, replayVars, recorderVars
<1>2. /\ parent_ready \in Seq(own) /\ own \subseteq WindowStarts /\ stash \in own \cup {None}
      /\ ready \in [WindowStarts -> References \cup {NoBlock}] /\ optimistic \in Seq(Offers)
      /\ \A i \in DOMAIN parent_ready : ready[parent_ready[i]] # NoBlock
      /\ stash # None => ready[stash] # NoBlock
  BY DEF CreationInv, TypesOk, AnnouncedOk, ScheduleOk
<1>3. s \in own /\ s = parent_ready[1] /\ ready[s] # NoBlock /\ s \in WindowStarts /\ s \in Nat
  <2>1. s \in own /\ s = parent_ready[1] /\ 1 \in DOMAIN parent_ready
    BY <1>1, <1>2
  <2> QED
    BY <2>1, <1>2, WindowFacts
<1>4. ready[s] \in References
  BY <1>2, <1>3
<1>5. /\ parent_ready' \in Seq(own)
      /\ \A i \in DOMAIN parent_ready' : ready[parent_ready'[i]] # NoBlock
  <2>1. parent_ready' \in Seq(own) /\ DOMAIN parent_ready' = 1 .. Len(parent_ready) - 1
        /\ Len(parent_ready) \in Nat
    BY <1>1, <1>2
  <2>2. ASSUME NEW i \in DOMAIN parent_ready' PROVE ready[parent_ready'[i]] # NoBlock
    <3>1. parent_ready'[i] = parent_ready[i + 1] /\ i + 1 \in DOMAIN parent_ready
      BY <1>1, <1>2, <2>1
    <3> QED
      BY <3>1, <1>2
  <2> QED
    BY <2>1, <2>2
<1> HIDE DEF s
<1>6. stash' = stash => AnnouncedOk'
  BY <1>1, <1>2, <1>5 DEF AnnouncedOk, Fixed
<1>7. loop.then = "None" /\ working # None
  BY <1>1 DEF CreationInv, ControlOk, PcsOk, WorkingOk
<1>8. Recording
  BY <1>1, <1>7 DEF Recording, Marked
<1>9. CASE s > loop.slot
  <2>1. stash' = Later(stash, s) /\ StopFor("MovedOn")
    <3>1. s # loop.slot
      BY <1>3, <1>9, LoopTypesHold DEF Slots
    <3> QED
      BY <1>9, <3>1 DEF HandleParentReady, s
  <2>2. stash' \in {stash, s}
    BY <2>1 DEF Later
  <2>3. AnnouncedOk'
    BY <1>1, <1>2, <1>3, <1>5, <2>2 DEF AnnouncedOk, Fixed
  <2> QED
    BY <1>1, <2>1, <2>3, StopForMovedOn
<1>10. CASE s = loop.slot /\ loop.optimistic /\ ready[s] # loop.parent
  <2>1. /\ loop' = [loop EXCEPT !.pc = "Drain", !.then = "Handover", !.parent = ready[s], !.optimistic = FALSE]
        /\ word' = Shutdown /\ UNCHANGED <<stash, queue, indexes>>
    <3>1. ~(s > loop.slot)
      BY <1>3, <1>10
    <3> QED
      BY <1>10, <3>1 DEF HandleParentReady, ShutdownChannel, s
  <2>2. ready[s].slot \in Slots /\ ready[s].id \in Nat /\ ready[s] \in [slot : Int, id : Int]
    <3>1. ready[s] \in References
      BY <1>4, <1>10
    <3>2. ready[s] \in [slot : Slots, id : Nat]
      BY ONLY <3>1 DEF References
    <3>3. ready[s].slot \in Slots /\ ready[s].id \in Nat
      BY ONLY <3>2
    <3>4. Slots \subseteq Int
      BY ONLY LoopTypesHold, CreationInv DEF Slots
    <3>5. Nat \subseteq Int
      OBVIOUS
    <3>6. [slot : Slots, id : Nat] \subseteq [slot : Int, id : Int]
      BY ONLY <3>4, <3>5
    <3> QED
      BY ONLY <3>2, <3>3, <3>6
  <2>3. loop' \in LoopRecords
    BY <2>1, <2>2, LoopTypesHold DEF LoopRecords
  <2>4. /\ loop'.pc = "Drain" /\ loop'.then = "Handover" /\ loop'.slot = loop.slot
        /\ loop'.end = loop.end /\ loop'.parent = ready[s] /\ loop'.optimistic = FALSE
        /\ loop'.shut = loop.shut /\ loop'.acc = loop.acc
    BY <2>1, LoopTypesHold DEF LoopRecords
  <2>5. Kept /\ AnnouncedOk'
    BY <1>1, <1>6, <2>1 DEF Kept
  <2>6. ~Open'
    BY <2>4 DEF Open
  <2>7. /\ ~panicked' /\ ChannelTypes' /\ LoopTypes' /\ ScheduleOk' /\ WordOk' /\ WorkersOk'
        /\ ForksOk' /\ PlacesOk' /\ StreamOk' /\ DoneOk'
    BY <1>1, <2>1, <2>3, <2>4, <2>5, <2>6, TurnFrame
  <2>8. PcsOk'
    BY <2>4 DEF PcsOk, Starting, Draining
  <2>9. WorkingOk'
    BY <1>1, <1>7, <2>4 DEF CreationInv, ControlOk, WorkingOk
  <2>10. WindowOk'
    <3>1. AnyId # ready[s].id
      BY <2>2 DEF AnyId
    <3> QED
      BY <1>1, <1>3, <1>10, <2>2, <2>4, <3>1 DEF CreationInv, ControlOk, WindowOk, Fixed
  <2>11. EmptyOk'
    BY <1>1, <2>1, <2>4 DEF CreationInv, ChannelOk, EmptyOk, Emptied, Starting
  <2>12. ~Marked' /\ loop'.pc \notin Starting
    BY <2>4 DEF Marked, Starting
  <2>13. RecordingOk' /\ BodyOk' /\ HandoverOk' /\ BankOk'
    BY <1>8, <1>10, <2>4, <2>5, <2>12, KeepRecording
  <2> QED
    BY <2>5, <2>7, <2>8, <2>9, <2>10, <2>11, <2>13 DEF CreationInv, TypesOk, ControlOk, ChannelOk, BlockOk
<1>11. CASE s = loop.slot /\ loop.optimistic /\ ready[s] = loop.parent
  <2>1. loop' = [loop EXCEPT !.optimistic = FALSE, !.acc = <<>>] /\ UNCHANGED <<stash, word, queue, indexes>>
    <3>1. ~(s > loop.slot)
      BY <1>3, <1>11
    <3> QED
      BY <1>11, <3>1 DEF HandleParentReady, channelVars, s
  <2>2. <<>> \in Seq(Nat)
    OBVIOUS
  <2>3. loop' \in LoopRecords
    BY <2>1, <2>2, LoopTypesHold DEF LoopRecords
  <2>4. /\ loop'.pc = loop.pc /\ loop'.then = loop.then /\ loop'.slot = loop.slot
        /\ loop'.end = loop.end /\ loop'.parent = loop.parent /\ loop'.optimistic = FALSE
        /\ loop'.shut = loop.shut
    BY <2>1, LoopTypesHold DEF LoopRecords
  <2>5. Kept /\ AnnouncedOk'
    BY <1>1, <1>6, <2>1 DEF Kept
  <2>6. Open' <=> Open
    BY <2>4 DEF Open
  <2>7. /\ ~panicked' /\ ChannelTypes' /\ LoopTypes' /\ ScheduleOk' /\ WordOk' /\ WorkersOk'
        /\ ForksOk' /\ PlacesOk' /\ StreamOk' /\ DoneOk'
    BY <1>1, <2>1, <2>3, <2>4, <2>5, <2>6, TurnFrame
  <2>8. PcsOk'
    BY <1>1, <1>7, <2>4 DEF PcsOk, Starting, Draining
  <2>9. WorkingOk'
    BY <1>1, <1>7, <2>4 DEF CreationInv, ControlOk, WorkingOk
  <2>10. WindowOk'
    BY <1>1, <1>3, <1>11, <2>4 DEF CreationInv, ControlOk, WindowOk, Fixed
  <2>11. EmptyOk'
    BY <1>1, <2>1, <2>4 DEF CreationInv, ChannelOk, EmptyOk, Emptied, Starting
  <2>12. ~Marked' /\ loop'.pc \notin Starting
    BY <1>1, <2>4 DEF Marked, Starting
  <2>13. RecordingOk' /\ BodyOk' /\ HandoverOk' /\ BankOk'
    BY <1>7, <1>8, <2>4, <2>5, <2>12, KeepRecording
  <2> QED
    BY <2>5, <2>7, <2>8, <2>9, <2>10, <2>11, <2>13 DEF CreationInv, TypesOk, ControlOk, ChannelOk, BlockOk
<1>12. CASE ~(s > loop.slot) /\ ~(s = loop.slot /\ loop.optimistic)
  <2>1. UNCHANGED <<loop, stash, word, queue, indexes>>
    BY <1>12 DEF HandleParentReady, channelVars, s
  <2>2. UNCHANGED <<channelVars, workerVars, banks, panicked, loop, working, stream>>
    BY <1>1, <2>1 DEF channelVars, workerVars
  <2>3. LoopTypes' /\ WindowOk' /\ ForksOk'
    BY <1>1, <2>1 DEF CreationInv, TypesOk, LoopTypes, ControlOk, WindowOk, ForksOk, Fixed
  <2>4. DoneOk'
    BY <1>1, DoneFrame
  <2> QED
    BY <1>6, <2>1, <2>2, <2>3, <2>4, LoopFrame DEF CreationInv, TypesOk, ControlOk, ChannelOk, BlockOk
<1> QED
  BY <1>9, <1>10, <1>11, <1>12

\* No announced sender when the count is zero.
LEMMA NoActiveSenders == ASSUME ActiveSenders = 0 PROVE \A w \in Workers : worker[w].pc \notin Announced
<1> DEFINE A == {w \in Workers : worker[w].pc \in Announced}
<1>1. IsFiniteSet(A)
  BY ChannelAssumption, FS_Subset
<1>2. A = {}
  BY <1>1, FS_EmptySet DEF ActiveSenders
<1> QED
  BY <1>2

\* The loop looks at the empty channel and at the active senders.
LEMMA DrainingStep ==
  ASSUME CreationInv, Fixed, DrainEmpty \/ CheckActive
  PROVE  CreationInv'
<1>1. PICK p \in Draining :
        /\ loop.pc \in {"Drain", "CheckActive"} /\ loop' = [loop EXCEPT !.pc = p]
        /\ p = "Recheck" => ActiveSenders = 0
        /\ UNCHANGED <<word, queue, indexes, worker, buffer, banks, panicked, stash, parent_ready, ready,
                       optimistic, forks, working, stream>>
  <2>1. CASE DrainEmpty
    BY <2>1 DEF DrainEmpty, DrainStep, Draining, channelVars, workerVars, votorVars, replayVars, recorderVars
  <2>2. CASE CheckActive
    <3>1. CASE ActiveSenders = 0
      BY <2>2, <3>1 DEF CheckActive, DrainStep, Draining, channelVars, workerVars, votorVars, replayVars, recorderVars
    <3>2. CASE ActiveSenders # 0
      BY <2>2, <3>2 DEF CheckActive, DrainStep, Draining, channelVars, workerVars, votorVars, replayVars, recorderVars
    <3> QED
      BY <3>1, <3>2
  <2> QED
    BY <2>1, <2>2
<1>2. /\ loop' \in LoopRecords /\ loop'.pc = p /\ loop'.then = loop.then /\ loop'.slot = loop.slot
      /\ loop'.end = loop.end /\ loop'.parent = loop.parent /\ loop'.optimistic = loop.optimistic
      /\ loop'.shut = loop.shut /\ loop'.acc = loop.acc
  BY <1>1, LoopTypesHold DEF LoopRecords, Draining
<1>3. Kept /\ AnnouncedOk'
  BY <1>1, AnnouncedStay DEF Kept
<1>4. ~Open' /\ ~Open
  BY <1>1, <1>2 DEF Open, Draining
<1>5. /\ ~panicked' /\ ChannelTypes' /\ LoopTypes' /\ ScheduleOk' /\ WordOk' /\ WorkersOk'
      /\ ForksOk' /\ PlacesOk' /\ StreamOk' /\ DoneOk'
  <2>1. p \notin {"Freeze", "Restart"} /\ loop.pc # "Wait"
    BY <1>1 DEF Draining
  <2> QED
    BY <1>1, <1>2, <1>3, <1>4, <2>1, TurnFrame
<1>6. PcsOk'
  BY <1>1, <1>2 DEF CreationInv, ControlOk, PcsOk, Starting, Draining
<1>7. WorkingOk'
  BY <1>1, <1>2 DEF CreationInv, ControlOk, WorkingOk, Draining
<1>8. WindowOk'
  BY <1>1, <1>2 DEF CreationInv, ControlOk, WindowOk, Fixed
<1>9. EmptyOk'
  <2>1. p = "Recheck" => \A w \in Workers : worker[w].pc # "Reserved"
    BY <1>1, NoActiveSenders DEF Announced
  <2>2. ~Emptied'
    BY <1>2 DEF Emptied, Starting, Draining
  <2> QED
    BY <1>1, <1>2, <2>1, <2>2 DEF CreationInv, ChannelOk, EmptyOk
<1>10. CASE Recording
  <2>1. ~Marked' /\ loop'.pc \notin Starting
    BY <1>2 DEF Marked, Starting, Draining
  <2>2. RecordingOk' /\ BodyOk' /\ HandoverOk' /\ BankOk'
    BY <1>2, <1>3, <1>10, <2>1, KeepRecording
  <2> QED
    BY <1>3, <1>5, <1>6, <1>7, <1>8, <1>9, <2>2 DEF CreationInv, TypesOk, ControlOk, ChannelOk, BlockOk
<1>11. CASE ~Recording
  <2>1. ~Recording' /\ ~Marked' /\ loop'.pc \notin Starting /\ loop.then \in {"MovedOn", "Failed"}
    BY <1>1, <1>2, <1>11 DEF Recording, Marked, Starting, Draining
  <2>2. RecordingOk' /\ BodyOk' /\ HandoverOk'
    BY <2>1 DEF RecordingOk, BodyOk, HandoverOk
  <2>3. BankOk'
    BY <1>1, <1>2, <2>1 DEF CreationInv, BlockOk, BankOk, Draining
  <2> QED
    BY <1>3, <1>5, <1>6, <1>7, <1>8, <1>9, <2>2, <2>3 DEF CreationInv, TypesOk, ControlOk, ChannelOk, BlockOk
<1> QED
  BY <1>10, <1>11

-----------------------------------------------------------------------------
(* A window is chosen. *)

\* No worker is past its first step without a working bank.
LEMMA NoHolders ==
  ASSUME CreationInv, working = None \/ loop.pc \in {"Freeze", "Restart"}
  PROVE  /\ \A w \in Workers : ~HoldsFreezeLock(w) /\ worker[w].pc \in {"Idle", "Ready"}
         /\ ReservedIn(worker) = {} /\ ActiveSenders = 0
<1>1. \A w \in Workers : ~HoldsFreezeLock(w)
  BY DEF CreationInv, ChannelOk, WorkersOk
<1>2. \A w \in Workers : worker[w].pc \in {"Idle", "Ready"}
  BY <1>1, WorkerTypes DEF HoldsFreezeLock, Announced, WorkerRecords
<1>3. {w \in Workers : worker[w].pc \in Announced} = {}
  BY <1>2 DEF Announced
<1>4. ActiveSenders = 0
  BY <1>3, FS_EmptySet DEF ActiveSenders
<1> QED
  BY <1>1, <1>2, <1>4 DEF ReservedIn

\* The window that is chosen is this validator's, on a known parent.
LEMMA WindowChosen ==
  ASSUME CreationInv, AnnouncedWindows # <<>> \/ optimistic # <<>>
  PROVE  LET s == IF ReadyWins THEN LatestReady ELSE LatestOptimistic.start
             parent == IF ReadyWins THEN ready[s] ELSE LatestOptimistic.parent
         IN  /\ s \in own /\ parent \in References
             /\ ReadyWins => ready[s] # NoBlock
<1>1. /\ parent_ready \in Seq(own) /\ own \subseteq WindowStarts /\ stash \in own \cup {None}
      /\ ready \in [WindowStarts -> References \cup {NoBlock}] /\ optimistic \in Seq(Offers)
      /\ \A i \in DOMAIN parent_ready : ready[parent_ready[i]] # NoBlock
      /\ stash # None => ready[stash] # NoBlock
      /\ WindowSize \in own
  BY DEF CreationInv, TypesOk, AnnouncedOk, ScheduleOk
<1>0. \A t \in WindowStarts : t \in 1 .. MaxSlot + 1
  BY DEF WindowStarts
<1>2. /\ AnnouncedWindows \in Seq(own)
      /\ \A i \in DOMAIN AnnouncedWindows : ready[AnnouncedWindows[i]] # NoBlock
  <2>1. CASE stash = None
    BY <1>1, <2>1 DEF AnnouncedWindows
  <2>2. CASE stash # None
    <3>1. AnnouncedWindows = <<stash>> \o parent_ready /\ stash \in own
      BY <1>1, <2>2 DEF AnnouncedWindows
    <3>2. AnnouncedWindows \in Seq(own) /\ DOMAIN AnnouncedWindows = 1 .. Len(parent_ready) + 1
          /\ AnnouncedWindows[1] = stash
          /\ \A i \in 2 .. Len(parent_ready) + 1 : AnnouncedWindows[i] = parent_ready[i - 1]
      BY <1>1, <3>1
    <3>3. ASSUME NEW i \in DOMAIN AnnouncedWindows PROVE ready[AnnouncedWindows[i]] # NoBlock
      <4>1. i = 1 \/ (i \in 2 .. Len(parent_ready) + 1 /\ i - 1 \in DOMAIN parent_ready)
        BY <1>1, <3>2
      <4> QED
        BY <4>1, <1>1, <3>2, <2>2
    <3> QED
      BY <3>2, <3>3
  <2> QED
    BY <2>1, <2>2
<1> DEFINE A == AnnouncedWindows
           X == {None} \cup ToSet(A)
<1> HIDE DEF A
<1>3. \A x \in ToSet(A) : x \in own /\ x \in 1 .. MaxSlot + 1 /\ ready[x] # NoBlock
  BY <1>0, <1>1, <1>2 DEF ToSet, A
<1>4. X \in SUBSET (0 .. MaxSlot + 1) /\ X # {} /\ MaxSlot + 1 \in Nat
  BY <1>3, BoundsAssumption DEF None
<1>5. LatestReady \in X /\ \A x \in X : x <= LatestReady
  <2> DEFINE bound == MaxSlot + 1
  <2>1. LatestReady = Max(X)
    BY DEF LatestReady, A
  <2> HIDE DEF X, bound
  <2>2. bound \in Nat /\ X \in SUBSET (0 .. bound)
    BY <1>4 DEF bound
  <2> QED
    BY <1>4, <2>1, <2>2, MaxFacts
<1>6. A # <<>> => LatestReady # None
  <2>1. SUFFICES ASSUME A # <<>> PROVE LatestReady # None
    OBVIOUS
  <2>2. A \in Seq(own) /\ A[1] \in ToSet(A)
    BY <1>2, <2>1 DEF ToSet, A
  <2> QED
    BY <2>2, <1>3, <1>4, <1>5 DEF None
<1>7. CASE ReadyWins
  <2>1. LatestReady # None
    <3>1. CASE A # <<>>
      BY <3>1, <1>6
    <3>2. CASE A = <<>>
      <4>1. optimistic # <<>>
        BY <3>2 DEF A
      <4>2. LatestOptimistic \in Offers
        BY <4>1, <1>1, OffersFreshest DEF LatestOptimistic
      <4>3. LatestOptimistic.start = WindowSize
        BY <4>2 DEF Offers
      <4> QED
        BY <4>3, <1>7, BoundsAssumption DEF ReadyWins, None
    <3> QED
      BY <3>1, <3>2
  <2>2. LatestReady \in own /\ ready[LatestReady] # NoBlock
    BY <2>1, <1>3, <1>5
  <2>3. ready[LatestReady] \in References
    BY <2>2, <1>1
  <2> QED
    BY <1>7, <2>2, <2>3
<1>8. CASE ~ReadyWins
  <2>1. optimistic # <<>>
    <3>1. SUFFICES ASSUME optimistic = <<>> PROVE FALSE
      OBVIOUS
    <3>2. LatestOptimistic.start = 0
      BY <3>1 DEF LatestOptimistic, None
    <3>3. LatestReady \in 0 .. MaxSlot + 1
      BY <1>4, <1>5
    <3> QED
      BY <3>2, <3>3, <1>8, <1>4 DEF ReadyWins
  <2>2. LatestOptimistic \in Offers
    BY <2>1, <1>1, OffersFreshest DEF LatestOptimistic
  <2>3. LatestOptimistic.start = WindowSize /\ LatestOptimistic.parent \in [slot : {OtherSlot}, id : Nat]
    BY <2>2 DEF Offers
  <2>4. OtherSlot \in Slots
    BY BoundsAssumption DEF CreationInv, TypesOk, ScheduleOk, OtherSlot, Slots
  <2>5. LatestOptimistic.parent \in References
    BY <2>3, <2>4 DEF References
  <2> QED
    BY <1>1, <1>8, <2>3, <2>5
<1> QED
  BY <1>7, <1>8

\* A window is chosen.
LEMMA SelectStep ==
  ASSUME CreationInv, Fixed, SelectWindow
  PROVE  CreationInv'
<1> DEFINE s == IF ReadyWins THEN LatestReady ELSE LatestOptimistic.start
           parent == IF ReadyWins THEN ready[s] ELSE LatestOptimistic.parent
<1>1. /\ loop.pc = "Wait" /\ (AnnouncedWindows # <<>> \/ optimistic # <<>>)
      /\ loop' = (IF HasExistingShreds(s) THEN IdleLoop ELSE StartAt(s, parent, ~ReadyWins))
      /\ stash' = None /\ parent_ready' = <<>> /\ optimistic' = <<>>
      /\ UNCHANGED <<word, queue, indexes, worker, buffer, banks, panicked, ready, forks, working, stream>>
  BY DEF SelectWindow, channelVars, workerVars, recorderVars
<1>2. s \in own /\ parent \in References /\ (ReadyWins => ready[s] # NoBlock /\ parent = ready[s])
  BY <1>1, WindowChosen
<1>b. ReadyWins \in BOOLEAN
  BY DEF ReadyWins
<1> DEFINE early == ~ReadyWins
<1>e. early \in BOOLEAN /\ (~early => ready[s] # NoBlock /\ parent = ready[s])
      /\ loop' = (IF HasExistingShreds(s) THEN IdleLoop ELSE StartAt(s, parent, early))
  BY <1>1, <1>2, <1>b
<1> HIDE DEF s, parent, early
<1>3. working = None /\ Emptied
  BY <1>1 DEF CreationInv, ControlOk, WorkingOk, Emptied
<1>4. AnnouncedOk'
  BY <1>1 DEF CreationInv, TypesOk, AnnouncedOk, Fixed, None
<1>5. Kept
  BY <1>1 DEF Kept
<1>6. CASE HasExistingShreds(s)
  BY <1>1, <1>3, <1>4, <1>5, <1>6, IdleStep
<1>7. CASE ~HasExistingShreds(s)
  <2>1. s \in WindowStarts /\ s + WindowSize - 1 <= MaxSlot /\ s \in Nat /\ LastOfWindow(s) = s + WindowSize - 1
    BY <1>2, WindowFacts DEF CreationInv, TypesOk, ScheduleOk
  <2>2. s \in Slots /\ LastOfWindow(s) \in Slots /\ s <= LastOfWindow(s)
    BY <2>1, BoundsAssumption DEF Slots
  <2>3. parent \in [slot : Int, id : Int] /\ parent.slot \in Slots /\ parent.id \in Nat
    BY <1>2, BoundsAssumption DEF References, Slots
  <2>4. /\ loop'.pc = "Start" /\ loop'.slot = s /\ loop'.end = LastOfWindow(s) /\ loop'.parent = parent
        /\ loop'.optimistic = early /\ loop'.acc = <<>> /\ loop'.shut = FALSE /\ loop'.then = "None"
        /\ loop' \in LoopRecords
    <3>1. loop' = [IdleLoop EXCEPT !.pc = "Start", !.slot = s, !.end = LastOfWindow(s), !.parent = parent,
                                   !.optimistic = early]
      BY <1>7, <1>e DEF StartAt
    <3>2. loop = IdleLoop /\ loop \in LoopRecords
      BY <1>1, LoopTypesHold DEF CreationInv, ControlOk, PcsOk
    <3>3. loop.acc = <<>> /\ loop.shut = FALSE /\ loop.then = "None"
      BY <3>2 DEF IdleLoop
    <3>4. loop' = [loop EXCEPT !.pc = "Start", !.slot = s, !.end = LastOfWindow(s), !.parent = parent,
                               !.optimistic = early]
      BY <3>1, <3>2
    <3> QED
      BY <3>2, <3>3, <3>4, <2>2, <2>3, <1>e DEF LoopRecords
  <2>5. \A t \in s .. LastOfWindow(s) : stream[t] = <<>>
    BY <1>7 DEF HasExistingShreds
  <2>6. ~panicked' /\ ChannelTypes' /\ LoopTypes' /\ ScheduleOk' /\ PlacesOk'
    BY <1>1, <2>4 DEF CreationInv, TypesOk, ChannelTypes, LoopTypes, ScheduleOk, PlacesOk, Fixed
  <2>7. WordOk'
    <3>1. ~Open /\ ~Open'
      BY <1>1, <2>4 DEF Open
    <3> QED
      BY <1>1, <3>1 DEF CreationInv, ChannelOk, WordOk
  <2>8. EmptyOk'
    BY <1>1, <1>3, <2>4 DEF CreationInv, ChannelOk, EmptyOk
  <2>9. WorkersOk'
    BY <1>1, <2>4 DEF CreationInv, ChannelOk, WorkersOk, HoldsFreezeLock
  <2>10. ForksOk'
    BY <1>1, <1>3, WorkerTypes DEF CreationInv, ForksOk, None
  <2>11. PcsOk' /\ WorkingOk'
    BY <1>1, <1>3, <2>4 DEF PcsOk, WorkingOk, Starting, Draining
  <2>12. WindowOk'
    <3>1. parent.id # AnyId
      BY <2>3 DEF AnyId
    <3>2. s <= loop'.slot /\ loop'.slot <= loop'.end /\ loop'.end = s + WindowSize - 1
      BY <2>1, <2>2, <2>4
    <3>3. \E t \in own' : t <= loop'.slot /\ loop'.slot <= loop'.end /\ loop'.end = t + WindowSize - 1
      BY <1>2, <3>2 DEF Fixed
    <3>4. own' = own /\ ready' = ready
      BY <1>1 DEF Fixed
    <3> QED
      BY <1>2, <1>e, <2>3, <2>4, <3>1, <3>3, <3>4 DEF WindowOk
  <2>13. ~Recording' /\ ~Marked' /\ loop'.pc \in Starting /\ loop'.then # "Handover"
    BY <2>4 DEF Recording, Marked, Starting, Draining
  <2>14. BankOk' /\ RecordingOk' /\ HandoverOk'
    BY <1>1, <1>3, <2>13 DEF BankOk, RecordingOk, HandoverOk
  <2>15. Stream' = <<>>
    BY <1>1, <2>1, <2>2, <2>4, <2>5 DEF Stream
  <2>16. StreamOk'
    <3>1. \A t \in s + 1 .. LastOfWindow(s) : stream[t] = <<>>
      BY <2>1, <2>2, <2>5, BoundsAssumption
    <3> QED
      BY <1>1, <2>4, <2>15, <3>1 DEF StreamOk
  <2>17. BodyOk'
    <3>1. Len(<<>>) = 0
      OBVIOUS
    <3> QED
      BY <2>4, <2>13, <2>15, <3>1, BodyEmpty DEF BodyOk
  <2>18. DoneOk'
    BY <1>1, DoneFrame
  <2> QED
    BY <1>4, <2>6, <2>7, <2>8, <2>9, <2>10, <2>11, <2>12, <2>14, <2>16, <2>17, <2>18
    DEF CreationInv, TypesOk, ControlOk, ChannelOk, BlockOk
<1> QED
  BY <1>6, <1>7

-----------------------------------------------------------------------------
(* A block is started. *)

\* A channel that is not open is shut down.
LEMMA EmptyWord ==
  ASSUME CreationInv, ~Open
  PROVE  IsShutdown
<1>1. PICK a \in 0 .. Capacity : word = Encoded(Disabled, a)
  BY DEF CreationInv, ChannelOk, WordOk
<1> QED
  BY <1>1, WordFacts, WorkerTypes DEF IsShutdown

\* A block is started: the recorder is reset with a quiet channel.
LEMMA StartLeaderStep ==
  ASSUME CreationInv, Fixed, StartLeader
  PROVE  CreationInv'
<1> DEFINE p == loop.parent.slot
<1>1. /\ loop.pc = "Start" /\ Len(banks) < MaxBanks /\ loop.parent.id \in {AnyId, forks[p]}
      /\ loop' = [loop EXCEPT !.pc = "Insert", !.parent.id = forks[p]]
      /\ working' = (IF start_slot # p THEN None ELSE working)
      /\ panicked' = (IF start_slot # p THEN ~Quiet ELSE working # None)
      /\ UNCHANGED <<word, queue, indexes, worker, buffer, banks, stash, parent_ready, ready, optimistic, forks, stream>>
  BY DEF StartLeader, Startable, channelVars, workerVars, votorVars, replayVars
<1>2. working = None /\ Emptied /\ queue = <<>> /\ ~Open
  BY <1>1 DEF CreationInv, ControlOk, WorkingOk, Emptied, Starting, ChannelOk, EmptyOk, Open
<1>3. Quiet
  BY <1>2, NoHolders, EmptyWord DEF Quiet
<1>4. working' = working /\ ~panicked'
  BY <1>1, <1>2, <1>3
<1>5. p \in Slots /\ forks[p] \in Int /\ (loop.slot \in own => loop.parent.id # AnyId)
      /\ loop.then \in {"None", "Handover"} /\ (loop.then = "Handover" => loop.slot \in own)
  BY <1>1, LoopTypesHold DEF CreationInv, ControlOk, WindowOk, PcsOk, Starting
<1> DEFINE b == [loop.parent EXCEPT !.id = forks[p]]
<1>6. b \in [slot : Int, id : Int] /\ b.slot = p /\ (loop.slot \in own => b = loop.parent)
  BY <1>1, <1>5, LoopTypesHold
<1>7. loop' = [loop EXCEPT !.pc = "Insert", !.parent = b]
  BY <1>1, LoopTypesHold DEF LoopRecords
<1> HIDE DEF b, p
<1>8. loop' \in LoopRecords
  BY <1>6, <1>7, LoopTypesHold DEF LoopRecords
<1>9. /\ loop'.pc = "Insert" /\ loop'.then = loop.then /\ loop'.slot = loop.slot
      /\ loop'.end = loop.end /\ loop'.parent = b /\ loop'.optimistic = loop.optimistic
      /\ loop'.shut = loop.shut /\ loop'.acc = loop.acc
  BY <1>7, LoopTypesHold DEF LoopRecords
<1>10. Kept /\ AnnouncedOk'
  BY <1>1, <1>4, AnnouncedStay DEF Kept
<1>11. ~Open'
  BY <1>9 DEF Open
<1>12. /\ ~panicked' /\ ChannelTypes' /\ LoopTypes' /\ ScheduleOk' /\ WordOk' /\ WorkersOk'
       /\ ForksOk' /\ PlacesOk' /\ StreamOk' /\ DoneOk'
  BY <1>1, <1>2, <1>8, <1>9, <1>10, <1>11, TurnFrame
<1>13. PcsOk' /\ WorkingOk'
  BY <1>1, <1>2, <1>4, <1>5, <1>9 DEF CreationInv, ControlOk, PcsOk, WorkingOk, Starting, Draining
<1>14. WindowOk'
  BY <1>1, <1>5, <1>6, <1>9 DEF CreationInv, ControlOk, WindowOk, Fixed
<1>15. EmptyOk'
  BY <1>1, <1>2, <1>4, <1>9 DEF CreationInv, ChannelOk, EmptyOk
<1>16. ~Recording' /\ ~Marked' /\ loop'.pc \in Starting /\ loop.pc \in Starting /\ ~Recording /\ ~Marked
  BY <1>1, <1>9 DEF Recording, Marked, Starting, Draining
<1>17. BankOk' /\ RecordingOk'
  BY <1>2, <1>4, <1>16 DEF BankOk, RecordingOk
<1>18. BodyOk'
  <2>1. Stream' = Stream
    BY <1>1, <1>9 DEF Stream
  <2>2. /\ BodyFrom(Stream, UpdateOf(Stream)) /\ UpdateOf(Stream) = Len(Stream)
        /\ UpdateOf(Stream) > 0 => Stream[UpdateOf(Stream)].parent = loop.parent
        /\ loop.then = "None" => Stream = <<>> /\ loop.acc = <<>>
    BY <1>16 DEF CreationInv, BlockOk, BodyOk
  <2>3. UpdateOf(Stream) > 0 => loop.parent = b
    <3>1. loop.then = "None" => UpdateOf(Stream) = 0
      BY <2>2, BodyEmpty
    <3> QED
      BY <3>1, <1>5, <1>6
  <2> QED
    BY <1>9, <1>16, <2>1, <2>2, <2>3 DEF BodyOk
<1>19. HandoverOk'
  BY <1>1, <1>9, <1>16 DEF CreationInv, BlockOk, HandoverOk
<1> QED
  BY <1>10, <1>12, <1>13, <1>14, <1>15, <1>17, <1>18, <1>19 DEF CreationInv, TypesOk, ControlOk, ChannelOk, BlockOk

\* A new bank becomes the working bank.
LEMMA InsertStep ==
  ASSUME CreationInv, Fixed, InsertBank
  PROVE  CreationInv'
<1> DEFINE n == Len(banks) + 1
           bank == [slot |-> loop.slot, parent |-> loop.parent, ticked |-> FALSE,
                    frozen |-> FALSE, committed |-> {}]
<1>1. /\ loop.pc = "Insert" /\ banks' = Append(banks, bank) /\ forks' = [forks EXCEPT ![loop.slot] = n]
      /\ working' = n /\ panicked' = (working # None) /\ loop' = [loop EXCEPT !.pc = "Restart"]
      /\ UNCHANGED <<word, queue, indexes, worker, buffer, stash, parent_ready, ready, optimistic, stream>>
  BY DEF InsertBank, channelVars, workerVars, votorVars
<1>2. working = None /\ Emptied /\ queue = <<>> /\ ~Open
  BY <1>1 DEF CreationInv, ControlOk, WorkingOk, Emptied, Starting, ChannelOk, EmptyOk, Open
<1>3. bank \in BankRecords /\ bank.slot = loop.slot /\ bank.parent = loop.parent /\ bank.committed = {}
  BY LoopTypesHold DEF BankRecords
<1> HIDE DEF bank
<1>4. /\ banks' \in Seq(BankRecords) /\ Len(banks') = n /\ banks'[n] = bank /\ n \in Nat \ {0}
      /\ DOMAIN banks = 1 .. Len(banks) /\ DOMAIN banks' = 1 .. n /\ Len(banks) \in Nat
      /\ \A i \in DOMAIN banks : banks'[i] = banks[i]
  BY <1>1, <1>3, WorkerTypes
<1>5. /\ loop' \in LoopRecords /\ loop'.pc = "Restart" /\ loop'.then = loop.then /\ loop'.slot = loop.slot
      /\ loop'.end = loop.end /\ loop'.parent = loop.parent /\ loop'.optimistic = loop.optimistic
      /\ loop'.shut = loop.shut /\ loop'.acc = loop.acc
  BY <1>1, LoopTypesHold DEF LoopRecords
<1>6. AnnouncedOk'
  BY <1>1, AnnouncedStay
<1>7. forks' \in [Slots -> Int] /\ forks'[loop.slot] = n /\ \A s \in Slots : s # loop.slot => forks'[s] = forks[s]
  <2>1. n \in Int
    BY <1>4
  <2> HIDE DEF n
  <2> QED
    BY <1>1, <2>1, LoopTypesHold
<1>8. ~panicked' /\ ChannelTypes' /\ LoopTypes' /\ ScheduleOk' /\ PlacesOk'
  <2>1. n <= MaxBanks
    BY <1>1, <1>4, BoundsAssumption DEF CreationInv, ControlOk, WorkingOk
  <2> QED
    BY <1>1, <1>2, <1>4, <1>5, <1>7, <2>1
    DEF CreationInv, TypesOk, ChannelTypes, LoopTypes, ScheduleOk, PlacesOk, Fixed
<1>9. WordOk'
  <2>1. ~Open'
    BY <1>5 DEF Open
  <2> QED
    BY <1>1, <1>2, <2>1 DEF CreationInv, ChannelOk, WordOk
<1>10. EmptyOk'
  BY <1>1, <1>2 DEF CreationInv, ChannelOk, EmptyOk
<1>11. WorkersOk'
  <2>1. \A w \in Workers : worker[w].pc \in {"Idle", "Ready"}
    BY <1>2, NoHolders
  <2>2. ASSUME NEW w \in Workers, worker[w].pc # "Idle" PROVE worker[w].bank \in 1 .. n
    <3>1. worker[w].bank \in 1 .. Len(banks)
      BY <2>2 DEF CreationInv, ChannelOk, WorkersOk
    <3> QED
      BY <3>1, <1>4
  <2> QED
    BY <1>1, <1>4, <2>1, <2>2 DEF WorkersOk, HoldsFreezeLock, Announced
<1>12. ForksOk'
  <2> SUFFICES ASSUME NEW s \in Slots, s > OtherSlot, forks'[s] # NoBank
               PROVE  /\ forks'[s] \in DOMAIN banks'
                      /\ banks'[forks'[s]].frozen \/ (s = loop'.slot /\ forks'[s] = working')
    BY DEF ForksOk
  <2>1. CASE s = loop.slot
    BY <2>1, <1>1, <1>4, <1>5, <1>7
  <2>2. CASE s # loop.slot
    <3>1. forks'[s] = forks[s] /\ forks[s] \in DOMAIN banks /\ banks[forks[s]].frozen
      BY <2>2, <1>7 DEF CreationInv, ForksOk
    <3> QED
      BY <3>1, <1>4
  <2> QED
    BY <2>1, <2>2
<1>13. PcsOk'
  BY <1>1, <1>5 DEF CreationInv, ControlOk, PcsOk, Starting, Draining
<1>14. WorkingOk'
  BY <1>1, <1>4, <1>5 DEF WorkingOk, None, Draining
<1>15. WindowOk'
  BY <1>1, <1>5 DEF CreationInv, ControlOk, WindowOk, Fixed
<1>16. ~Recording' /\ ~Marked' /\ loop'.pc \in Starting /\ loop.pc \in Starting /\ ~Recording /\ ~Marked
  BY <1>1, <1>5 DEF Recording, Marked, Starting, Draining
<1>17. BankOk'
  BY <1>1, <1>3, <1>4, <1>5 DEF BankOk
<1>18. Stream' = Stream
  BY <1>1, <1>5 DEF Stream
<1>19. StreamOk'
  BY <1>1, <1>5, <1>18 DEF CreationInv, BlockOk, StreamOk
<1>20. BodyOk' /\ RecordingOk'
  BY <1>1, <1>5, <1>16, <1>18 DEF CreationInv, BlockOk, BodyOk, RecordingOk
<1>21. HandoverOk'
  <2>1. ASSUME loop.then = "Handover"
        PROVE  /\ ToSet(loop.acc) \cap UnsentIn(worker, buffer) = {}
               /\ Len(banks) >= 1 /\ ToSet(loop.acc) = TxsOf(banks[Len(banks)].committed)
    BY <2>1, <1>1, <1>16 DEF CreationInv, BlockOk, HandoverOk
  <2>2. Len(banks') - 1 = Len(banks) /\ (Len(banks) >= 1 => Len(banks) \in DOMAIN banks /\ Len(banks') >= 2)
    BY <1>4
  <2> QED
    BY <1>1, <1>4, <1>5, <1>16, <2>1, <2>2 DEF HandoverOk
<1>22. DoneOk'
  <2> SUFFICES ASSUME NEW s \in Slots, Footer \in ToSet(stream[s])
               PROVE  \E i \in DOMAIN banks' :
                        /\ IsLast(banks', s, i) /\ Matches(stream[s], banks'[i], track)
                        /\ s \in own => ready[s] # NoBlock /\ banks'[i].parent = ready[s]
    BY <1>1 DEF DoneOk, Fixed
  <2>1. PICK i \in DOMAIN banks :
          /\ IsLast(banks, s, i) /\ Matches(stream[s], banks[i], track)
          /\ s \in own => ready[s] # NoBlock /\ banks[i].parent = ready[s]
    BY DEF CreationInv, BlockOk, DoneOk
  <2>2. s # loop.slot
    BY <1>1, ItemFacts DEF CreationInv, BlockOk, StreamOk, Stream, ToSet
  <2>3. banks'[i] = banks[i] /\ i \in DOMAIN banks'
    BY <1>4
  <2>4. ASSUME NEW j \in DOMAIN banks', banks'[j].slot = s PROVE j <= i
    <3>1. j # n
      BY <2>2, <2>4, <1>3, <1>4
    <3>2. j \in DOMAIN banks
      BY <3>1, <1>4
    <3> QED
      BY <3>2, <2>1, <2>4, <1>4 DEF IsLast
  <2>5. IsLast(banks', s, i)
    BY <2>1, <2>3, <2>4 DEF IsLast
  <2> QED
    BY <2>1, <2>3, <2>5
<1> QED
  BY <1>6, <1>8, <1>9, <1>10, <1>11, <1>12, <1>13, <1>14, <1>15, <1>17, <1>19, <1>20, <1>21, <1>22
  DEF CreationInv, TypesOk, ControlOk, ChannelOk, BlockOk

\* The channel is opened; after a handover what the old bank accepted goes back.
LEMMA StartRecordingStep ==
  ASSUME CreationInv, Fixed, StartRecording
  PROVE  /\ CreationInv'
         /\ loop.then = "Handover" => buffer' \ buffer = TxsOf(banks[working - 1].committed)
<1>1. /\ loop.pc = "Restart" /\ panicked' = (working >= Disabled \/ queue # <<>>)
      /\ word' = Encoded(working, Capacity) /\ indexes' = 0
      /\ loop' = [loop EXCEPT !.pc = "Record", !.shut = FALSE, !.acc = <<>>, !.then = "None"]
      /\ buffer' = buffer \cup ToSet(loop.acc)
      /\ UNCHANGED <<queue, worker, banks, stash, parent_ready, ready, optimistic, forks, working, stream>>
  BY DEF StartRecording, Restart, votorVars, replayVars, recorderVars
<1>2. working # None /\ working = Len(banks) /\ queue = <<>> /\ ~Open /\ working \in 1 .. Len(banks)
      /\ loop.then \in {"None", "Handover"} /\ ~loop.then \in {"MovedOn", "Failed"}
  BY <1>1, WorkerTypes
  DEF CreationInv, ControlOk, WorkingOk, Emptied, Starting, ChannelOk, EmptyOk, Open, PcsOk
<1>3. /\ \A w \in Workers : ~HoldsFreezeLock(w) /\ worker[w].pc \in {"Idle", "Ready"}
      /\ ReservedIn(worker) = {}
  BY <1>1, NoHolders
<1>4. ~panicked'
  <2>1. ~(working >= Disabled)
    BY <1>2, WorkerTypes
  <2> QED
    BY <1>1, <1>2, <2>1
<1>0. <<>> \in Seq(Nat)
  OBVIOUS
<1>5. loop' \in LoopRecords
  BY <1>0, <1>1, LoopTypesHold DEF LoopRecords
<1>6. /\ loop'.pc = "Record" /\ loop'.then = "None" /\ loop'.slot = loop.slot
      /\ loop'.end = loop.end /\ loop'.parent = loop.parent /\ loop'.optimistic = loop.optimistic
      /\ loop'.shut = FALSE /\ loop'.acc = <<>>
  BY <1>1, LoopTypesHold DEF LoopRecords
<1>7. AnnouncedOk'
  BY <1>1, AnnouncedStay
<1>8. loop.pc \in Starting /\ ~Recording /\ ~Marked /\ ~Marked' /\ Recording' /\ loop'.pc \notin Starting
  BY <1>1, <1>6 DEF Recording, Marked, Starting, Draining
<1>9. /\ BodyFrom(Stream, UpdateOf(Stream)) /\ UpdateOf(Stream) = Len(Stream)
      /\ UpdateOf(Stream) > 0 => Stream[UpdateOf(Stream)].parent = loop.parent
      /\ loop.then = "None" => Stream = <<>> /\ loop.acc = <<>>
  BY <1>8 DEF CreationInv, BlockOk, BodyOk
<1>10. ToSet(<<>>) = {}
  BY DEF ToSet
<1>11. /\ ToSet(loop.acc) \cap UnsentIn(worker, buffer) = {}
       /\ loop.then = "Handover" => ToSet(loop.acc) = TxsOf(banks[working - 1].committed)
  <2>1. CASE loop.then = "None"
    BY <2>1, <1>9, <1>10
  <2>2. CASE loop.then = "Handover"
    BY <2>2, <1>1, <1>2, <1>8 DEF CreationInv, BlockOk, HandoverOk
  <2> QED
    BY <2>1, <2>2, <1>2
<1>12. loop.then = "Handover" => buffer' \ buffer = TxsOf(banks[working - 1].committed)
  <2>1. buffer \subseteq UnsentIn(worker, buffer)
    BY DEF UnsentIn
  <2>2. ToSet(loop.acc) \cap buffer = {}
    BY ONLY <2>1, <1>11
  <2>3. loop.then = "Handover" => buffer' = buffer \cup ToSet(loop.acc)
    BY <1>1
  <2> QED
    BY ONLY <2>2, <2>3, <1>11
<1>13. ToSet(loop.acc) \subseteq Nat
  <2>1. loop.acc \in Seq(Nat)
    BY ONLY LoopTypesHold, CreationInv
  <2>2. \A i \in DOMAIN loop.acc : loop.acc[i] \in Nat
    BY ONLY <2>1
  <2> QED
    BY ONLY <2>2 DEF ToSet
<1>14. word' \in Int /\ Capacity \in 0 .. Capacity
  <2>1. Capacity \in 0 .. Capacity /\ working \in Nat
    BY WorkerTypes
  <2>2. Encoded(working, Capacity) \in Nat
    BY <2>1, WordFacts
  <2> QED
    BY <1>1, <2>1, <2>2
<1>15. ChannelTypes' /\ LoopTypes' /\ ScheduleOk'
  BY <1>1, <1>5, <1>13, <1>14 DEF CreationInv, TypesOk, ChannelTypes, LoopTypes, ScheduleOk, Fixed
<1>16. WordOk'
  <2>1. Cardinality(ReservedIn(worker')) = 0 /\ Len(queue') = 0
    BY <1>1, <1>2, <1>3, FS_EmptySet
  <2>2. Open'
    BY <1>6 DEF Open
  <2>3. Capacity + Len(queue') + Cardinality(ReservedIn(worker')) <= Capacity
    BY <2>1, WorkerTypes
  <2> QED
    BY <1>1, <1>14, <2>2, <2>3 DEF WordOk
<1>17. EmptyOk'
  BY <1>1, <1>2, <1>3 DEF EmptyOk
<1>18. WorkersOk'
  BY <1>1, <1>3, <1>6 DEF CreationInv, ChannelOk, WorkersOk, HoldsFreezeLock, Announced
<1>19. ForksOk'
  BY <1>1, <1>6 DEF CreationInv, ForksOk
<1>20. PlacesOk'
  <2>1. \A w \in Workers : worker[w].pc # "Idle" => worker[w].tx \in UnsentIn(worker, buffer)
    BY <1>3 DEF UnsentIn
  <2> QED
    BY <1>1, <1>11, <2>1 DEF CreationInv, PlacesOk
<1>21. PcsOk'
  BY <1>6 DEF PcsOk, Starting, Draining
<1>22. WorkingOk'
  BY <1>1, <1>2, <1>6 DEF WorkingOk, Draining
<1>23. WindowOk'
  BY <1>1, <1>6 DEF CreationInv, ControlOk, WindowOk, Fixed
<1>24. /\ banks[working].slot = loop.slot /\ banks[working].committed = {}
       /\ banks[working].parent = loop.parent
  BY <1>1, <1>2 DEF CreationInv, BlockOk, BankOk
<1>25. BankOk'
  BY <1>1, <1>6, <1>24 DEF BankOk
<1>26. Stream' = Stream
  BY <1>1, <1>6 DEF Stream
<1>27. StreamOk'
  BY <1>1, <1>6, <1>26 DEF CreationInv, BlockOk, StreamOk
<1>28. BodyOk'
  BY <1>6, <1>8, <1>9, <1>26 DEF BodyOk
<1>29. HandoverOk'
  BY <1>6 DEF HandoverOk
<1>30. RecordingOk'
  <2>1. Accepted' = {}
    BY <1>1, <1>3, <1>24 DEF Accepted, AcceptedIn
  <2>2. Stream \in Seq(Items) /\ Len(Stream) \in Nat
    BY LoopTypesHold
  <2>3. Sent' = SentFrom(Stream, Len(Stream), <<>>)
    BY <1>1, <1>2, <1>9, <1>26 DEF Sent
  <2>4. Agree(Sent', Accepted', track')
    BY <2>1, <2>2, <2>3, AgreeNothing
  <2>5. DOMAIN Sent' = {}
    BY <2>2, <2>3, SentFacts
  <2>6. indexes' = (Len(Stream) - Len(Stream)) + Len(queue')
    BY <1>1, <1>2, <2>2
  <2>7. {Stream[i].tx : i \in Len(Stream) + 1 .. Len(Stream)} = {}
    BY <2>2
  <2> QED
    BY <1>6, <1>9, <1>10, <1>26, <2>4, <2>5, <2>6, <2>7 DEF RecordingOk
<1>31. DoneOk'
  BY <1>1, DoneFrame
<1> QED
  BY <1>4, <1>7, <1>12, <1>15, <1>16, <1>17, <1>18, <1>19, <1>20, <1>21, <1>22, <1>23, <1>25, <1>27, <1>28,
     <1>29, <1>30, <1>31 DEF CreationInv, TypesOk, ControlOk, ChannelOk, BlockOk

-----------------------------------------------------------------------------
(* Records are taken and broadcast. *)

\* The transactions of a block that grows by one.
LEMMA BodyTxs ==
  ASSUME NEW q \in Seq(Items), NEW u \in 0 .. Len(q), NEW t \in Nat
  PROVE  {Append(q, Tx(t))[i].tx : i \in u + 1 .. Len(Append(q, Tx(t)))}
         = {q[i].tx : i \in u + 1 .. Len(q)} \cup {t}
<1> DEFINE e == Tx(t)
           p == Append(q, e)
<1>1. e \in Items /\ e.tx = t
  BY ItemFacts
<1> HIDE DEF e
<1>2. /\ Len(p) = Len(q) + 1 /\ p[Len(q) + 1] = e /\ Len(q) \in Nat
      /\ \A i \in 1 .. Len(q) : p[i] = q[i]
  BY <1>1
<1> HIDE DEF p
<1>3. \A i \in u + 1 .. Len(q) : p[i] = q[i] /\ i \in u + 1 .. Len(p)
  BY <1>2
<1>4. \A i \in u + 1 .. Len(p) : i \in u + 1 .. Len(q) \/ i = Len(q) + 1
  BY <1>2
<1>5. Len(q) + 1 \in u + 1 .. Len(p)
  BY <1>2
<1>6. {p[i].tx : i \in u + 1 .. Len(p)} = {q[i].tx : i \in u + 1 .. Len(q)} \cup {t}
  BY <1>1, <1>2, <1>3, <1>4, <1>5
<1> QED
  BY <1>6 DEF p, e

\* A record is taken from the channel: it is the working bank's, and its insertion is given back.
LEMMA ReceivedFacts ==
  ASSUME CreationInv, queue # <<>>, Received, UNCHANGED <<worker, working>>, Open' <=> Open
  PROVE  /\ WordOk' /\ word' \in Int /\ indexes' = indexes
         /\ queue' \in Seq(QueueRecords) /\ Len(queue') = Len(queue) - 1 /\ Len(queue) \in Nat \ {0}
         /\ Head(queue).bank = working /\ working # None /\ Head(queue).tx \in Nat
         /\ \A i \in DOMAIN queue' : queue'[i].bank = working
<1>1. queue' = Tail(queue) /\ word' = FetchAdd(word, 1) /\ indexes' = indexes
  BY DEF Received
<1>2. /\ queue' \in Seq(QueueRecords) /\ Len(queue') = Len(queue) - 1 /\ Len(queue) \in Nat \ {0}
      /\ Head(queue) = queue[1] /\ Head(queue) \in QueueRecords /\ 1 \in DOMAIN queue
      /\ DOMAIN queue' = 1 .. Len(queue) - 1 /\ DOMAIN queue = 1 .. Len(queue)
      /\ \A i \in 1 .. Len(queue) - 1 : queue'[i] = queue[i + 1]
  BY <1>1, WorkerTypes
<1>3. Head(queue).bank = working /\ working # None /\ Head(queue).tx \in Nat
  BY <1>2 DEF CreationInv, ChannelOk, EmptyOk, QueueRecords
<1>4. ASSUME NEW i \in DOMAIN queue' PROVE queue'[i].bank = working
  <2>1. i + 1 \in DOMAIN queue /\ queue'[i] = queue[i + 1]
    BY <1>2
  <2> QED
    BY <2>1 DEF CreationInv, ChannelOk, EmptyOk
<1> DEFINE b == IF Open THEN working ELSE Disabled
<1>5. b \in Nat /\ b <= Disabled
  <2>1. working \in Nat /\ working <= Disabled /\ Disabled \in Nat
    <3>1. working \in {None, Len(banks)} /\ Len(banks) \in Nat /\ Len(banks) <= MaxBanks
      BY WorkerTypes DEF CreationInv, ControlOk, WorkingOk, TypesOk, ChannelTypes
    <3> QED
      BY <3>1, ChannelAssumption, BoundsAssumption DEF None
  <2> QED
    BY <2>1 DEF b
<1>6. b' = b
  BY DEF b
<1> HIDE DEF b
<1>7. PICK a \in 0 .. Capacity :
        word = Encoded(b, a) /\ a + Len(queue) + Cardinality(ReservedIn(worker)) <= Capacity
  BY DEF CreationInv, ChannelOk, WordOk, b
<1>8. IsFiniteSet(ReservedIn(worker))
  BY ChannelAssumption, FS_Subset DEF ReservedIn
<1>9. Cardinality(ReservedIn(worker)) \in Nat
  BY <1>8, FS_CardinalityType
<1>10. a < Capacity /\ a + 1 \in 0 .. Capacity
       /\ (a + 1) + Len(queue') + Cardinality(ReservedIn(worker)) <= Capacity
  <2> DEFINE c == Cardinality(ReservedIn(worker))
             n == Len(queue)
             m == Len(queue')
  <2>1. c \in Nat /\ n \in Nat \ {0} /\ m = n - 1 /\ a + n + c <= Capacity /\ Capacity \in Nat /\ a \in 0 .. Capacity
    BY <1>2, <1>7, <1>9, WorkerTypes
  <2> HIDE DEF c, n, m
  <2>2. a < Capacity /\ a + 1 \in 0 .. Capacity /\ (a + 1) + m + c <= Capacity
    BY ONLY <2>1
  <2> QED
    BY ONLY <2>2 DEF c, m
<1>11. word' = Encoded(b, a + 1)
  BY <1>1, <1>5, <1>7, <1>10, WordFacts
<1>12. word' \in Int
  BY <1>5, <1>10, <1>11, WordFacts
<1>13. WordOk'
  BY <1>6, <1>10, <1>11 DEF WordOk, b
<1> QED
  BY <1>1, <1>2, <1>3, <1>4, <1>12, <1>13

\* Something other than a footer is broadcast: complete blocks are as they were.
LEMMA BroadcastFacts ==
  ASSUME CreationInv, Fixed, UNCHANGED <<banks, ready>>, loop.pc # "Wait",
         NEW e \in Items, e.kind # "Footer", Broadcast(loop.slot, e)
  PROVE  /\ stream' \in [Slots -> Seq(Items)] /\ stream'[loop.slot] = Append(Stream, e) /\ DoneOk'
         /\ loop'.slot = loop.slot /\ loop'.end = loop.end => StreamOk' /\ Stream' = Append(Stream, e)
<1>1. stream' = [stream EXCEPT ![loop.slot] = Append(Stream, e)]
  BY DEF Broadcast, Stream
<1>2. Append(Stream, e) \in Seq(Items)
  BY LoopTypesHold
<1>3. /\ stream' \in [Slots -> Seq(Items)] /\ stream'[loop.slot] = Append(Stream, e)
      /\ \A s \in Slots : s # loop.slot => stream'[s] = stream[s]
  BY <1>1, <1>2, LoopTypesHold
<1>4. \A i \in DOMAIN Append(Stream, e) : Append(Stream, e)[i].kind # "Footer"
  <2>1. Stream \in Seq(Items) /\ \A i \in DOMAIN Stream : Stream[i].kind # "Footer"
    BY LoopTypesHold DEF CreationInv, BlockOk, StreamOk
  <2> QED
    BY <2>1
<1>5. DoneOk'
  <2> SUFFICES ASSUME NEW s \in Slots, Footer \in ToSet(stream'[s])
               PROVE  \E i \in DOMAIN banks :
                        /\ IsLast(banks, s, i) /\ Matches(stream'[s], banks[i], track)
                        /\ s \in own => ready[s] # NoBlock /\ banks[i].parent = ready[s]
    BY DEF DoneOk, Fixed
  <2>1. s # loop.slot
    <3>1. SUFFICES ASSUME s = loop.slot PROVE FALSE
      OBVIOUS
    <3>2. Footer \in ToSet(Append(Stream, e))
      BY <3>1, <1>3
    <3>3. PICK i \in DOMAIN Append(Stream, e) : Append(Stream, e)[i] = Footer
      BY <3>2 DEF ToSet
    <3>4. Footer.kind = "Footer"
      BY DEF Footer
    <3> QED
      BY <3>3, <3>4, <1>4
  <2>2. stream'[s] = stream[s]
    BY <2>1, <1>3
  <2> QED
    BY <2>2 DEF CreationInv, BlockOk, DoneOk
<1>6. ASSUME loop'.slot = loop.slot, loop'.end = loop.end PROVE StreamOk' /\ Stream' = Append(Stream, e)
  <2>1. Stream' = Append(Stream, e)
    BY <1>3, <1>6 DEF Stream
  <2>2. ASSUME NEW s \in loop.slot + 1 .. loop.end PROVE stream'[s] = <<>>
    <3>0. loop.slot \in 0 .. MaxSlot /\ loop.end \in 0 .. MaxSlot /\ MaxSlot \in Nat
      BY ONLY LoopTypesHold, CreationInv DEF Slots
    <3>1. s \in Slots /\ s # loop.slot
      BY ONLY <3>0, s \in loop.slot + 1 .. loop.end DEF Slots
    <3>2. stream[s] = <<>>
      BY DEF CreationInv, BlockOk, StreamOk
    <3> QED
      BY <3>1, <3>2, <1>3
  <2> QED
    BY <1>4, <1>6, <2>1, <2>2 DEF StreamOk
<1> QED
  BY <1>3, <1>5, <1>6

\* A record of the working bank is taken from the channel and broadcast.
LEMMA RecordStep ==
  ASSUME CreationInv, Fixed, Recording, queue # <<>>, Received, NEW keep \in BOOLEAN,
         Broadcast(loop.slot, Tx(Head(queue).tx)),
         UNCHANGED <<worker, buffer, banks, panicked, stash, parent_ready, ready, optimistic, forks, working>>,
         (loop.pc = "Record" /\ loop'.pc = "Record") \/ (loop.pc \in Draining /\ loop'.pc = "Drain"),
         loop' = [loop EXCEPT !.pc = loop'.pc, !.acc = Accumulated(Head(queue), keep)],
         loop.optimistic \/ loop.then = "Handover" => keep
  PROVE  CreationInv'
<1> DEFINE r == Head(queue)
<1>0. loop.pc # "Wait" /\ ~Marked' /\ loop'.pc \notin Starting /\ loop.pc \notin Starting
  BY DEF Draining, Starting, Marked
<1>1. loop'.pc \in {"Record", "Drain"} /\ r.tx \in Nat /\ working # None
  <2>1. Head(queue) \in QueueRecords /\ queue[1] = Head(queue) /\ 1 \in DOMAIN queue
    BY WorkerTypes
  <2> QED
    BY <2>1 DEF QueueRecords, CreationInv, ChannelOk, EmptyOk
<1>2. Accumulated(r, keep) \in Seq(Nat)
        /\ (keep => Accumulated(r, keep) = Append(loop.acc, r.tx))
  BY <1>1, LoopTypesHold DEF Accumulated
<1> DEFINE acc == Accumulated(r, keep)
<1> HIDE DEF acc
<1>3. loop' = [loop EXCEPT !.pc = loop'.pc, !.acc = acc] /\ acc \in Seq(Nat)
  BY <1>2 DEF acc
<1>4. loop' \in LoopRecords
  BY <1>1, <1>3, LoopTypesHold DEF LoopRecords
<1>5. /\ loop'.then = loop.then /\ loop'.slot = loop.slot
      /\ loop'.end = loop.end /\ loop'.parent = loop.parent /\ loop'.optimistic = loop.optimistic
      /\ loop'.shut = loop.shut /\ loop'.acc = acc
  BY <1>3, LoopTypesHold DEF LoopRecords
<1>6. Open' <=> Open
  BY <1>5 DEF Open, Draining
<1>7. /\ WordOk' /\ word' \in Int /\ indexes' = indexes
      /\ queue' \in Seq(QueueRecords) /\ Len(queue') = Len(queue) - 1 /\ Len(queue) \in Nat \ {0}
      /\ \A i \in DOMAIN queue' : queue'[i].bank = working
  BY <1>6, ReceivedFacts
<1>e. Tx(r.tx) \in Items /\ Tx(r.tx).kind = "Tx" /\ Tx(r.tx).kind # "Footer"
  BY <1>1, ItemFacts
<1>8. /\ stream' \in [Slots -> Seq(Items)] /\ DoneOk' /\ StreamOk' /\ Stream' = Append(Stream, Tx(r.tx))
  BY <1>0, <1>e, <1>5, BroadcastFacts
<1>9. AnnouncedOk' /\ ~panicked'
  BY AnnouncedStay DEF CreationInv
<1>10. ChannelTypes' /\ LoopTypes' /\ ScheduleOk' /\ PlacesOk'
  BY <1>4, <1>7, <1>8 DEF CreationInv, TypesOk, ChannelTypes, LoopTypes, ScheduleOk, PlacesOk, Fixed
<1>11. EmptyOk'
  <2>1. ~Emptied /\ ~Emptied' /\ loop'.pc # "Recheck"
    <3>1. ~Emptied
      BY DEF CreationInv, ChannelOk, EmptyOk
    <3> QED
      BY <3>1, <1>1, <1>5 DEF Emptied, Starting, Draining
  <2> QED
    BY <1>1, <1>7, <2>1 DEF EmptyOk
<1>12. WorkersOk'
  BY <1>1 DEF CreationInv, ChannelOk, WorkersOk, HoldsFreezeLock
<1>13. ForksOk'
  BY <1>5 DEF CreationInv, ForksOk
<1>14. PcsOk'
  BY <1>5 DEF CreationInv, ControlOk, PcsOk, Starting, Draining
<1>15. WorkingOk'
  BY <1>1, <1>5 DEF CreationInv, ControlOk, WorkingOk, Draining
<1>16. WindowOk'
  BY <1>0, <1>5 DEF CreationInv, ControlOk, WindowOk, Fixed
<1>17. loop.then \notin {"MovedOn", "Failed"} /\ ~Marked /\ Recording'
       /\ loop.pc \in {"Restart", "Record", "Quiesce", "Freeze"} \cup Draining
  BY <1>0, <1>1, <1>5 DEF Recording, Draining
<1>18. BankOk'
  BY <1>1, <1>5, <1>17 DEF CreationInv, BlockOk, BankOk
<1>19. HandoverOk'
  BY <1>0 DEF HandoverOk
<1> DEFINE U == UpdateOf(Stream)
<1>20. BodyFrom(Stream, U) /\ Stream \in Seq(Items)
       /\ (U > 0 /\ loop.then # "Handover" => Stream[U].parent = loop.parent)
  BY <1>17, LoopTypesHold DEF CreationInv, BlockOk, BodyOk
<1> HIDE DEF U
<1>21. U \in 0 .. Len(Stream) /\ Len(Stream) \in Nat
  BY <1>20 DEF BodyFrom
<1>22. BodyFrom(Stream', U) /\ UpdateOf(Stream') = U /\ Stream' \in Seq(Items)
  BY <1>1, <1>8, <1>20, BodyTx
<1>23. U > 0 => Stream'[U] = Stream[U]
  BY <1>8, <1>20, <1>21, <1>e
<1>24. BodyOk'
  BY <1>0, <1>5, <1>17, <1>20, <1>22, <1>23 DEF BodyOk
<1>25. RecordingOk'
  <2>1. Sent' = Sent
    <3>1. Sent' = SentFrom(Append(Stream, Tx(r.tx)), U, Tail(queue)) /\ Sent = SentFrom(Stream, U, queue)
      BY <1>8, <1>22 DEF Sent, U, Received
    <3> QED
      BY <3>1, <1>20, <1>21, SentMove, WorkerTypes
  <2>2. Accepted' = Accepted
    BY DEF Accepted
  <2>3. /\ Agree(Sent, Accepted, track) /\ (track => indexes = (Len(Stream) - U) + Len(queue))
        /\ \A i \in DOMAIN Sent : Sent[i] \notin UnsentIn(worker, buffer)
        /\ loop.optimistic \/ loop.then = "Handover" =>
             ToSet(loop.acc) = {Stream[i].tx : i \in U + 1 .. Len(Stream)}
    BY DEF CreationInv, BlockOk, RecordingOk, U
  <2>4. Len(Stream') = Len(Stream) + 1
    BY <1>8, <1>20, <1>e
  <2>5. track => indexes' = (Len(Stream') - U) + Len(queue')
    BY <1>7, <1>21, <2>3, <2>4
  <2>6. loop.optimistic \/ loop.then = "Handover" =>
          ToSet(acc) = {Stream'[i].tx : i \in U + 1 .. Len(Stream')}
    <3>1. SUFFICES ASSUME loop.optimistic \/ loop.then = "Handover"
                   PROVE  ToSet(acc) = {Stream'[i].tx : i \in U + 1 .. Len(Stream')}
      OBVIOUS
    <3>2. acc = Append(loop.acc, r.tx)
      BY <3>1, <1>2 DEF acc
    <3> DEFINE t == r.tx
    <3>a. t \in Nat /\ loop.acc \in Seq(Nat) /\ acc = Append(loop.acc, t) /\ Stream' = Append(Stream, Tx(t))
      BY <3>2, <1>1, <1>8, LoopTypesHold
    <3> HIDE DEF t
    <3>3. ToSet(acc) = ToSet(loop.acc) \cup {t}
      <4> DEFINE q == loop.acc
      <4>1. q \in Seq(Nat) /\ t \in Nat /\ acc = Append(q, t)
        BY <3>a
      <4> HIDE DEF q
      <4>2. ToSet(Append(q, t)) = ToSet(q) \cup {t}
        <5>1. \A S : \A f \in Seq(S) : \A x \in S : ToSet(Append(f, x)) = ToSet(f) \cup {x}
          BY ONLY ToSetAppend, Zenon
        <5> HIDE DEF ToSet
        <5>2. \A f \in Seq(Nat) : \A x \in Nat : ToSet(Append(f, x)) = ToSet(f) \cup {x}
          BY ONLY <5>1, Zenon
        <5> QED
          BY ONLY <4>1, <5>2, Zenon
      <4> QED
        BY <4>1, <4>2 DEF q
    <3>4. {Stream'[i].tx : i \in U + 1 .. Len(Stream')} = {Stream[i].tx : i \in U + 1 .. Len(Stream)} \cup {t}
      <4> DEFINE q == Stream
                 p == Append(q, Tx(t))
      <4>1. q \in Seq(Items) /\ U \in 0 .. Len(q) /\ t \in Nat /\ Stream' = p
        BY <3>a, <1>20, <1>21
      <4> HIDE DEF q
      <4>2. {p[i].tx : i \in U + 1 .. Len(p)} = {q[i].tx : i \in U + 1 .. Len(q)} \cup {t}
        BY ONLY <4>1, BodyTxs
      <4> HIDE DEF p
      <4> QED
        BY ONLY <4>1, <4>2 DEF q
    <3> QED
      BY <3>1, <3>3, <3>4, <2>3
  <2> QED
    BY <1>5, <1>22, <2>1, <2>2, <2>3, <2>5, <2>6 DEF RecordingOk, Fixed
<1> QED
  BY <1>7, <1>8, <1>9, <1>10, <1>11, <1>12, <1>13, <1>14, <1>15, <1>16, <1>18, <1>19, <1>24, <1>25
  DEF CreationInv, TypesOk, ControlOk, ChannelOk, BlockOk

\* A record of the working bank is recorded: the head of the channel always is one.
LEMMA HeadRecorded ==
  ASSUME CreationInv, queue # <<>>
  PROVE  Recorded(Head(queue)) /\ working # None
<1>1. queue[1] = Head(queue) /\ 1 \in DOMAIN queue
  BY WorkerTypes
<1> QED
  BY <1>1 DEF CreationInv, ChannelOk, EmptyOk, Recorded

\* A record is taken while the channel is open.
LEMMA RecordOneStep ==
  ASSUME CreationInv, Fixed, RecordOne
  PROVE  CreationInv'
<1>1. /\ loop.pc = "Record" /\ queue # <<>>
      /\ UNCHANGED <<worker, buffer, banks, panicked, stash, parent_ready, ready, optimistic, forks, working>>
  BY DEF RecordOne, workerVars, votorVars, replayVars
<1>2. Recorded(Head(queue))
  BY <1>1, HeadRecorded
<1>3. /\ Received /\ Broadcast(loop.slot, Tx(Head(queue).tx))
      /\ loop' = [loop EXCEPT !.acc = Accumulated(Head(queue), loop.optimistic)]
  BY <1>2 DEF RecordOne
<1> DEFINE keep == loop.optimistic
           acc == Accumulated(Head(queue), keep)
<1>4. loop' = [loop EXCEPT !.acc = acc] /\ keep \in BOOLEAN /\ (loop.optimistic => keep)
  BY <1>3, LoopTypesHold
<1> HIDE DEF acc, keep
<1>5. loop'.pc = "Record"
  BY <1>1, <1>4, LoopTypesHold DEF LoopRecords
<1>6. loop' = [loop EXCEPT !.pc = "Record", !.acc = acc]
  BY <1>1, <1>4, LoopTypesHold DEF LoopRecords
<1>7. loop' = [loop EXCEPT !.pc = loop'.pc, !.acc = Accumulated(Head(queue), keep)]
  BY <1>5, <1>6 DEF acc
<1>8. Recording /\ loop.then = "None"
  BY <1>1, LoopTypesHold DEF CreationInv, ControlOk, PcsOk, Recording, Marked
<1>9. (loop.pc = "Record" /\ loop'.pc = "Record") \/ (loop.pc \in Draining /\ loop'.pc = "Drain")
  BY <1>1, <1>5
<1>10. loop.optimistic \/ loop.then = "Handover" => keep
  <2>1. loop.then # "Handover"
    BY <1>8
  <2>2. loop.optimistic => keep
    BY <1>4
  <2> QED
    BY ONLY <2>1, <2>2, Zenon
<1> QED
  BY <1>1, <1>3, <1>4, <1>7, <1>8, <1>9, <1>10, RecordStep

\* A record is taken while the channel is drained: recorded, or discarded with its block.
LEMMA DrainOneStep ==
  ASSUME CreationInv, Fixed, DrainOne
  PROVE  CreationInv'
<1>1. /\ loop.pc \in {"Drain", "Recheck"} /\ queue # <<>> /\ Received
      /\ UNCHANGED <<worker, buffer, banks, panicked, stash, parent_ready, ready, optimistic, forks, working>>
  BY DEF DrainOne, workerVars, votorVars, replayVars
<1>2. Recorded(Head(queue)) /\ working # None
  BY <1>1, HeadRecorded
<1>3. CASE loop.then \notin {"MovedOn", "Failed"}
  <2> DEFINE keep == loop.then \in {"AwaitParent", "Handover"}
             acc == Accumulated(Head(queue), keep)
  <2>1. Broadcast(loop.slot, Tx(Head(queue).tx)) /\ loop' = [loop EXCEPT !.pc = "Drain", !.acc = acc]
    BY <1>2, <1>3 DEF DrainOne
  <2>2. Recording /\ loop.pc \in Draining /\ keep \in BOOLEAN
    BY <1>1, <1>3 DEF Recording, Marked, Draining
  <2>3. loop.optimistic \/ loop.then = "Handover" => keep
    BY <1>1, <1>3, LoopTypesHold DEF CreationInv, ControlOk, PcsOk, Draining, LoopRecords
  <2> HIDE DEF keep, acc
  <2>4. loop'.pc = "Drain"
    BY <2>1, LoopTypesHold DEF LoopRecords
  <2>5. loop' = [loop EXCEPT !.pc = loop'.pc, !.acc = Accumulated(Head(queue), keep)]
    BY <2>1, <2>4 DEF acc
  <2> QED
    BY <1>1, <2>1, <2>2, <2>3, <2>4, <2>5, RecordStep
<1>4. CASE loop.then \in {"MovedOn", "Failed"}
  <2>1. stream' = stream /\ loop' = [loop EXCEPT !.pc = "Drain", !.then = loop.then]
    BY <1>4, LoopTypesHold DEF DrainOne, LoopRecords
  <2>2. /\ loop' \in LoopRecords /\ loop'.pc = "Drain" /\ loop'.then = loop.then /\ loop'.slot = loop.slot
        /\ loop'.end = loop.end /\ loop'.parent = loop.parent /\ loop'.optimistic = loop.optimistic
        /\ loop'.shut = loop.shut /\ loop'.acc = loop.acc
    BY <2>1, LoopTypesHold DEF LoopRecords
  <2>3. ~Open' /\ ~Open
    BY <1>1, <2>2 DEF Open
  <2>4. /\ WordOk' /\ word' \in Int /\ indexes' = indexes /\ queue' \in Seq(QueueRecords)
        /\ \A i \in DOMAIN queue' : queue'[i].bank = working
    BY <1>1, <2>3, ReceivedFacts
  <2>5. AnnouncedOk' /\ ~panicked'
    BY <1>1, AnnouncedStay DEF CreationInv
  <2>6. ChannelTypes' /\ LoopTypes' /\ ScheduleOk' /\ PlacesOk'
    BY <1>1, <2>1, <2>2, <2>4 DEF CreationInv, TypesOk, ChannelTypes, LoopTypes, ScheduleOk, PlacesOk, Fixed
  <2>7. EmptyOk'
    BY <1>1, <1>2, <2>2, <2>4 DEF EmptyOk, Emptied, Starting
  <2>8. WorkersOk'
    BY <1>1, <2>2 DEF CreationInv, ChannelOk, WorkersOk, HoldsFreezeLock
  <2>9. ForksOk' /\ StreamOk'
    BY <1>1, <2>1, <2>2 DEF CreationInv, BlockOk, ForksOk, StreamOk, Stream
  <2>10. DoneOk'
    BY <1>1, <2>1, DoneFrame
  <2>11. PcsOk'
    BY <1>1, <1>4, <2>2 DEF PcsOk, Starting
  <2>12. WorkingOk'
    BY <1>1, <1>2, <2>2 DEF CreationInv, ControlOk, WorkingOk
  <2>13. WindowOk'
    BY <1>1, <2>2 DEF CreationInv, ControlOk, WindowOk, Fixed
  <2>14. ~Recording' /\ ~Marked' /\ loop'.pc \notin Starting
    BY <1>4, <2>2 DEF Recording, Marked, Starting
  <2>15. RecordingOk' /\ BodyOk' /\ HandoverOk'
    BY <2>14 DEF RecordingOk, BodyOk, HandoverOk
  <2>16. BankOk'
    BY <1>1, <1>4, <2>2 DEF CreationInv, BlockOk, BankOk, Draining
  <2> QED
    BY <2>4, <2>5, <2>6, <2>7, <2>8, <2>9, <2>10, <2>11, <2>12, <2>13, <2>15, <2>16
    DEF CreationInv, TypesOk, ControlOk, ChannelOk, BlockOk
<1> QED
  BY <1>3, <1>4

\* What the records of a drained bank carried is what its workers had accepted.
LEMMA DrainedBody ==
  ASSUME CreationInv, Recording, queue = <<>>
  PROVE  LET body == {Stream[i].tx : i \in UpdateOf(Stream) + 1 .. Len(Stream)} IN
           body = TxsOf(Accepted) /\ body \cap UnsentIn(worker, buffer) = {}
<1> DEFINE q == Stream
           u == UpdateOf(Stream)
           sent == SentFrom(q, u, <<>>)
           body == {q[i].tx : i \in u + 1 .. Len(q)}
<1>1. q \in Seq(Items) /\ u \in 0 .. Len(q) /\ Len(q) \in Nat
  <2>1. BodyFrom(q, u)
    BY DEF CreationInv, BlockOk, BodyOk
  <2> QED
    BY <2>1, LoopTypesHold DEF BodyFrom
<1>2. Sent = sent
  BY DEF Sent
<1>3. Agree(sent, Accepted, track) /\ \A i \in DOMAIN sent : sent[i] \notin UnsentIn(worker, buffer)
  BY <1>2 DEF CreationInv, BlockOk, RecordingOk
<1>4. DOMAIN sent = 1 .. Len(q) - u /\ \A i \in 1 .. Len(q) - u : sent[i] = q[u + i].tx
  BY <1>1, SentFacts
<1> HIDE DEF sent, q, u
<1>5. ASSUME NEW t \in body PROVE \E i \in DOMAIN sent : sent[i] = t
  <2>1. PICK i \in u + 1 .. Len(q) : t = q[i].tx
    BY <1>5
  <2>2. i - u \in 1 .. Len(q) - u /\ u + (i - u) = i
    BY <1>1, <2>1
  <2> QED
    BY <1>4, <2>1, <2>2
<1>6. ASSUME NEW i \in DOMAIN sent PROVE sent[i] \in body
  <2>1. u + i \in u + 1 .. Len(q) /\ sent[i] = q[u + i].tx
    BY <1>1, <1>4, <1>6
  <2> QED
    BY <2>1
<1>7. body = {sent[i] : i \in DOMAIN sent}
  <2> HIDE DEF body
  <2> QED
    BY <1>5, <1>6
<1>8. {sent[i] : i \in DOMAIN sent} = TxsOf(Accepted)
  BY <1>3, AgreeTxs
<1>9. body \cap UnsentIn(worker, buffer) = {}
  <2> HIDE DEF body
  <2> QED
    BY <1>3, <1>5
<1>10. body = TxsOf(Accepted)
  BY <1>7, <1>8
<1> HIDE DEF body
<1>11. body = {Stream[i].tx : i \in UpdateOf(Stream) + 1 .. Len(Stream)}
  BY DEF body, q, u
<1> QED
  BY <1>9, <1>10, <1>11

-----------------------------------------------------------------------------
(* The channel is drained. *)

\* The old bank is drained: the marker is broadcast, and what the bank accepted is kept.
LEMMA MarkStep ==
  ASSUME CreationInv, Fixed, loop.pc = "Recheck", queue = <<>>, loop.then = "Handover",
         loop' = [loop EXCEPT !.pc = "Quiesce"], Broadcast(loop.slot, UpdateParent(loop.parent)),
         UNCHANGED <<word, queue, indexes, worker, buffer, banks, panicked, stash, parent_ready, ready,
                     optimistic, forks, working>>
  PROVE  CreationInv'
<1>1. /\ loop' \in LoopRecords /\ loop'.pc = "Quiesce" /\ loop'.then = loop.then /\ loop'.slot = loop.slot
      /\ loop'.end = loop.end /\ loop'.parent = loop.parent /\ loop'.optimistic = loop.optimistic
      /\ loop'.shut = loop.shut /\ loop'.acc = loop.acc
  BY LoopTypesHold DEF LoopRecords
<1> DEFINE e == UpdateParent(loop.parent)
<1>2. e \in Items /\ e.kind # "Footer" /\ Stream \in Seq(Items) /\ loop.parent \in [slot : Int, id : Int]
  BY LoopTypesHold, ItemFacts
<1>3. /\ stream' \in [Slots -> Seq(Items)] /\ DoneOk' /\ StreamOk' /\ Stream' = Append(Stream, e)
  BY <1>1, <1>2, BroadcastFacts
<1>4. AnnouncedOk' /\ ~panicked'
  BY AnnouncedStay DEF CreationInv
<1>5. ChannelTypes' /\ LoopTypes' /\ ScheduleOk' /\ PlacesOk'
  BY <1>1, <1>3 DEF CreationInv, TypesOk, ChannelTypes, LoopTypes, ScheduleOk, PlacesOk, Fixed
<1>6. WordOk'
  <2>1. ~Open /\ ~Open'
    BY <1>1 DEF Open
  <2> QED
    BY <2>1 DEF CreationInv, ChannelOk, WordOk
<1>7. EmptyOk'
  BY DEF CreationInv, ChannelOk, EmptyOk
<1>8. WorkersOk'
  BY <1>1 DEF CreationInv, ChannelOk, WorkersOk, HoldsFreezeLock
<1>9. ForksOk'
  BY <1>1 DEF CreationInv, ForksOk
<1>10. PcsOk'
  BY <1>1 DEF CreationInv, ControlOk, PcsOk, Starting, Draining
<1>11. WorkingOk' /\ working # None
  BY <1>1 DEF CreationInv, ControlOk, WorkingOk, Draining
<1>12. WindowOk'
  BY <1>1 DEF CreationInv, ControlOk, WindowOk, Fixed
<1>13. Recording /\ ~Recording' /\ Marked' /\ loop'.pc \notin Starting
  BY <1>1 DEF Recording, Marked, Draining, Starting
<1>14. BankOk'
  BY <1>1, <1>11 DEF CreationInv, BlockOk, BankOk, Draining
<1>15. RecordingOk'
  BY <1>13 DEF RecordingOk
<1>16. BodyOk'
  <2> DEFINE q == Stream
             b == loop.parent
  <2>1. q \in Seq(Items) /\ b \in [slot : Int, id : Int] /\ Stream' = Append(q, UpdateParent(b))
    BY <1>2, <1>3
  <2> HIDE DEF q, b
  <2> DEFINE p == Append(q, UpdateParent(b))
  <2>2. /\ BodyFrom(p, Len(q) + 1) /\ UpdateOf(p) = Len(q) + 1 /\ Len(p) = Len(q) + 1
        /\ p[Len(q) + 1].parent = b
    BY <2>1, BodyMark
  <2> HIDE DEF p
  <2>3. Stream' = p /\ loop'.parent = b
    BY <2>1, <1>1 DEF p, b
  <2> QED
    BY <1>13, <2>2, <2>3 DEF BodyOk
<1>17. HandoverOk'
  <2>1. ToSet(loop.acc) = {Stream[i].tx : i \in UpdateOf(Stream) + 1 .. Len(Stream)}
    BY <1>13 DEF CreationInv, BlockOk, RecordingOk
  <2>2. ToSet(loop.acc) = TxsOf(Accepted) /\ ToSet(loop.acc) \cap UnsentIn(worker, buffer) = {}
    BY <1>13, <2>1, DrainedBody
  <2>3. Accepted' = Accepted
    BY DEF Accepted
  <2> QED
    BY <1>1, <1>13, <2>2, <2>3 DEF HandoverOk, Starting
<1> QED
  BY <1>3, <1>4, <1>5, <1>6, <1>7, <1>8, <1>9, <1>10, <1>11, <1>12, <1>14, <1>15, <1>16, <1>17
  DEF CreationInv, TypesOk, ControlOk, ChannelOk, BlockOk

\* The channel is drained, and the loop goes on with what it had in mind.
LEMMA DrainedStep ==
  ASSUME CreationInv, Fixed, Drained
  PROVE  CreationInv'
<1>1. /\ loop.pc = "Recheck" /\ queue = <<>>
      /\ UNCHANGED <<word, queue, indexes, worker, buffer, banks, panicked, stash, parent_ready, ready,
                     optimistic, forks, working>>
  BY DEF Drained, channelVars, workerVars, votorVars, replayVars
<1>2. AnnouncedOk' /\ (stream' = stream => Kept)
  BY <1>1, AnnouncedStay DEF Kept
<1>3. loop.then \in {"AwaitParent", "Complete", "Handover", "MovedOn", "Failed"}
  BY <1>1, LoopTypesHold DEF CreationInv, ControlOk, PcsOk, Draining, LoopRecords
<1>4. CASE loop.then = "Handover"
  <2>1. loop' = [loop EXCEPT !.pc = "Quiesce"] /\ Broadcast(loop.slot, UpdateParent(loop.parent))
    BY <1>4 DEF Drained
  <2> QED
    BY <1>1, <1>4, <2>1, MarkStep
<1>5. CASE loop.then = "Failed" /\ working = None
  <2>1. loop' = IdleLoop /\ stream' = stream
    BY <1>5 DEF Drained
  <2> QED
    BY <1>1, <1>2, <1>5, <2>1, IdleStep
<1>6. CASE loop.then = "AwaitParent"
  <2>1. loop' = [loop EXCEPT !.pc = "Record", !.shut = TRUE, !.then = "None"] /\ stream' = stream
    BY <1>6 DEF Drained
  <2>2. /\ loop' \in LoopRecords /\ loop'.pc = "Record" /\ loop'.then = "None" /\ loop'.slot = loop.slot
        /\ loop'.end = loop.end /\ loop'.parent = loop.parent /\ loop'.optimistic = loop.optimistic
        /\ loop'.shut = TRUE /\ loop'.acc = loop.acc
    BY <2>1, LoopTypesHold DEF LoopRecords
  <2>3. ~Open /\ ~Open'
    BY <1>1, <2>2 DEF Open
  <2>4. /\ ~panicked' /\ ChannelTypes' /\ LoopTypes' /\ ScheduleOk' /\ WordOk' /\ WorkersOk'
        /\ ForksOk' /\ PlacesOk' /\ StreamOk' /\ DoneOk'
    BY <1>1, <1>2, <2>1, <2>2, <2>3, TurnFrame
  <2>5. PcsOk'
    BY <2>2 DEF PcsOk, Starting, Draining
  <2>6. WorkingOk'
    BY <1>1, <1>6, <2>2 DEF CreationInv, ControlOk, WorkingOk, Draining
  <2>7. WindowOk'
    BY <1>1, <1>6, <2>2 DEF CreationInv, ControlOk, WindowOk, Fixed
  <2>8. EmptyOk'
    BY <1>1 DEF CreationInv, ChannelOk, EmptyOk
  <2>9. Recording /\ ~Marked' /\ loop'.pc \notin Starting
    BY <1>1, <1>6, <2>2 DEF Recording, Marked, Starting, Draining
  <2>10. loop.optimistic
    BY <1>6 DEF CreationInv, ControlOk, PcsOk
  <2>11. RecordingOk' /\ BodyOk' /\ HandoverOk' /\ BankOk'
    BY <1>2, <1>6, <2>1, <2>2, <2>9, <2>10, KeepRecording
  <2> QED
    BY <1>2, <2>4, <2>5, <2>6, <2>7, <2>8, <2>11 DEF CreationInv, TypesOk, ControlOk, ChannelOk, BlockOk
<1>7. CASE loop.then \in {"Complete", "MovedOn", "Failed"} /\ ~(loop.then = "Failed" /\ working = None)
  <2>1. loop' = [loop EXCEPT !.pc = "Quiesce"] /\ stream' = stream
    BY <1>7 DEF Drained
  <2>2. /\ loop' \in LoopRecords /\ loop'.pc = "Quiesce" /\ loop'.then = loop.then /\ loop'.slot = loop.slot
        /\ loop'.end = loop.end /\ loop'.parent = loop.parent /\ loop'.optimistic = loop.optimistic
        /\ loop'.shut = loop.shut /\ loop'.acc = loop.acc
    BY <2>1, LoopTypesHold DEF LoopRecords
  <2>3. ~Open /\ ~Open'
    BY <1>1, <2>2 DEF Open
  <2>4. /\ ~panicked' /\ ChannelTypes' /\ LoopTypes' /\ ScheduleOk' /\ WordOk' /\ WorkersOk'
        /\ ForksOk' /\ PlacesOk' /\ StreamOk' /\ DoneOk'
    BY <1>1, <1>2, <2>1, <2>2, <2>3, TurnFrame
  <2>5. PcsOk'
    BY <1>7, <2>2 DEF CreationInv, ControlOk, PcsOk, Starting, Draining
  <2>6. WorkingOk' /\ working # None
    BY <1>1, <1>7, <2>2 DEF CreationInv, ControlOk, WorkingOk, Draining
  <2>7. WindowOk'
    BY <1>1, <2>2 DEF CreationInv, ControlOk, WindowOk, Fixed
  <2>8. EmptyOk'
    BY <1>1 DEF CreationInv, ChannelOk, EmptyOk
  <2>9. ~Marked' /\ loop'.pc \notin Starting
    BY <1>7, <2>2 DEF Marked, Starting
  <2>10. RecordingOk' /\ BodyOk' /\ HandoverOk' /\ BankOk'
    <3>1. CASE loop.then = "Complete"
      <4>1. Recording /\ ~loop.optimistic
        BY <1>1, <3>1 DEF Recording, Marked, Draining, CreationInv, ControlOk, PcsOk
      <4> QED
        BY <1>2, <2>1, <2>2, <2>9, <3>1, <4>1, KeepRecording
    <3>2. CASE loop.then \in {"MovedOn", "Failed"}
      <4>1. ~Recording'
        BY <2>2, <3>2 DEF Recording
      <4>2. BankOk'
        BY <1>1, <2>2, <2>6, <3>2 DEF CreationInv, BlockOk, BankOk, Draining
      <4> QED
        BY <2>9, <4>1, <4>2 DEF RecordingOk, BodyOk, HandoverOk
    <3> QED
      BY <1>7, <3>1, <3>2
  <2> QED
    BY <1>2, <2>4, <2>5, <2>6, <2>7, <2>8, <2>10 DEF CreationInv, TypesOk, ControlOk, ChannelOk, BlockOk
<1> QED
  BY <1>3, <1>4, <1>5, <1>6, <1>7

-----------------------------------------------------------------------------
(* A bank is completed, cleared or aborted. *)

\* Once no commit is in flight in the working bank, no worker holds a freeze lock.
LEMMA NoInflight ==
  ASSUME CreationInv, ~Inflight
  PROVE  /\ \A w \in Workers : ~HoldsFreezeLock(w) /\ worker[w].pc \in {"Idle", "Ready"}
         /\ ActiveSenders = 0 /\ Accepted = banks[working].committed
<1>1. \A w \in Workers : ~HoldsFreezeLock(w)
  BY DEF CreationInv, ChannelOk, WorkersOk, Inflight, InflightCommits
<1>2. \A w \in Workers : worker[w].pc \in {"Idle", "Ready"}
  BY <1>1, WorkerTypes DEF HoldsFreezeLock, Announced, WorkerRecords
<1>3. {w \in Workers : worker[w].pc \in Announced} = {}
  BY <1>2 DEF Announced
<1>4. ActiveSenders = 0
  BY <1>3, FS_EmptySet DEF ActiveSenders
<1>5. Accepted = banks[working].committed
  BY <1>2 DEF Accepted, AcceptedIn
<1> QED
  BY <1>1, <1>2, <1>4, <1>5

\* The bank is ticked when no commit is in flight.
LEMMA TickStep ==
  ASSUME CreationInv, Fixed, Tick
  PROVE  CreationInv'
<1>1. /\ loop.pc = "Quiesce" /\ loop.then = "Complete" /\ ~Inflight
      /\ banks' = [banks EXCEPT ![working].ticked = TRUE] /\ loop' = [loop EXCEPT !.pc = "Freeze"]
      /\ UNCHANGED <<word, queue, indexes, worker, buffer, panicked, stash, parent_ready, ready,
                     optimistic, forks, working, stream>>
  BY DEF Tick, channelVars, workerVars, votorVars, replayVars, recorderVars
<1>2. working # None /\ working \in DOMAIN banks /\ banks \in Seq(BankRecords)
  <2>1. working # None
    BY <1>1 DEF CreationInv, ControlOk, WorkingOk
  <2> QED
    BY <2>1, WorkerTypes
<1>3. /\ banks' \in Seq(BankRecords) /\ Len(banks') = Len(banks) /\ DOMAIN banks' = DOMAIN banks
      /\ \A j \in DOMAIN banks :
           /\ banks'[j].slot = banks[j].slot /\ banks'[j].parent = banks[j].parent
           /\ banks'[j].committed = banks[j].committed
           /\ banks[j].frozen => banks'[j].frozen
  BY <1>1, <1>2, FlagFacts
<1>4. /\ loop' \in LoopRecords /\ loop'.pc = "Freeze" /\ loop'.then = loop.then /\ loop'.slot = loop.slot
      /\ loop'.end = loop.end /\ loop'.parent = loop.parent /\ loop'.optimistic = loop.optimistic
      /\ loop'.shut = loop.shut /\ loop'.acc = loop.acc
  BY <1>1, LoopTypesHold DEF LoopRecords
<1>5. AnnouncedOk' /\ ~panicked'
  BY <1>1, AnnouncedStay DEF CreationInv
<1>6. ChannelTypes' /\ LoopTypes' /\ ScheduleOk' /\ PlacesOk'
  BY <1>1, <1>3, <1>4 DEF CreationInv, TypesOk, ChannelTypes, LoopTypes, ScheduleOk, PlacesOk, Fixed
<1>7. WordOk'
  <2>1. ~Open /\ ~Open'
    BY <1>1, <1>4 DEF Open
  <2> QED
    BY <1>1, <2>1 DEF CreationInv, ChannelOk, WordOk
<1>8. EmptyOk'
  <2>1. Emptied /\ loop.pc # "Recheck"
    BY <1>1 DEF Emptied
  <2> QED
    BY <1>1, <2>1 DEF CreationInv, ChannelOk, EmptyOk
<1>9. WorkersOk'
  <2>1. \A w \in Workers : worker[w].pc \in {"Idle", "Ready"}
    BY <1>1, NoInflight
  <2> QED
    BY <1>1, <1>3, <2>1 DEF CreationInv, ChannelOk, WorkersOk, HoldsFreezeLock, Announced
<1>10. ForksOk' /\ StreamOk'
  BY <1>1, <1>3, <1>4 DEF CreationInv, BlockOk, ForksOk, StreamOk, Stream
<1>11. DoneOk'
  BY <1>1, <1>3, DoneFrame
<1>12. PcsOk'
  BY <1>1, <1>4 DEF CreationInv, ControlOk, PcsOk, Starting, Draining
<1>13. WorkingOk'
  BY <1>1, <1>2, <1>3, <1>4 DEF CreationInv, ControlOk, WorkingOk, Draining
<1>14. WindowOk'
  BY <1>1, <1>4 DEF CreationInv, ControlOk, WindowOk, Fixed
<1>15. Recording /\ Recording' /\ ~Marked' /\ loop'.pc \notin Starting /\ Stream' = Stream
  BY <1>1, <1>4 DEF Recording, Marked, Starting, Stream
<1>16. BankOk'
  BY <1>1, <1>2, <1>3, <1>4 DEF CreationInv, BlockOk, BankOk
<1>17. BodyOk'
  BY <1>1, <1>4, <1>15 DEF CreationInv, BlockOk, BodyOk
<1>18. Accepted' = Accepted /\ Sent' = Sent
  <2>1. banks'[working].committed = banks[working].committed
    BY <1>2, <1>3
  <2> QED
    BY <1>1, <1>15, <2>1 DEF Accepted, AcceptedIn, Sent
<1>19. RecordingOk'
  BY <1>1, <1>4, <1>15, <1>18 DEF CreationInv, BlockOk, RecordingOk, Fixed
<1>20. HandoverOk'
  BY <1>15 DEF HandoverOk
<1> QED
  BY <1>5, <1>6, <1>7, <1>8, <1>9, <1>10, <1>11, <1>12, <1>13, <1>14, <1>16, <1>17, <1>19, <1>20
  DEF CreationInv, TypesOk, ControlOk, ChannelOk, BlockOk

\* The working bank leaves PohRecorder and, unless it is frozen, BankForks.
LEMMA ReleaseFrame ==
  ASSUME CreationInv, Fixed, loop.pc = "Quiesce" \/ loop.pc = "Freeze",
         ~Inflight \/ loop.pc = "Freeze", working' = None,
         UNCHANGED <<word, queue, indexes, worker, buffer, banks, stash, parent_ready, ready, optimistic>>,
         forks' = [forks EXCEPT ![loop.slot] = NoBank] \/ (forks' = forks /\ banks[working].frozen),
         loop' \in LoopRecords, loop'.pc \in {"Wait", "Start"}, stream' \in [Slots -> Seq(Items)]
  PROVE  /\ ChannelTypes' /\ LoopTypes' /\ ScheduleOk' /\ AnnouncedOk' /\ WorkingOk' /\ ChannelOk' /\ ForksOk'
         /\ PlacesOk' /\ BankOk' /\ RecordingOk' /\ ActiveSenders = 0 /\ queue = <<>> /\ IsShutdown
<1>1. /\ \A w \in Workers : worker[w].pc \in {"Idle", "Ready"}
      /\ ActiveSenders = 0
  BY NoInflight, NoHolders
<1>2. /\ forks' \in [Slots -> Int]
      /\ \A s \in Slots : forks'[s] \in {forks[s], NoBank}
      /\ forks'[loop.slot] = NoBank \/ (forks' = forks /\ banks[working].frozen)
  <2>1. NoBank \in Int
    BY DEF NoBank
  <2> QED
    BY <2>1, LoopTypesHold
<1>3. AnnouncedOk'
  BY AnnouncedStay
<1>4. ChannelTypes' /\ LoopTypes' /\ ScheduleOk' /\ PlacesOk'
  <2>1. None \in Nat
    BY DEF None
  <2> QED
    BY <1>2, <2>1 DEF CreationInv, TypesOk, ChannelTypes, LoopTypes, ScheduleOk, PlacesOk, Fixed
<1>5. ~Open /\ ~Open' /\ Emptied /\ Emptied'
  BY DEF Open, Emptied, Starting
<1>6. WordOk'
  BY <1>5 DEF CreationInv, ChannelOk, WordOk
<1>7. EmptyOk' /\ queue = <<>>
  <2>1. queue = <<>>
    BY <1>5 DEF CreationInv, ChannelOk, EmptyOk
  <2>2. DOMAIN queue = {}
    BY <2>1
  <2> QED
    BY <1>1, <2>1, <2>2 DEF EmptyOk
<1>8. WorkersOk'
  BY <1>1 DEF CreationInv, ChannelOk, WorkersOk, HoldsFreezeLock, Announced
<1>9. ForksOk'
  <2> SUFFICES ASSUME NEW s \in Slots, s > OtherSlot, forks'[s] # NoBank
               PROVE  forks[s] \in DOMAIN banks /\ banks[forks[s]].frozen /\ forks'[s] = forks[s]
    BY DEF ForksOk
  <2>1. forks'[s] = forks[s]
    BY <1>2
  <2>2. forks[s] \in DOMAIN banks /\ (banks[forks[s]].frozen \/ (s = loop.slot /\ forks[s] = working))
    BY <2>1 DEF CreationInv, ForksOk
  <2> QED
    BY <1>2, <2>1, <2>2
<1>10. WorkingOk'
  BY DEF WorkingOk, Draining
<1>11. BankOk' /\ RecordingOk'
  BY DEF BankOk, RecordingOk, Recording, Draining
<1>12. IsShutdown
  BY <1>5, EmptyWord
<1> QED
  BY <1>1, <1>3, <1>4, <1>6, <1>7, <1>8, <1>9, <1>10, <1>11, <1>12 DEF ChannelOk

\* The old bank of a handover is cleared.
LEMMA ClearStep ==
  ASSUME CreationInv, Fixed, ClearForHandover
  PROVE  CreationInv'
<1>1. /\ loop.pc = "Quiesce" /\ loop.then = "Handover" /\ ~Inflight
      /\ forks' = [forks EXCEPT ![loop.slot] = NoBank] /\ working' = None
      /\ loop' = [loop EXCEPT !.pc = "Start"]
      /\ UNCHANGED <<word, queue, indexes, worker, buffer, banks, panicked, stash, parent_ready, ready,
                     optimistic, stream>>
  BY DEF ClearForHandover, channelVars, workerVars, votorVars
<1>2. /\ loop' \in LoopRecords /\ loop'.pc = "Start" /\ loop'.then = loop.then /\ loop'.slot = loop.slot
      /\ loop'.end = loop.end /\ loop'.parent = loop.parent /\ loop'.optimistic = loop.optimistic
      /\ loop'.shut = loop.shut /\ loop'.acc = loop.acc
  BY <1>1, LoopTypesHold DEF LoopRecords
<1>3. /\ ChannelTypes' /\ LoopTypes' /\ ScheduleOk' /\ AnnouncedOk' /\ WorkingOk' /\ ChannelOk' /\ ForksOk'
      /\ PlacesOk' /\ BankOk' /\ RecordingOk'
  BY <1>1, <1>2, LoopTypesHold, ReleaseFrame
<1>4. ~panicked' /\ StreamOk'
  BY <1>1, <1>2 DEF CreationInv, BlockOk, StreamOk, Stream
<1>5. PcsOk'
  BY <1>1, <1>2 DEF CreationInv, ControlOk, PcsOk, Starting, Draining
<1>6. WindowOk'
  BY <1>1, <1>2 DEF CreationInv, ControlOk, WindowOk, Fixed
<1>7. DoneOk'
  BY <1>1, DoneFrame
<1>8. Marked /\ ~Marked' /\ loop'.pc \in Starting /\ ~Recording' /\ ~Recording /\ Stream' = Stream
  BY <1>1, <1>2 DEF Marked, Starting, Recording, Stream, Draining
<1>9. BodyOk'
  BY <1>1, <1>2, <1>8 DEF CreationInv, BlockOk, BodyOk
<1>10. HandoverOk'
  <2>1. ToSet(loop.acc) \cap UnsentIn(worker, buffer) = {} /\ ToSet(loop.acc) = TxsOf(Accepted)
    BY <1>1, <1>8 DEF CreationInv, BlockOk, HandoverOk
  <2>2. working # None /\ working = Len(banks) /\ Len(banks) >= 1
    <3>1. working # None /\ working \in {None, Len(banks)}
      BY <1>1 DEF CreationInv, ControlOk, WorkingOk
    <3> QED
      BY <3>1, WorkerTypes
  <2>3. Accepted = banks[Len(banks)].committed
    BY <1>1, <2>2, NoInflight
  <2> QED
    BY <1>1, <1>2, <1>8, <2>1, <2>2, <2>3 DEF HandoverOk
<1> QED
  BY <1>3, <1>4, <1>5, <1>6, <1>7, <1>9, <1>10 DEF CreationInv, TypesOk, ControlOk, BlockOk

\* With the loop idle nothing is claimed of a window or of a block.
LEMMA IdleFacts ==
  ASSUME loop' = IdleLoop
  PROVE  loop' \in LoopRecords /\ loop'.pc = "Wait" /\ PcsOk' /\ WindowOk' /\ StreamOk' /\ BodyOk' /\ HandoverOk'
<1>1. loop' \in LoopRecords /\ loop'.pc = "Wait" /\ loop'.then = "None" /\ loop'.optimistic = FALSE
  <2>1. 0 \in Slots /\ NoBlock \in [slot : Int, id : Int] /\ <<>> \in Seq(Nat)
    BY BoundsAssumption DEF Slots, NoBlock, NoBank
  <2> QED
    BY <2>1 DEF IdleLoop, LoopRecords
<1>2. PcsOk' /\ WindowOk'
  BY <1>1 DEF PcsOk, WindowOk, Starting, Draining
<1>3. ~Recording' /\ ~Marked' /\ loop'.pc \notin Starting
  BY <1>1 DEF Recording, Marked, Starting, Draining
<1>4. StreamOk' /\ BodyOk' /\ HandoverOk'
  BY <1>1, <1>3 DEF StreamOk, BodyOk, HandoverOk
<1> QED
  BY <1>1, <1>2, <1>4

\* A block is aborted: the recorder is reset with a quiet channel.
LEMMA AbortStep ==
  ASSUME CreationInv, Fixed, Abort
  PROVE  CreationInv'
<1>1. /\ loop.pc = "Quiesce" /\ ~Inflight /\ panicked' = ~Quiet
      /\ forks' = [forks EXCEPT ![loop.slot] = NoBank] /\ working' = None /\ loop' = IdleLoop
      /\ UNCHANGED <<word, queue, indexes, worker, buffer, banks, stash, parent_ready, ready, optimistic, stream>>
  BY DEF Abort, channelVars, workerVars, votorVars
<1>2. loop' \in LoopRecords /\ loop'.pc = "Wait" /\ PcsOk' /\ WindowOk' /\ StreamOk' /\ BodyOk' /\ HandoverOk'
  BY <1>1, IdleFacts
<1>3. /\ ChannelTypes' /\ LoopTypes' /\ ScheduleOk' /\ AnnouncedOk' /\ WorkingOk' /\ ChannelOk' /\ ForksOk'
      /\ PlacesOk' /\ BankOk' /\ RecordingOk' /\ ActiveSenders = 0 /\ queue = <<>> /\ IsShutdown
  BY <1>1, <1>2, LoopTypesHold, ReleaseFrame
<1>4. ~panicked'
  BY <1>1, <1>3 DEF Quiet
<1>5. DoneOk'
  BY <1>1, DoneFrame
<1> QED
  BY <1>2, <1>3, <1>4, <1>5 DEF CreationInv, TypesOk, ControlOk, BlockOk

\* The footer is broadcast: the block is the bank it was made from.
LEMMA SendFooterStep ==
  ASSUME CreationInv, Fixed, SendFooter
  PROVE  CreationInv'
<1>1. /\ loop.pc = "Freeze" /\ banks[working].frozen /\ Broadcast(loop.slot, Footer) /\ working' = None
      /\ loop' = (IF loop.slot = loop.end THEN IdleLoop
                  ELSE [StartAt(loop.slot + 1, Block(loop.slot, AnyId), FALSE) EXCEPT !.end = loop.end])
      /\ UNCHANGED <<word, queue, indexes, worker, buffer, banks, panicked, stash, parent_ready, ready,
                     optimistic, forks>>
  BY DEF SendFooter, channelVars, workerVars, votorVars, replayVars
<1>2. /\ stream' \in [Slots -> Seq(Items)] /\ stream'[loop.slot] = Append(Stream, Footer)
      /\ \A s \in Slots : s # loop.slot => stream'[s] = stream[s]
  <2>1. stream' = [stream EXCEPT ![loop.slot] = Append(Stream, Footer)]
    BY <1>1 DEF Broadcast, Stream
  <2>2. Append(Stream, Footer) \in Seq(Items)
    BY LoopTypesHold, ItemFacts
  <2> QED
    BY <2>1, <2>2, LoopTypesHold
<1>3. /\ loop.then = "Complete" /\ ~loop.optimistic /\ working # None /\ working = Len(banks)
      /\ queue = <<>>
  <2>1. loop.then = "Complete" /\ working # None
    BY <1>1 DEF CreationInv, ControlOk, PcsOk, WorkingOk
  <2>2. Emptied
    BY <1>1 DEF Emptied
  <2> QED
    BY <1>1, <2>1, <2>2 DEF CreationInv, ControlOk, PcsOk, WorkingOk, ChannelOk, EmptyOk
<1>4. working \in DOMAIN banks /\ DOMAIN banks = 1 .. Len(banks) /\ Len(banks) \in Nat
  BY <1>3, WorkerTypes
<1>5. banks[working].slot = loop.slot /\ banks[working].parent = loop.parent
  BY <1>1, <1>3 DEF CreationInv, BlockOk, BankOk
<1>6. Recording /\ loop.pc # "Wait"
  BY <1>1, <1>3 DEF Recording, Marked
<1>7. Matches(Append(Stream, Footer), banks[working], track)
  <2> DEFINE q == Stream
             u == UpdateOf(Stream)
             bank == banks[working]
  <2>1. q \in Seq(Items) /\ BodyFrom(q, u) /\ (u > 0 => q[u].parent = bank.parent)
    BY <1>3, <1>5, <1>6, LoopTypesHold DEF CreationInv, BlockOk, BodyOk
  <2>2. Accepted = bank.committed
    <3>1. \A w \in Workers : worker[w].pc \in {"Idle", "Ready"}
      BY <1>1, NoHolders
    <3> QED
      BY <3>1 DEF Accepted, AcceptedIn
  <2>3. Sent = SentFrom(q, u, <<>>)
    BY <1>3 DEF Sent
  <2>4. Agree(SentFrom(q, u, <<>>), bank.committed, track)
    BY <1>6, <2>2, <2>3 DEF CreationInv, BlockOk, RecordingOk
  <2> HIDE DEF q, u, bank
  <2>5. Matches(Append(q, Footer), bank, track)
    BY <2>1, <2>4, FooterMatches
  <2> QED
    BY <2>5 DEF q, bank
<1>8. DoneOk'
  <2> SUFFICES ASSUME NEW s \in Slots, Footer \in ToSet(stream'[s])
               PROVE  \E i \in DOMAIN banks :
                        /\ IsLast(banks, s, i) /\ Matches(stream'[s], banks[i], track)
                        /\ s \in own => ready[s] # NoBlock /\ banks[i].parent = ready[s]
    BY <1>1 DEF DoneOk, Fixed
  <2>1. CASE s # loop.slot
    BY <1>2, <2>1 DEF CreationInv, BlockOk, DoneOk
  <2>2. CASE s = loop.slot
    <3>1. IsLast(banks, s, working)
      <4>1. \A j \in DOMAIN banks : j <= working
        BY <1>3, <1>4
      <4> QED
        BY <1>4, <1>5, <2>2, <4>1 DEF IsLast
    <3>2. s \in own => ready[s] # NoBlock /\ banks[working].parent = ready[s]
      BY <1>3, <1>5, <1>6, <2>2 DEF CreationInv, ControlOk, WindowOk
    <3>3. Matches(stream'[s], banks[working], track)
      BY <1>2, <1>7, <2>2
    <3> QED
      BY <1>4, <3>1, <3>2, <3>3
  <2> QED
    BY <2>1, <2>2
<1>9. ~panicked'
  BY <1>1 DEF CreationInv
<1>10. CASE loop.slot = loop.end
  <2>1. loop' = IdleLoop
    BY <1>1, <1>10
  <2>2. loop' \in LoopRecords /\ loop'.pc = "Wait" /\ PcsOk' /\ WindowOk' /\ StreamOk' /\ BodyOk' /\ HandoverOk'
    BY <2>1, IdleFacts
  <2>3. /\ ChannelTypes' /\ LoopTypes' /\ ScheduleOk' /\ AnnouncedOk' /\ WorkingOk' /\ ChannelOk' /\ ForksOk'
        /\ PlacesOk' /\ BankOk' /\ RecordingOk'
    BY <1>1, <1>2, <2>2, ReleaseFrame
  <2> QED
    BY <1>8, <1>9, <2>2, <2>3 DEF CreationInv, TypesOk, ControlOk, BlockOk
<1>11. CASE loop.slot # loop.end
  <2> DEFINE n == loop.slot + 1
             b == Block(loop.slot, AnyId)
  <2>1. PICK s \in own : s <= loop.slot /\ loop.slot <= loop.end /\ loop.end = s + WindowSize - 1
    BY <1>6 DEF CreationInv, ControlOk, WindowOk
  <2>2. s \in WindowStarts /\ s \in Nat /\ s + WindowSize - 1 <= MaxSlot /\ loop.slot \in Nat /\ loop.end \in Nat
    <3>1. own \subseteq WindowStarts /\ s + WindowSize - 1 <= MaxSlot
      BY DEF CreationInv, TypesOk, ScheduleOk
    <3>2. s \in WindowStarts
      BY ONLY <3>1, s \in own
    <3>3. s \in Nat
      BY ONLY <3>2, WindowFacts
    <3>4. loop.slot \in 0 .. MaxSlot /\ loop.end \in 0 .. MaxSlot
      BY ONLY LoopTypesHold, CreationInv DEF Slots
    <3>5. loop.slot \in Nat /\ loop.end \in Nat
      BY ONLY <3>4
    <3> QED
      BY ONLY <3>1, <3>2, <3>3, <3>5
  <2>3. n \in Slots /\ s <= n /\ n <= loop.end /\ n # s /\ n <= s + WindowSize - 1
    BY <1>11, <2>1, <2>2, BoundsAssumption DEF Slots
  <2>4. n \notin own
    <3>1. own \subseteq WindowStarts
      BY DEF CreationInv, TypesOk, ScheduleOk
    <3> QED
      BY <2>2, <2>3, <3>1, WindowFacts
  <2>5. b \in [slot : Int, id : Int] /\ b.slot = loop.slot
    BY <2>2 DEF Block, AnyId
  <2>6. loop' = [pc |-> "Start", slot |-> n, end |-> loop.end, parent |-> b, optimistic |-> FALSE,
                 acc |-> <<>>, shut |-> FALSE, then |-> "None"]
    BY <1>1, <1>11 DEF StartAt, IdleLoop
  <2>7. <<>> \in Seq(Nat) /\ loop.end \in Slots
    BY LoopTypesHold
  <2> HIDE DEF n, b
  <2>8. /\ loop' \in LoopRecords /\ loop'.pc = "Start" /\ loop'.then = "None" /\ loop'.slot = n
        /\ loop'.end = loop.end /\ loop'.parent = b /\ loop'.optimistic = FALSE /\ loop'.acc = <<>>
    BY <2>3, <2>5, <2>6, <2>7 DEF LoopRecords
  <2>9. /\ ChannelTypes' /\ LoopTypes' /\ ScheduleOk' /\ AnnouncedOk' /\ WorkingOk' /\ ChannelOk' /\ ForksOk'
        /\ PlacesOk' /\ BankOk' /\ RecordingOk'
    BY <1>1, <1>2, <2>8, ReleaseFrame
  <2>10. PcsOk'
    BY <2>8 DEF PcsOk, Starting, Draining
  <2>11. WindowOk'
    BY <2>1, <2>3, <2>4, <2>5, <2>8, LoopTypesHold DEF WindowOk, Fixed
  <2>12. \A t \in n .. loop.end : stream'[t] = <<>>
    <3> SUFFICES ASSUME NEW t \in n .. loop.end PROVE stream'[t] = <<>>
      OBVIOUS
    <3>1. t \in loop.slot + 1 .. loop.end /\ t \in Slots /\ t # loop.slot
      <4>1. n = loop.slot + 1 /\ loop.end \in 0 .. MaxSlot
        BY <2>7 DEF n, Slots
      <4> QED
        BY <2>2, <4>1, BoundsAssumption DEF Slots
    <3>2. stream[t] = <<>>
      BY <1>6, <3>1 DEF CreationInv, BlockOk, StreamOk
    <3> QED
      BY <1>2, <3>1, <3>2
  <2>13. Stream' = <<>>
    <3>1. n \in n .. loop.end
      BY <2>2, <2>3 DEF Slots
    <3> QED
      BY <2>8, <2>12, <3>1 DEF Stream
  <2>14. StreamOk'
    <3>1. \A t \in n + 1 .. loop.end : stream'[t] = <<>>
      <4>1. \A t \in n + 1 .. loop.end : t \in n .. loop.end
        BY <2>2, <2>3 DEF Slots
      <4> QED
        BY <4>1, <2>12
    <3>2. DOMAIN <<>> = {}
      OBVIOUS
    <3> QED
      BY <2>8, <2>13, <3>1, <3>2 DEF StreamOk
  <2>15. BodyOk'
    <3>1. UpdateOf(Stream') = 0 /\ BodyFrom(Stream', 0) /\ Len(Stream') = 0
      <4>1. Len(<<>>) = 0
        OBVIOUS
      <4> QED
        BY <2>13, <4>1, BodyEmpty
    <3>2. ~(0 > 0)
      OBVIOUS
    <3> QED
      BY <2>8, <2>13, <3>1, <3>2 DEF BodyOk
  <2>16. HandoverOk'
    BY <2>8 DEF HandoverOk
  <2> QED
    BY <1>8, <1>9, <2>9, <2>10, <2>11, <2>14, <2>15, <2>16 DEF CreationInv, TypesOk, ControlOk, BlockOk
<1> QED
  BY <1>10, <1>11

-----------------------------------------------------------------------------
(* The theorems. *)

\* Nothing is started: every part of the invariant holds of the idle loop.
LEMMA InitCreates == ASSUME Init PROVE CreationInv
<1>1. PICK c \in Starts :
        /\ own = c.own /\ others = c.others /\ buffer = c.pending /\ track = c.track
        /\ word = Shutdown /\ queue = <<>> /\ indexes = 0 /\ worker = [w \in Workers |-> IdleWorker]
        /\ banks = <<>> /\ working = None /\ panicked = FALSE
  BY DEF Init, InitChannels
<1>2. /\ loop = IdleLoop /\ stash = None /\ parent_ready = <<>> /\ optimistic = <<>>
      /\ ready = [s \in WindowStarts |-> NoBlock]
      /\ forks = [s \in Slots |-> IF s = 0 THEN 0 ELSE NoBank] /\ stream = [s \in Slots |-> <<>>]
  BY DEF Init
<1>3. /\ loop \in LoopRecords /\ loop.pc = "Wait" /\ loop.then = "None" /\ loop.optimistic = FALSE
  <2>1. 0 \in Slots /\ NoBlock \in [slot : Int, id : Int] /\ <<>> \in Seq(Nat)
    BY BoundsAssumption DEF Slots, NoBlock, NoBank
  <2> QED
    BY <1>2, <2>1 DEF IdleLoop, LoopRecords
<1>4. ~panicked /\ ScheduleOk
  BY <1>1, StartsAssumption DEF ScheduleOk
<1>5. \A w \in Workers : worker[w] \in WorkerRecords /\ worker[w].pc = "Idle"
  <2>1. IdleWorker \in WorkerRecords /\ IdleWorker.pc = "Idle"
    BY DEF IdleWorker, WorkerRecords, None
  <2> QED
    BY <1>1, <2>1
<1>6. Disabled \in Nat /\ Capacity \in Nat /\ 0 \in 0 .. Capacity /\ word = Encoded(Disabled, 0)
  BY <1>1, ChannelAssumption DEF Shutdown
<1>7. word \in Int
  <2>1. Encoded(Disabled, 0) \in Nat
    BY <1>6, WordFacts
  <2> QED
    BY <1>6, <2>1
<1>8. ChannelTypes
  <2>1. queue \in Seq(QueueRecords) /\ banks \in Seq(BankRecords) /\ Len(banks) = 0
    BY <1>1
  <2>2. track \in BOOLEAN /\ buffer \subseteq Nat
    BY <1>1, StartsAssumption, ChannelAssumption
  <2>3. worker \in [Workers -> WorkerRecords]
    BY <1>1, <1>5
  <2>4. working \in Nat /\ indexes \in Nat /\ Len(banks) <= MaxBanks
    BY <1>1, <2>1, BoundsAssumption DEF None
  <2> QED
    BY <1>7, <2>1, <2>2, <2>3, <2>4 DEF ChannelTypes
<1>9. LoopTypes
  <2>1. forks \in [Slots -> Int]
    BY <1>2 DEF NoBank
  <2>2. <<>> \in Seq(Items)
    OBVIOUS
  <2>3. stream \in [Slots -> Seq(Items)]
    BY <1>2, <2>2
  <2> QED
    BY <1>3, <2>1, <2>3 DEF LoopTypes
<1>10. AnnouncedOk
  <2>1. parent_ready \in Seq(own) /\ optimistic \in Seq(Offers) /\ DOMAIN parent_ready = {}
    BY <1>2
  <2>2. ready \in [WindowStarts -> References \cup {NoBlock}]
    BY <1>2
  <2> QED
    BY <1>2, <2>1, <2>2 DEF AnnouncedOk
<1>11. ControlOk
  BY <1>1, <1>2, <1>3 DEF ControlOk, PcsOk, WorkingOk, WindowOk, Starting, Draining
<1>12. ~Open /\ DOMAIN queue = {} /\ Len(queue) = 0
  BY <1>1, <1>3 DEF Open
<1>13. WordOk
  <2>1. ReservedIn(worker) = {}
    BY <1>5 DEF ReservedIn
  <2>2. Cardinality(ReservedIn(worker)) = 0
    BY <2>1, FS_EmptySet
  <2>3. 0 + Len(queue) + Cardinality(ReservedIn(worker)) <= Capacity
    BY <1>6, <1>12, <2>2
  <2> QED
    BY <1>6, <1>12, <2>3 DEF WordOk
<1>14. EmptyOk /\ WorkersOk /\ PlacesOk
  BY <1>1, <1>5, <1>12 DEF EmptyOk, WorkersOk, PlacesOk, HoldsFreezeLock, Announced
<1>15. ForksOk
  <2> SUFFICES ASSUME NEW s \in Slots, s > OtherSlot, forks[s] # NoBank PROVE FALSE
    BY DEF ForksOk
  <2>1. s # 0
    BY BoundsAssumption DEF Slots, OtherSlot
  <2> QED
    BY <1>2, <2>1
<1>16. ~Recording /\ ~Marked /\ loop.pc \notin Starting
  BY <1>3 DEF Recording, Marked, Starting, Draining
<1>17. BankOk /\ StreamOk /\ BodyOk /\ RecordingOk /\ HandoverOk
  BY <1>3, <1>16 DEF BankOk, StreamOk, BodyOk, RecordingOk, HandoverOk, Draining
<1>18. DoneOk
  <2>1. \A s \in Slots : DOMAIN stream[s] = {}
    BY <1>2
  <2> QED
    BY <2>1 DEF DoneOk, ToSet
<1> QED
  BY <1>4, <1>8, <1>9, <1>10, <1>11, <1>13, <1>14, <1>15, <1>17, <1>18
  DEF CreationInv, TypesOk, ChannelOk, BlockOk

\* A stuttering step, or one of the identity alone.
LEMMA IdentityKeeps ==
  ASSUME CreationInv, Fixed,
         UNCHANGED <<channelVars, workerVars, banks, panicked, loopVars, votorVars, replayVars, recorderVars>>
  PROVE  CreationInv'
<1>1. /\ Fixed
      /\ UNCHANGED <<channelVars, workerVars, banks, panicked, loop, working, stream>>
      /\ UNCHANGED <<stash, parent_ready, ready, optimistic, forks>>
  BY DEF loopVars, votorVars, replayVars, recorderVars
<1>2. AnnouncedOk'
  BY <1>1, AnnouncedStay
<1>3. LoopTypes' /\ WindowOk' /\ ForksOk'
  BY <1>1 DEF CreationInv, TypesOk, LoopTypes, ControlOk, WindowOk, ForksOk, Fixed
<1>4. DoneOk'
  BY <1>1, DoneFrame
<1> QED
  BY <1>1, <1>2, <1>3, <1>4, LoopFrame DEF CreationInv, TypesOk, ControlOk, ChannelOk, BlockOk

\* A step of the loop.
LEMMA LoopKeeps ==
  ASSUME CreationInv, Fixed, LoopStep
  PROVE  CreationInv'
  BY SelectStep, StartFailsStep, StartLeaderStep, InsertStep, StartRecordingStep, RecordOneStep, MovedOnStep,
     TimesUpStep, ParentReadyStep, DrainOneStep, DrainingStep, DrainedStep, TickStep, CompletionFailsStep,
     SendFooterStep, ClearStep, AbortStep DEF LoopStep

\* A worker takes a transaction.
LEMMA TakesKeeps ==
  ASSUME CreationInv, Fixed, NEW w \in Workers, NEW t \in Txs, WorkerTakes(w, t)
  PROVE  CreationInv'
  BY TakeStep DEF WorkerTakes

\* Every step keeps the invariant.
LEMMA NextCreates ==
  ASSUME CreationInv, [Next]_vars
  PROVE  CreationInv'
<1>1. CASE UNCHANGED vars
  BY <1>1, IdentityKeeps DEF vars, Fixed
<1>2. CASE Next
  <2>1. Fixed
    BY <1>2 DEF Next, Running, fixedVars, Fixed
  <2>2. CASE LoopRuns
    BY <2>1, <2>2, LoopKeeps DEF LoopRuns
  <2>3. CASE StartForeign \/ LookAgain \/ ChangeIdentity
    BY <2>1, <2>3, IdentityKeeps DEF StartForeign, LookAgain, ChangeIdentity
  <2>4. CASE AnotherRuns
    <3>1. CASE \E w \in Workers : WorkerGoesOn(w) \/ \E t \in Txs : WorkerTakes(w, t)
      BY <2>1, <3>1, WorkerStep, TakesKeeps
    <3>2. CASE \E s \in WindowStarts : Votor(s)
      BY <2>1, <3>2, VotorStep
    <3>3. CASE ReplayOther \/ SwitchBank
      BY <2>1, <3>3, ReplayStep
    <3>4. CASE \E s \in Slots : FreezeOwn(s)
      BY <2>1, <3>4, FreezeStep
    <3> QED
      BY <2>4, <3>1, <3>2, <3>3, <3>4 DEF AnotherRuns
  <2> QED
    BY <1>2, <2>2, <2>3, <2>4 DEF Next
<1> QED
  BY <1>1, <1>2

(* The inductive invariant holds of every state of the loop, the channel,  *)
(* the workers and what was broadcast.                                     *)
THEOREM CreationInvariance == Spec => []CreationInv
<1>1. Init => CreationInv
  BY InitCreates
<1>2. CreationInv /\ [Next]_vars => CreationInv'
  BY NextCreates
<1> QED
  BY <1>1, <1>2, PTL DEF Spec

(* The asserts on the record channel and on the working bank hold, however *)
(* the workers' sends race with the channel's shutdown and wherever the    *)
(* identity changes (block_creation_loop.rs:406 and 1242,                  *)
(* record_channels.rs:156 and 207).  The panic on the leader of a slot     *)
(* (1226) is not among them: TLC shows that it is reached.                 *)
THEOREM CreationNeverPanics == Spec => []CreationNoPanic
<1>1. CreationInv => CreationNoPanic
  BY DEF CreationInv, CreationNoPanic
<1> QED
  BY <1>1, CreationInvariance, PTL

(* When the loop looks for a window there is no working bank, no sender,   *)
(* nothing in the channel and no unfinished leader bank in BankForks       *)
(* (block_creation_loop.rs:842).                                           *)
THEOREM LoopRestsClean == Spec => []RestsClean
<1>1. ASSUME CreationInv PROVE RestsClean
  <2> SUFFICES ASSUME loop.pc = "Wait"
               PROVE  /\ working = None /\ Quiet
                      /\ \A s \in Slots : s > OtherSlot /\ forks[s] # NoBank => banks[forks[s]].frozen
    BY DEF RestsClean
  <2>1. working = None /\ Emptied /\ ~Open
    BY <1>1 DEF CreationInv, ControlOk, WorkingOk, Emptied, Open
  <2>2. Quiet
    <3>1. queue = <<>>
      BY <1>1, <2>1 DEF CreationInv, ChannelOk, EmptyOk
    <3> QED
      BY <1>1, <2>1, <3>1, NoHolders, EmptyWord DEF Quiet
  <2>3. ASSUME NEW s \in Slots, s > OtherSlot, forks[s] # NoBank PROVE banks[forks[s]].frozen
    <3>1. forks[s] \in DOMAIN banks /\ (banks[forks[s]].frozen \/ forks[s] = working)
      BY <1>1, <2>3 DEF CreationInv, ForksOk
    <3>2. None \notin DOMAIN banks
      BY <1>1, WorkerTypes DEF None
    <3> QED
      BY <2>1, <3>1, <3>2
  <2> QED
    BY <2>1, <2>2, <2>3
<1> QED
  BY <1>1, CreationInvariance, PTL

(* A block with a footer is the bank it was made from, transaction for     *)
(* transaction and index for index, and the first block of a window is on  *)
(* the parent that votor announced (block_creation_loop.rs:655, 913).      *)
THEOREM CompletedBlocksSound == Spec => []BlocksSound
<1>1. ASSUME CreationInv PROVE BlocksSound
  <2>1. ASSUME NEW s \in Slots, Footer \in ToSet(stream[s])
        PROVE  /\ Matches(stream[s], banks[LastBank(s)], track)
               /\ s \in own => banks[LastBank(s)].parent = ready[s]
    <3>1. PICK i \in DOMAIN banks :
            /\ IsLast(banks, s, i) /\ Matches(stream[s], banks[i], track)
            /\ s \in own => ready[s] # NoBlock /\ banks[i].parent = ready[s]
      BY <1>1, <2>1 DEF CreationInv, BlockOk, DoneOk
    <3>2. \A j \in DOMAIN banks : j \in Nat
      BY <1>1, WorkerTypes
    <3>3. LastBank(s) = i
      BY <3>1, <3>2 DEF LastBank, IsLast
    <3> QED
      BY <3>1, <3>3
  <2>2. BlockMatchesBank
    <3> SUFFICES ASSUME NEW s \in Slots, Footer \in ToSet(stream[s])
                 PROVE  LET u == LastUpdate(s)
                            last == Len(stream[s])
                            bank == banks[LastBank(s)]
                            body == SubSeq(stream[s], u + 1, last - 1)
                        IN  /\ stream[s][last] = Footer
                            /\ \A i \in DOMAIN body : body[i].kind = "Tx"
                            /\ Len(body) = Cardinality(bank.committed)
                            /\ \A c \in bank.committed : \E i \in DOMAIN body :
                                  body[i].tx = c.tx /\ (track => c.index = i - 1)
                            /\ u > 0 => stream[s][u].parent = bank.parent
      BY DEF BlockMatchesBank
    <3>1. LastUpdate(s) = UpdateOf(stream[s])
      BY DEF LastUpdate, UpdateOf
    <3>2. Matches(stream[s], banks[LastBank(s)], track)
      BY <2>1
    <3> QED
      BY <3>1, <3>2 DEF Matches
  <2>3. FooterOnReadyParent
    <3>1. own \subseteq Slots
      <4> SUFFICES ASSUME NEW s \in own PROVE s \in Slots
        OBVIOUS
      <4>1. s \in WindowStarts /\ s + WindowSize - 1 <= MaxSlot
        BY <1>1 DEF CreationInv, TypesOk, ScheduleOk
      <4> QED
        BY <4>1, BoundsAssumption, WindowFacts DEF Slots
    <3> QED
      BY <2>1, <3>1 DEF FooterOnReadyParent
  <2> QED
    BY <2>2, <2>3 DEF BlocksSound
<1> QED
  BY <1>1, CreationInvariance, PTL

(* A sad handover gives the banking stage exactly the transactions the     *)
(* abandoned bank had accepted (block_creation_loop.rs:946).               *)
THEOREM HandoverReturnsAccepted == Spec => HandoverKeepsTransactions
<1>1. ASSUME CreationInv, Next, loop.then = "Handover", loop'.pc = "Record" PROVE StartRecording
  <2>1. loop.pc # "Record" /\ loop' # loop
    BY <1>1 DEF CreationInv, ControlOk, PcsOk
  <2>2. LoopStep
    BY <1>1, <2>1 DEF Next, LoopRuns, StartForeign, LookAgain, ChangeIdentity, AnotherRuns, WorkerGoesOn,
       WorkerTakes, Votor, ParentReady, ProduceWindow, ReplayOther, SwitchBank, FreezeOwn, loopVars
  <2>3. loop' # IdleLoop
    BY <1>1 DEF IdleLoop
  <2>4. \A p \in {"Drain", "Quiesce", "Start", "Insert", "Restart", "Freeze", "CheckActive", "Recheck"} :
          /\ loop' # [loop EXCEPT !.pc = p]
          /\ \A th : loop' # [loop EXCEPT !.pc = p, !.then = th]
          /\ \A a : loop' # [loop EXCEPT !.pc = p, !.acc = a]
    BY <1>1, LoopTypesHold DEF LoopRecords
  <2>5. ~SelectWindow
    <3>1. \A s, b, o : loop' # StartAt(s, b, o)
      BY <1>1 DEF StartAt, IdleLoop
    <3> QED
      BY <2>3, <3>1 DEF SelectWindow
  <2>6. ~StartFails /\ ~InsertFails /\ ~CompletionFails
    BY <2>3, <2>4 DEF StartFails, InsertFails, CompletionFails, GiveUp, DrainFor
  <2>7. ~StartLeader
    <3>1. \A b : loop' # [loop EXCEPT !.pc = "Insert", !.parent.id = b]
      BY <1>1, LoopTypesHold DEF LoopRecords
    <3> QED
      BY <3>1 DEF StartLeader
  <2>8. ~InsertBank /\ ~Tick /\ ~ClearForHandover
    BY <2>4 DEF InsertBank, Tick, ClearForHandover
  <2>9. ~RecordOne /\ ~MovedOn /\ ~TimesUp /\ ~HandleParentReady
    BY <2>1 DEF RecordOne, MovedOn, TimesUp, HandleParentReady
  <2>10. ~DrainOne
    BY <2>4 DEF DrainOne
  <2>11. ~DrainEmpty /\ ~CheckActive
    BY <2>4 DEF DrainEmpty, CheckActive, DrainStep
  <2>12. ~Drained
    BY <1>1, <2>4 DEF Drained
  <2>13. ~SendFooter /\ ~Abort
    <3>1. ~SendFooter
      BY <1>1 DEF SendFooter, CreationInv, ControlOk, PcsOk
    <3> QED
      BY <1>1, <3>1 DEF Abort
  <2> QED
    BY <2>2, <2>5, <2>6, <2>7, <2>8, <2>9, <2>10, <2>11, <2>12, <2>13 DEF LoopStep
<1>2. CreationInv /\ [Next]_vars =>
        [loop.then = "Handover" /\ loop'.pc = "Record" =>
           buffer' \ buffer = {c.tx : c \in banks[working - 1].committed}]_vars
  <2> SUFFICES ASSUME CreationInv, Next, loop.then = "Handover", loop'.pc = "Record"
               PROVE  buffer' \ buffer = {c.tx : c \in banks[working - 1].committed}
    OBVIOUS
  <2>1. StartRecording
    BY <1>1
  <2>2. Fixed
    BY DEF Next, Running, fixedVars, Fixed
  <2>3. buffer' \ buffer = TxsOf(banks[working - 1].committed)
    BY <2>1, <2>2, StartRecordingStep
  <2> QED
    BY <2>3 DEF TxsOf
<1> QED
  BY <1>2, CreationInvariance, PTL DEF Spec, HandoverKeepsTransactions

=============================================================================
